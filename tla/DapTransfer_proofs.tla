------------------------- MODULE DapTransfer_proofs -------------------------
(***************************************************************************)
(* Proofs about DapTransfer, for any lists of requests, any retry counts    *)
(* and any behaviour of the target.                                         *)
(***************************************************************************)
EXTENDS DapTransfer, FiniteSetTheorems, SequenceTheorems, TLAPS

-----------------------------------------------------------------------------
\* Where each step of a command is taken: for which command, which kind of request,
\* and whether a read is posted then.
PlaceInv ==
  /\ pc = "idle" => /\ cmd = "none" /\ reqs = <<>> /\ i = 1 /\ ~post /\ ~check
                    /\ count = 0 /\ value = "none" /\ data = <<>> /\ log = <<>>
  /\ pc \in {"request", "cancel"} \union Serving \union Closing => cmd = "transfer"
  /\ pc \in Block => cmd = "block" /\ ~post
  /\ cmd = "block" => /\ \A j \in 1..n : reqs[j] \in Plain \union Writes
                      /\ \A j, k \in 1..n : reqs[j] = reqs[k]
  /\ pc \in Serving \union {"blockPost", "blockRead", "blockWrite"} => i <= n
  /\ pc \in {"fetch", "pipe"} => post
  /\ pc \in Serving \ {"fetch", "pipe"} => ~post /\ Kind # "mask"
  /\ pc \in {"pipe", "post"} => Kind = "apRead"
  /\ pc = "read" => Kind = "dpRead"
  /\ pc = "matchPost" => Kind = "apMatch"
  /\ pc = "match" => Kind \in Matches
  /\ pc \in {"write", "blockWrite"} => Kind \in Writes
  /\ pc = "blockPost" => i = 1 /\ Kind = "apRead"
  /\ pc = "blockRead" => Kind \in Plain
  /\ pc = "lastFetch" => post
  /\ pc = "checkWrite" => ~post
  /\ pc \in Closing => value = "OK"

\* What the response counts: every request before the one in hand.
CountInv ==
  /\ pc \in {"request"} \union Serving \union Block => count = i - 1 /\ value \notin Bad
  /\ pc = "blockCheck" => count = n
  /\ value = "none" => count = 0
  /\ value = "OK" /\ pc \in {"cancel", "answer"} \union Closing
       => count = n \/ (abort /\ cmd = "transfer")

\* How far the target may be ahead of what is counted.
Ahead ==
  IF value \in Bad THEN IF cmd = "block" THEN 2 ELSE 1
  ELSE IF pc = "match" \/ (pc = "blockRead" /\ Kind \in Ap) THEN 1 ELSE 0

LogInv == OnceInOrder /\ \A k \in DOMAIN log : log[k] <= count + Ahead

\* The values stored, in order, are those of the reads counted, but for the one
\* that is posted; that one is what RDBUFF holds.
Fetched == IF post /\ ~(pc = "answer" /\ value = "OK") THEN count - 1 ELSE count

DataInv ==
  /\ \A j, k \in DOMAIN data : j < k => data[j] < data[k]
  /\ post => count > 0 /\ reqs[count] = "apRead"
  /\ Stored = Reads(Fetched)
  /\ post /\ pc # "answer" /\ value \notin Bad /\ ~sticky => rdbuff = count
  /\ pc = "blockRead" /\ Kind \in Ap /\ ~sticky => rdbuff = i

\* A request that is counted but not done: the bus error that lost it is pending
\* in the target, and the host has yet to see it or never will.
Hidden(j) ==
  /\ reqs[j] = "apWrite"
  /\ \A k \in (j + 1)..count : reqs[k] \in {"dpRead", "dpMatch", "mask"}
  /\ check \/ \E k \in (j + 1)..count : reqs[k] \in {"dpRead", "dpMatch"}
Lost(j) ==
  sticky /\ (pc \in {"blockWrite", "blockCheck"} \/ (post /\ j = count) \/ Hidden(j))

DoneInv ==
  /\ value \notin Bad => \A j \in 1..count :
       Done(j) \/ (IF pc = "answer" THEN Unseen(j) ELSE Lost(j))
  /\ pc = "match" /\ Kind = "apMatch" /\ ~sticky => Done(i)
  /\ pc = "blockRead" /\ Kind \in Ap /\ ~sticky => Done(i)

IInv == TypeOK /\ PlaceInv /\ CountInv /\ LogInv /\ DataInv /\ DoneInv

-----------------------------------------------------------------------------
USE DEF conf, command, target, resp, loop

\* The reads up to a request are those before it, and itself if it is one.
LEMMA ReadsNext ==
  ASSUME TypeOK, NEW m \in 0..(n - 1)
  PROVE  Reads(m + 1) = IF reqs[m + 1] \in Plain THEN Reads(m) \union {m + 1} ELSE Reads(m)
<1>1. m + 1 \in 1..n /\ 1..(m + 1) = 1..m \union {m + 1}
  BY SMT DEF TypeOK, n
<1> QED  BY <1>1, Zenon DEF Reads

\* The bytes of a set of requests are a number.
LEMMA SizeType ==
  ASSUME NEW a \in Int, NEW b \in Int
  PROVE  Size(a..b) \in Nat
<1>1. IsFiniteSet(a..b)  BY FS_Interval
<1>2. IsFiniteSet({j \in a..b : reqs[j] \in WithData})  BY <1>1, FS_Subset
<1>3. Cardinality(a..b) \in Nat /\ Cardinality({j \in a..b : reqs[j] \in WithData}) \in Nat
  BY <1>1, <1>2, FS_CardinalityType
<1> QED  BY <1>3, SMT DEF Size

\* The elements of a sequence.
LEMMA Elements ==
  ASSUME NEW S, NEW s \in Seq(S)
  PROVE  \A k \in DOMAIN s : s[k] \in S
BY ElementOfSeq, LenProperties

\* A value stored behind smaller ones.
LEMMA DataAppended ==
  ASSUME NEW x \in 1..n, data \in Seq(1..n), data' = Append(data, x),
         \A j, k \in DOMAIN data : j < k => data[j] < data[k],
         \A k \in DOMAIN data : data[k] < x
  PROVE  /\ data' \in Seq(1..n)
         /\ \A j, k \in DOMAIN data' : j < k => data'[j] < data'[k]
         /\ Stored' = Stored \union {x}
<1>1. data' \in Seq(1..n)  BY AppendProperties
<1>2. /\ Len(data') = Len(data) + 1 /\ Len(data) \in Nat
      /\ data'[Len(data) + 1] = x
      /\ \A k \in 1..Len(data) : data'[k] = data[k]
      /\ DOMAIN data = 1..Len(data) /\ DOMAIN data' = 1..(Len(data) + 1)
  BY <1>1, AppendProperties, SMT
<1>3. \A k \in 1..Len(data) : data[k] \in 1..n
  BY <1>2, ElementOfSeq
<1> DEFINE L == Len(data)
<1>4. /\ L \in Nat /\ DOMAIN data = 1..L /\ DOMAIN data' = 1..(L + 1) /\ data'[L + 1] = x
      /\ \A k \in 1..L : data'[k] = data[k] /\ data[k] \in 1..n
  BY <1>2, <1>3
<1> HIDE DEF L
<1>5. \A j, k \in DOMAIN data' : j < k => data'[j] < data'[k]
  BY <1>4, SMT
<1>6. Stored' = Stored \union {x}
  BY <1>4, SMT DEF Stored
<1> QED  BY <1>1, <1>5, <1>6

\* What an access for request j does to the history, when the target was not
\* beyond j before, and was at j only for a match.
LEMMA Accessed ==
  ASSUME TypeOK, NEW j \in 1..n, NEW label \in 0..n, UNCHANGED <<cmd, reqs>>,
         OnceInOrder,
         \A k \in DOMAIN log : log[k] < j \/ (log[k] = j /\ reqs[j] \in Matches),
         AccessAp(j, label) \/ AccessDp(j)
  PROVE  /\ log' \in Seq(1..n) /\ rdbuff' \in 0..n /\ sticky' \in BOOLEAN
         /\ OnceInOrder'
         /\ \A k \in DOMAIN log' : log'[k] <= j
         /\ \A x : Done(x) => Done(x)'
         /\ sticky => sticky'
         /\ \A x : x = j /\ (AccessDp(j) \/ ~sticky') => Done(x)'
         /\ AccessAp(j, label) /\ ~sticky' => rdbuff' = label
<1> DEFINE L == Len(log)
<1>0. log \in Seq(1..n) /\ rdbuff \in 0..n /\ sticky \in BOOLEAN /\ n \in Nat
  BY DEF TypeOK, n
<1>1. /\ L \in Nat /\ DOMAIN log = 1..L
      /\ \A k \in 1..L : log[k] \in 1..n
  BY <1>0, ElementOfSeq, SMT
<1>2. CASE log' = Append(log, j) /\ rdbuff' \in {label, rdbuff} /\ sticky' = sticky
  <2>1. log' \in Seq(1..n)  BY <1>0, <1>2, AppendProperties
  <2>2. /\ DOMAIN log' = 1..(L + 1) /\ log'[L + 1] = j
        /\ \A k \in 1..L : log'[k] = log[k]
    BY <1>0, <1>2, <2>1, AppendProperties, SMT
  <2> HIDE DEF L
  <2>3. \A k \in DOMAIN log' : log'[k] <= j  BY <1>1, <2>2, SMT
  <2>4. OnceInOrder'
    <3> SUFFICES ASSUME NEW a \in DOMAIN log', NEW b \in DOMAIN log', a < b
                 PROVE log'[a] < log'[b] \/ (log'[a] = log'[b] /\ reqs[log'[a]] \in Matches)
      BY DEF OnceInOrder
    <3>1. CASE b = L + 1
      <4>1. a \in 1..L  BY <1>1, <2>2, <3>1, SMT
      <4> QED  BY <1>1, <2>2, <3>1, <4>1
    <3>2. CASE b # L + 1
      <4>1. a \in 1..L /\ b \in 1..L  BY <1>1, <2>2, <3>2, SMT
      <4> QED  BY <1>1, <2>2, <4>1 DEF OnceInOrder
    <3> QED  BY <3>1, <3>2
  <2>5. \A x : Done(x) => Done(x)'
    BY <1>1, <2>2, SMT DEF Done
  <2>6. Done(j)'  BY <1>1, <2>2, SMT DEF Done
  <2>7. AccessAp(j, label) /\ ~sticky' => rdbuff' = label
    BY DEF AccessAp
  <2> QED  BY <1>0, <1>2, <2>1, <2>3, <2>4, <2>5, <2>6, <2>7
<1>3. CASE log' = log /\ rdbuff' = 0 /\ sticky' = TRUE /\ ~AccessDp(j)
  <2>1. OnceInOrder' /\ \A x : Done(x) => Done(x)'
    BY <1>3 DEF OnceInOrder, Done
  <2>2. \A k \in DOMAIN log' : log'[k] <= j  BY <1>1, <1>3, SMT
  <2> QED  BY <1>0, <1>3, <2>1, <2>2
<1> QED  BY <1>2, <1>3 DEF AccessAp, AccessDp

-----------------------------------------------------------------------------
\* The strengthened invariant holds initially.
LEMMA InitIInv == Init => IInv
<1> SUFFICES ASSUME Init PROVE IInv
  OBVIOUS
<1>1. n = 0 /\ reqs = <<>> /\ data = <<>> /\ log = <<>> /\ DOMAIN data = {} /\ DOMAIN log = {}
  BY SMT DEF Init, n
<1>2. TypeOK
  <2>1. reqs \in Seq(Kinds) /\ data \in Seq(1..Len(reqs)) /\ log \in Seq(1..Len(reqs))
    BY EmptySeq DEF Init
  <2>2. retryCount \in Nat  BY RetriesAssumption DEF Init
  <2>3. i \in 1..(Len(reqs) + 1) /\ count \in 0..Len(reqs) /\ rdbuff \in 0..Len(reqs)
    <3>1. Len(reqs) = 0  BY <1>1 DEF n
    <3>2. i = 1 /\ count = 0 /\ rdbuff = 0  BY DEF Init
    <3>3. 1 \in 1..(0 + 1) /\ 0 \in 0..0  BY SMT
    <3> QED  BY <3>1, <3>2, <3>3
  <2>4. /\ port \in BOOLEAN /\ abort \in BOOLEAN /\ post \in BOOLEAN /\ check \in BOOLEAN
        /\ sticky \in BOOLEAN /\ cmd \in {"none", "transfer", "block"}
        /\ pc \in Steps \union {"idle"} /\ value \in Bad \union {"none", "OK"}
        /\ matchRetry = 0 /\ retry = 0 /\ mretry = 0 /\ used = 0
    BY Zenon DEF Init
  <2>5. 0 \in Nat  BY SMT
  <2> QED  BY <2>1, <2>2, <2>3, <2>4, <2>5, Zenon DEF TypeOK
<1>3. PlaceInv /\ CountInv
  BY <1>1, SMT DEF Init, PlaceInv, CountInv, Serving, Closing, Block
<1>4. LogInv /\ DoneInv
  BY <1>1, SMT DEF Init, LogInv, OnceInOrder, DoneInv
<1>5. Stored = {} /\ Reads(0) = {} /\ Fetched = 0
  BY <1>1, SMT DEF Init, Stored, Reads, Fetched
<1>6. DataInv
  BY <1>1, <1>5, SMT DEF Init, DataInv
<1> QED  BY <1>2, <1>3, <1>4, <1>6 DEF IInv

\* A step that leaves what the invariant is about, but for the retry counter.
LEMMA WaitIInv ==
  ASSUME IInv, retry' \in Nat,
         UNCHANGED <<pc, i, mretry, post, check, resp, target, conf, abort, command>>
  PROVE  IInv'
<1>1. TypeOK'  BY DEF IInv, TypeOK
<1>2. PlaceInv'  BY DEF IInv, PlaceInv, n, Kind
<1>3. CountInv'  BY DEF IInv, CountInv, n
<1>4. LogInv'  BY DEF IInv, LogInv, OnceInOrder, Ahead, Kind
<1>5. DataInv'  BY DEF IInv, DataInv, Kind, Fetched, Reads, Stored
<1>6. DoneInv'  BY DEF IInv, DoneInv, Kind, Done, Lost, Hidden, Unseen
<1> QED  BY <1>1, <1>2, <1>3, <1>4, <1>5, <1>6 DEF IInv

\* A transfer fails for good, perhaps after the target made the access.
LEMMA BreakIInv ==
  ASSUME IInv, pc \in Serving \union Closing \union Block, NEW v \in Bad, Break(v),
         UNCHANGED <<conf, abort, command>>,
         log' \in Seq(1..n), rdbuff' \in 0..n, sticky' \in BOOLEAN, OnceInOrder',
         \A k \in DOMAIN log' : log'[k] <= count + (IF cmd = "block" THEN 2 ELSE 1)
  PROVE  IInv'
<1>1. TypeOK'
  BY SMT DEF IInv, TypeOK, Break, Steps, n, Bad
<1>2. PlaceInv'
  BY SMT DEF IInv, PlaceInv, Break, Kind, n, Serving, Closing, Block, Bad
<1>3. CountInv'
  BY SMT DEF IInv, CountInv, Break, Serving, Closing, Block, Bad
<1>4. LogInv'
  BY SMT DEF LogInv, Ahead, Break, Bad
<1>5. Stored' = Stored /\ Fetched' = Fetched /\ Reads(Fetched)' = Reads(Fetched)
  BY SMT DEF Stored, Reads, Fetched, Break, Serving, Closing, Block, Bad
<1>6. DataInv'
  BY <1>5, SMT DEF IInv, DataInv, Break, Bad
<1>7. DoneInv'
  BY SMT DEF IInv, DoneInv, Break, Bad
<1> QED  BY <1>1, <1>2, <1>3, <1>4, <1>6, <1>7 DEF IInv

\* The outcomes that leave the target alone: another round, or an error.
Unanswered ==
  /\ \/ retry > 0 /\ retry' = retry - 1 /\ UNCHANGED <<pc, i, mretry, post, check, resp>>
     \/ \E v \in Bad : Break(v)
  /\ UNCHANGED <<conf, abort, command, target>>

LEMMA UnansweredIInv ==
  ASSUME IInv, pc \in Serving \union Closing \union Block, Unanswered
  PROVE  IInv'
<1>1. CASE retry > 0 /\ retry' = retry - 1 /\ UNCHANGED <<pc, i, mretry, post, check, resp>>
  <2>1. retry' \in Nat  BY <1>1, SMT DEF IInv, TypeOK
  <2> QED  BY <1>1, <2>1, WaitIInv DEF Unanswered
<1>2. CASE \E v \in Bad : Break(v)
  <2>1. log' = log /\ rdbuff' = rdbuff /\ sticky' = sticky /\ cmd' = cmd /\ reqs' = reqs
    BY DEF Unanswered
  <2>2. OnceInOrder'  BY <2>1 DEF IInv, LogInv, OnceInOrder
  <2>3. /\ log \in Seq(1..n) /\ DOMAIN log = 1..Len(log) /\ Len(log) \in Nat
        /\ \A k \in DOMAIN log : log[k] \in 1..n
        /\ count \in Nat
    BY ElementOfSeq, SMT DEF IInv, TypeOK, n
  <2>4. Ahead \in {0, 1} /\ Ahead <= (IF cmd = "block" THEN 2 ELSE 1)
    BY SMT DEF Ahead, IInv, CountInv, PlaceInv, Serving, Closing, Block, Bad
  <2>5. \A k \in DOMAIN log' : log'[k] <= count + (IF cmd = "block" THEN 2 ELSE 1)
    BY <2>1, <2>3, <2>4, SMT DEF IInv, LogInv
  <2> QED  BY <1>2, <2>1, <2>2, <2>5, BreakIInv DEF IInv, TypeOK, n, Unanswered
<1> QED  BY <1>1, <1>2 DEF Unanswered

\* The history in numbers.
LEMMA LogBound ==
  ASSUME IInv
  PROVE  /\ n \in Nat /\ count \in 0..n /\ Ahead \in {0, 1, 2} /\ i \in 1..(n + 1)
         /\ \A k \in DOMAIN log : log[k] \in 1..n /\ log[k] <= count + Ahead
         /\ \A k \in DOMAIN data : data[k] \in 1..n
         /\ \A j \in 1..n : reqs[j] \in Kinds
<1>1. n \in Nat /\ count \in 0..n /\ i \in 1..(n + 1)  BY SMT DEF IInv, TypeOK, n
<1>2. /\ \A k \in DOMAIN log : log[k] \in 1..n
      /\ \A k \in DOMAIN data : data[k] \in 1..n
      /\ \A j \in 1..n : reqs[j] \in Kinds
  BY ElementOfSeq, SMT DEF IInv, TypeOK, n
<1>3. Ahead \in {0, 1, 2}  BY DEF Ahead
<1> QED  BY <1>1, <1>2, <1>3 DEF IInv, LogInv

\* The target makes the access, and the host sees an error.
LEMMA BreakAccessIInv ==
  ASSUME IInv, pc \in Serving \union Closing \union Block, NEW v \in Bad, Break(v),
         UNCHANGED <<conf, abort, command>>,
         NEW j \in 1..n, NEW label \in 0..n,
         \A k \in DOMAIN log : log[k] < j \/ (log[k] = j /\ reqs[j] \in Matches),
         j <= count + (IF cmd = "block" THEN 2 ELSE 1),
         AccessAp(j, label) \/ AccessDp(j)
  PROVE  IInv'
<1>1. /\ log' \in Seq(1..n) /\ rdbuff' \in 0..n /\ sticky' \in BOOLEAN
      /\ OnceInOrder' /\ \A k \in DOMAIN log' : log'[k] <= j
  BY Accessed DEF IInv, LogInv
<1>2. \A k \in DOMAIN log' : log'[k] \in 1..n
  BY <1>1, Elements
<1>3. \A k \in DOMAIN log' : log'[k] <= count + (IF cmd = "block" THEN 2 ELSE 1)
  BY <1>1, <1>2, LogBound, SMT
<1> QED  BY <1>1, <1>3, BreakIInv

\* A request is counted, and the loop goes on or is aborted.
LEMMA CountedIInv ==
  ASSUME IInv, pc \in Serving \union {"request"}, i \in 1..n, Counted,
         UNCHANGED <<conf, abort, command>>,
         retry' \in Nat, mretry' \in Nat, post' \in BOOLEAN, check' \in BOOLEAN, used' \in Nat,
         data' \in Seq(1..n), rdbuff' \in 0..n, sticky' \in BOOLEAN, log' \in Seq(1..n),
         OnceInOrder', \A k \in DOMAIN log' : log'[k] <= i,
         \A j, k \in DOMAIN data' : j < k => data'[j] < data'[k],
         post' => Kind = "apRead" /\ (~sticky' => rdbuff' = i),
         Stored' = Reads(IF post' THEN i - 1 ELSE i),
         \A j \in 1..i :
           \/ Done(j)'
           \/ /\ sticky'
              /\ \/ post' /\ j = i
                 \/ /\ reqs[j] = "apWrite"
                    /\ \A k \in (j + 1)..i : reqs[k] \in {"dpRead", "dpMatch", "mask"}
                    /\ check' \/ \E k \in (j + 1)..i : reqs[k] \in {"dpRead", "dpMatch"}
  PROVE  IInv'
<1>1. /\ count = i - 1 /\ cmd = "transfer" /\ n \in Nat /\ i \in 1..n
      /\ count' = i /\ value' = "OK" /\ n' = n /\ reqs' = reqs /\ cmd' = cmd
      /\ pc' \in {"request", "cancel"} /\ i' \in {i, i + 1} /\ i' \in 1..(n + 1)
      /\ pc' = "request" => i' = i + 1
      /\ pc' = "cancel" => abort'
  BY LogBound, SMT DEF IInv, CountInv, PlaceInv, Counted, n, TypeOK
<1>2. TypeOK'
  <2>1. pc' \in Steps \union {"idle"}  BY <1>1 DEF Steps
  <2>2. i' \in 1..(Len(reqs') + 1) /\ count' \in 0..Len(reqs')
    BY <1>1, SMT DEF n
  <2> QED  BY <1>1, <2>1, <2>2 DEF IInv, TypeOK, n
<1>3. PlaceInv'
  BY <1>1, SMT DEF IInv, PlaceInv, Serving, Closing, Block
<1>4. CountInv'
  <2>1. value' \notin Bad  BY <1>1 DEF Bad
  <2>2. CASE pc' = "request"
    <3>1. count' = i' - 1  BY <1>1, <2>2, SMT
    <3> QED  BY <1>1, <2>1, <2>2, <3>1 DEF CountInv, Closing
  <2>3. CASE pc' = "cancel"
    <3>1. pc' \notin {"request"} \union Serving \union Block
      BY <2>3, SMT DEF Serving, Block
    <3> QED  BY <1>1, <2>3, <3>1 DEF CountInv, Block
  <2> QED  BY <1>1, <2>2, <2>3
<1>5. Ahead' = 0  BY <1>1, SMT DEF Ahead, Bad
<1>6. \A k \in DOMAIN log' : log'[k] <= count' + Ahead'
  <2>1. count' + Ahead' = i  BY <1>1, <1>5, SMT
  <2> QED  BY <2>1
<1>7. LogInv'  BY <1>6 DEF LogInv
<1>8. DataInv'
  <2>1. Fetched' = IF post' THEN i - 1 ELSE i  BY <1>1, SMT DEF Fetched
  <2>2. Stored' = Reads(Fetched)'  BY <1>1, <2>1 DEF Reads
  <2>3. post' => count' > 0 /\ reqs'[count'] = "apRead"  BY <1>1, SMT DEF Kind
  <2>4. post' /\ ~sticky' => rdbuff' = count'  BY <1>1
  <2> QED  BY <1>1, <2>2, <2>3, <2>4 DEF DataInv
<1>9. DoneInv'
  <2>1. \A j \in 1..count' : Done(j)' \/ Lost(j)'
    BY <1>1 DEF Lost, Hidden
  <2> QED  BY <1>1, <2>1 DEF DoneInv
<1> QED  BY <1>2, <1>3, <1>4, <1>7, <1>8, <1>9 DEF IInv

\* The request in hand goes on to its own transfer, with no read pending.
LEMMA OwnIInv ==
  ASSUME IInv, pc \in {"request", "fetch"}, i \in 1..n, Kind # "mask", pc' = OwnStep[Kind],
         UNCHANGED <<i, count, value, check, conf, abort, command, target>>,
         retry' \in Nat, mretry' \in Nat, post' = FALSE, used' \in Nat, data' \in Seq(1..n),
         \A j, k \in DOMAIN data' : j < k => data'[j] < data'[k],
         Stored' = Reads(count),
         \A j \in 1..count : Done(j) \/ (sticky /\ Hidden(j))
  PROVE  IInv'
<1>1. Kind \in Kinds  BY LogBound DEF Kind
<1>2. /\ Kind = "apRead" => pc' = "post"
      /\ Kind = "dpRead" => pc' = "read"
      /\ Kind = "apMatch" => pc' = "matchPost"
      /\ Kind = "dpMatch" => pc' = "match"
      /\ Kind \in Writes => pc' = "write"
  BY SMT DEF OwnStep, Writes
<1>3. /\ count = i - 1 /\ cmd = "transfer" /\ n \in Nat /\ i \in 1..n
      /\ n' = n /\ reqs' = reqs /\ cmd' = cmd /\ Kind' = Kind /\ count' = count /\ i' = i
      /\ value' = value /\ value \notin Bad
      /\ pc' \in {"post", "read", "matchPost", "match", "write"}
  <2>1. pc' \in {"post", "read", "matchPost", "match", "write"}
    BY <1>1, <1>2, SMT DEF Kinds, Plain, Matches, Writes
  <2> QED  BY <2>1, LogBound, SMT DEF IInv, CountInv, PlaceInv, Serving, n, Kind
<1>4. TypeOK'
  <2>1. pc' \in Steps \union {"idle"}  BY <1>3 DEF Steps, Serving
  <2> QED  BY <1>3, <2>1 DEF IInv, TypeOK, n
<1>5. PlaceInv'
  <2>1. Kind \in Matches => pc' \in {"matchPost", "match"}  BY <1>2 DEF Matches
  <2>2. /\ pc' = "post" => Kind = "apRead"
        /\ pc' = "read" => Kind = "dpRead"
        /\ pc' = "matchPost" => Kind = "apMatch"
        /\ pc' = "match" => Kind \in Matches
        /\ pc' = "write" => Kind \in Writes
    BY <1>1, <1>2, SMT DEF Kinds, Plain, Matches, Writes
  <2> QED  BY <1>3, <2>2, SMT DEF IInv, PlaceInv, Serving, Closing, Block
<1>6. CountInv'
  BY <1>3, SMT DEF IInv, CountInv, Serving, Closing, Block
<1>7. LogInv'
  <2>1. OnceInOrder'  BY <1>3 DEF IInv, LogInv, OnceInOrder
  <2>2. Ahead = 0 /\ Ahead' \in {0, 1, 2}  BY <1>3, SMT DEF Ahead, Bad
  <2>3. \A k \in DOMAIN log' : log'[k] <= count' + Ahead'
    BY <1>3, <2>2, LogBound, SMT
  <2> QED  BY <2>1, <2>3 DEF LogInv
<1>8. DataInv'
  <2>1. Fetched' = count  BY <1>3, SMT DEF Fetched
  <2>2. Stored' = Reads(Fetched)'  BY <1>3, <2>1 DEF Reads
  <2> QED  BY <1>3, <2>2, SMT DEF DataInv
<1>9. DoneInv'
  <2>1. \A j : (Done(j)' <=> Done(j)) /\ (Hidden(j)' <=> Hidden(j))
    BY <1>3 DEF Done, Hidden
  <2>2. \A j \in 1..count' : Done(j)' \/ Lost(j)'
    BY <1>3, <2>1 DEF Lost
  <2>3. ~(pc' = "match" /\ Kind' = "apMatch")  BY <1>2, <1>3
  <2> QED  BY <1>3, <2>2, <2>3 DEF DoneInv
<1> QED  BY <1>4, <1>5, <1>6, <1>7, <1>8, <1>9 DEF IInv

\* The posted read is stored.
LEMMA PostedStored ==
  ASSUME IInv, post, ~sticky, pc # "answer", value \notin Bad,
         data' = Append(data, rdbuff)
  PROVE  /\ data' \in Seq(1..n)
         /\ \A j, k \in DOMAIN data' : j < k => data'[j] < data'[k]
         /\ Stored' = Reads(count)
<1>1. count \in 1..n /\ rdbuff = count /\ reqs[count] = "apRead" /\ Stored = Reads(count - 1)
  BY LogBound, SMT DEF IInv, DataInv, Fetched
<1>2. \A k \in DOMAIN data : data[k] < count
  <2>1. \A x \in Stored : x \in 1..(count - 1)  BY <1>1, Zenon DEF Reads
  <2>2. \A k \in DOMAIN data : data[k] \in 1..(count - 1)  BY <2>1 DEF Stored
  <2> QED  BY <1>1, <2>2, SMT
<1>3. /\ data' \in Seq(1..n)
      /\ \A j, k \in DOMAIN data' : j < k => data'[j] < data'[k]
      /\ Stored' = Stored \union {count}
  BY <1>1, <1>2, DataAppended DEF IInv, DataInv, TypeOK, n
<1>4. Reads(count) = Reads(count - 1) \union {count}
  <2> DEFINE m == count - 1
  <2>1. m \in 0..(n - 1) /\ m + 1 = count  BY <1>1, LogBound, SMT
  <2> HIDE DEF m
  <2>2. Reads(m + 1) = IF reqs[m + 1] \in Plain THEN Reads(m) \union {m + 1} ELSE Reads(m)
    BY <2>1, ReadsNext DEF IInv
  <2>3. Reads(count) = Reads(m) \union {count}  BY <1>1, <2>1, <2>2, Zenon DEF Plain
  <2> QED  BY <2>3 DEF m
<1> QED  BY <1>1, <1>3, <1>4

\* While a request is served: what is counted, logged, stored and done.
LEMMA Here ==
  ASSUME IInv, pc \in Serving \union {"request"}
  PROVE  /\ count = i - 1 /\ n \in Nat /\ i \in 1..(n + 1) /\ cmd = "transfer" /\ value \notin Bad
         /\ pc # "request" => i \in 1..n
         /\ \A k \in DOMAIN log : /\ log[k] \in 1..n /\ log[k] <= i
                                  /\ pc # "match" => log[k] < i
         /\ ~post => Stored = Reads(i - 1) /\ \A k \in DOMAIN data : data[k] < i
         /\ \A j \in 1..(i - 1) :
              \/ Done(j)
              \/ sticky /\ ((post /\ j = i - 1) \/ Hidden(j))
         /\ data \in Seq(1..n) /\ rdbuff \in 0..n /\ log \in Seq(1..n)
         /\ \A j, k \in DOMAIN data : j < k => data[j] < data[k]
         /\ retry \in Nat /\ mretry \in Nat /\ used \in Nat /\ retryCount \in Nat
         /\ matchRetry \in Nat /\ sticky \in BOOLEAN /\ post \in BOOLEAN /\ check \in BOOLEAN
         /\ Kind = reqs[i] /\ OnceInOrder
<1>1. /\ count = i - 1 /\ n \in Nat /\ i \in 1..(n + 1) /\ cmd = "transfer" /\ value \notin Bad
      /\ pc # "request" => i \in 1..n
  BY LogBound, SMT DEF IInv, CountInv, PlaceInv
<1>2. Ahead = IF pc = "match" THEN 1 ELSE 0
  BY <1>1, SMT DEF Ahead, Serving
<1>3. \A k \in DOMAIN log : /\ log[k] \in 1..n /\ log[k] <= i
                            /\ pc # "match" => log[k] < i
  BY <1>1, <1>2, LogBound, SMT
<1>4. ~post => Stored = Reads(i - 1)
  BY <1>1 DEF IInv, DataInv, Fetched
<1>5. ~post => \A k \in DOMAIN data : data[k] < i
  <2>1. ~post => \A x \in Stored : x \in 1..(i - 1)  BY <1>4, Zenon DEF Reads
  <2>2. ~post => \A k \in DOMAIN data : data[k] \in 1..(i - 1)  BY <2>1 DEF Stored
  <2> QED  BY <1>1, <2>2, SMT
<1>6. pc # "answer" /\ pc \notin {"blockWrite", "blockCheck"}
  BY SMT DEF Serving
<1>7. \A j \in 1..(i - 1) : Done(j) \/ (sticky /\ ((post /\ j = i - 1) \/ Hidden(j)))
  BY <1>1, <1>6 DEF IInv, DoneInv, Lost
<1> QED
  BY <1>1, <1>3, <1>4, <1>5, <1>7 DEF IInv, TypeOK, n, LogInv, DataInv, Kind

\* The reads up to the request in hand.
LEMMA ReadsHere ==
  ASSUME TypeOK, i \in 1..n
  PROVE  Reads(i) = IF Kind \in Plain THEN Reads(i - 1) \union {i} ELSE Reads(i - 1)
<1> DEFINE m == i - 1
<1>1. m \in 0..(n - 1) /\ m + 1 = i  BY SMT DEF TypeOK, n
<1> HIDE DEF m
<1>2. Reads(m + 1) = IF reqs[m + 1] \in Plain THEN Reads(m) \union {m + 1} ELSE Reads(m)
  BY <1>1, ReadsNext
<1>3. Reads(i) = IF Kind \in Plain THEN Reads(m) \union {i} ELSE Reads(m)
  BY <1>1, <1>2 DEF Kind
<1> QED  BY <1>3 DEF m

\* A mask is counted at once.
LEMMA MaskIInv ==
  ASSUME IInv, pc \in {"request", "fetch"}, i \in 1..n, Kind = "mask", Counted,
         UNCHANGED <<check, conf, abort, command, target>>,
         retry' \in Nat, mretry' \in Nat, post' = FALSE, used' \in Nat, data' \in Seq(1..n),
         \A j, k \in DOMAIN data' : j < k => data'[j] < data'[k],
         Stored' = Reads(count),
         \A j \in 1..count : Done(j) \/ (sticky /\ Hidden(j))
  PROVE  IInv'
<1>1. pc \in Serving \union {"request"}  BY DEF Serving
<1>2. count = i - 1  BY <1>1, Here
<1>3. Reads(i) = Reads(i - 1)
  BY ReadsHere DEF IInv, Plain
<1>4. \A j \in 1..i :
        \/ Done(j)
        \/ /\ sticky /\ reqs[j] = "apWrite"
           /\ \A k \in (j + 1)..i : reqs[k] \in {"dpRead", "dpMatch", "mask"}
           /\ check \/ \E k \in (j + 1)..i : reqs[k] \in {"dpRead", "dpMatch"}
  <2> TAKE j \in 1..i
  <2>1. CASE j = i  BY <2>1 DEF Done, Kind
  <2>2. CASE j # i
    <3>1. j \in 1..count /\ i \in Nat /\ j \in Nat  BY <1>2, <2>2, SMT DEF IInv, TypeOK
    <3>2. Done(j) \/ (sticky /\ Hidden(j))  BY <3>1
    <3>3. \A k \in (j + 1)..i : k = i \/ k \in (j + 1)..count  BY <1>2, <3>1, SMT
    <3>4. \A k \in (j + 1)..count : k \in (j + 1)..i  BY <1>2, <3>1, SMT
    <3>5. reqs[i] \in {"dpRead", "dpMatch", "mask"}  BY DEF Kind
    <3> QED  BY <3>2, <3>3, <3>4, <3>5 DEF Hidden
  <2> QED  BY <2>1, <2>2
<1>5. \A j : Done(j)' <=> Done(j)  BY DEF Done
<1>6. OnceInOrder'  BY DEF IInv, LogInv, OnceInOrder
<1>7. \A k \in DOMAIN log' : log'[k] <= i  BY <1>1, Here
<1>8. Stored' = Reads(IF post' THEN i - 1 ELSE i)  BY <1>2, <1>3
<1>9. /\ check' \in BOOLEAN /\ rdbuff' \in 0..n /\ sticky' \in BOOLEAN /\ log' \in Seq(1..n)
      /\ post' \in BOOLEAN
  BY DEF IInv, TypeOK, n
<1>10. \A j \in 1..i :
           \/ Done(j)'
           \/ /\ sticky'
              /\ \/ post' /\ j = i
                 \/ /\ reqs[j] = "apWrite"
                    /\ \A k \in (j + 1)..i : reqs[k] \in {"dpRead", "dpMatch", "mask"}
                    /\ check' \/ \E k \in (j + 1)..i : reqs[k] \in {"dpRead", "dpMatch"}
  BY <1>4, <1>5
<1> QED  BY <1>1, <1>6, <1>7, <1>8, <1>9, <1>10, CountedIInv

\* The loop reads a request or ends.
LEMMA RequestIInv == IInv /\ Request => IInv'
<1> SUFFICES ASSUME IInv, Request PROVE IInv'
  OBVIOUS
<1>1. pc = "request" /\ UNCHANGED <<conf, abort, command, target>>
  BY DEF Request
<1>2. CASE i > n /\ pc' = "cancel" /\ UNCHANGED <<i, retry, mretry, post, check, resp>>
  <2>1. /\ count = n /\ value \notin Bad /\ cmd = "transfer"
    <3>1. /\ count = i - 1 /\ value \notin Bad /\ cmd = "transfer" /\ n \in Nat /\ i \in 1..(n + 1)
      BY <1>1, Here
    <3> QED  BY <1>2, <3>1, SMT
  <2>2. TypeOK'
    <3>1. pc' \in Steps \union {"idle"}  BY <1>2 DEF Steps
    <3> QED  BY <1>1, <1>2, <3>1 DEF IInv, TypeOK
  <2>3. PlaceInv'
    BY <1>1, <1>2, <2>1, SMT DEF PlaceInv, Serving, Closing, Block
  <2>4. CountInv'
    BY <1>1, <1>2, <2>1, SMT DEF IInv, CountInv, Serving, Closing, Block, n
  <2>5. Ahead' = Ahead
    BY <1>1, <1>2, <2>1 DEF Ahead
  <2>6. LogInv'
    BY <1>1, <1>2, <2>5 DEF IInv, LogInv, OnceInOrder
  <2>7. DataInv'
    BY <1>1, <1>2, <2>1 DEF IInv, DataInv, Fetched, Reads, Stored
  <2>8. DoneInv'
    BY <1>1, <1>2, <2>1 DEF IInv, DoneInv, Done, Lost, Hidden
  <2> QED  BY <2>2, <2>3, <2>4, <2>6, <2>7, <2>8 DEF IInv
<1>3. CASE /\ i <= n /\ post
           /\ used' = used + 1 /\ retry' = retryCount
           /\ pc' = IF Kind = "apRead" THEN "pipe" ELSE "fetch"
           /\ UNCHANGED <<i, mretry, post, check, count, value, data>>
  <2>1. /\ count = i - 1 /\ value \notin Bad /\ cmd = "transfer" /\ pc' \in {"pipe", "fetch"}
        /\ i \in 1..n /\ used' \in Nat /\ retry' \in Nat /\ n' = n /\ Kind' = Kind
    BY <1>1, <1>3, Here, SMT DEF n, Kind
  <2>2. TypeOK'
    <3>1. pc' \in Steps \union {"idle"}  BY <2>1 DEF Steps, Serving
    <3> QED  BY <1>1, <1>3, <2>1, <3>1 DEF IInv, TypeOK
  <2>3. PlaceInv'
    BY <1>1, <1>3, <2>1, SMT DEF PlaceInv, Serving, Closing, Block
  <2>4. CountInv'
    BY <1>1, <1>3, <2>1, SMT DEF IInv, CountInv, Serving, Closing, Block
  <2>5. Ahead' = Ahead
    BY <1>1, <1>3, <2>1 DEF Ahead
  <2>6. LogInv'
    BY <1>1, <1>3, <2>5 DEF IInv, LogInv, OnceInOrder
  <2>7. DataInv'
    BY <1>1, <1>3, <2>1 DEF IInv, DataInv, Fetched, Reads, Stored
  <2>8. DoneInv'
    BY <1>1, <1>3, <2>1 DEF IInv, DoneInv, Done, Lost, Hidden
  <2> QED  BY <2>2, <2>3, <2>4, <2>6, <2>7, <2>8 DEF IInv
<1>4. CASE i <= n /\ ~post /\ Serve(1) /\ UNCHANGED <<post, check, data>>
  <2>1. /\ i \in 1..n /\ used' \in Nat /\ retry' \in Nat /\ mretry' \in Nat /\ post' = FALSE
        /\ data' \in Seq(1..n) /\ \A j, k \in DOMAIN data' : j < k => data'[j] < data'[k]
    BY <1>1, <1>4, Here, SMT DEF Serve
  <2>2. Stored' = Reads(count)  BY <1>1, <1>4, Here DEF Stored
  <2>3. \A j \in 1..count : Done(j) \/ (sticky /\ Hidden(j))
    BY <1>1, <1>4, Here
  <2>4. CASE Kind = "mask"
    BY <1>1, <1>4, <2>1, <2>2, <2>3, <2>4, MaskIInv DEF Serve
  <2>5. CASE Kind # "mask"
    <3>1. pc' = OwnStep[Kind] /\ UNCHANGED <<i, count, value>>
      BY <1>4, <2>5 DEF Serve
    <3> QED  BY <1>1, <1>4, <2>1, <2>2, <2>3, <2>5, <3>1, OwnIInv
  <2> QED  BY <2>4, <2>5
<1> QED  BY <1>2, <1>3, <1>4 DEF Request

\* The posted read is fetched, and the request in hand goes on.
LEMMA FetchIInv == IInv /\ Fetch => IInv'
<1> SUFFICES ASSUME IInv, Fetch PROVE IInv'
  OBVIOUS
<1>1. pc = "fetch" /\ pc \in Serving /\ post /\ i \in 1..n
  <2>1. pc = "fetch" /\ pc \in Serving  BY DEF Fetch, SWD_Transfer, Serving
  <2> QED  BY <2>1, Here DEF IInv, PlaceInv
<1>2. \/ Unanswered
      \/ /\ ~sticky /\ data' = Append(data, rdbuff) /\ post' = FALSE /\ Serve(0)
         /\ UNCHANGED <<check, target, conf, abort, command>>
  BY DEF Fetch, SWD_Transfer, Unanswered, NoAccess, Bad
<1>3. CASE Unanswered
  BY <1>1, <1>3, UnansweredIInv
<1>4. CASE /\ ~sticky /\ data' = Append(data, rdbuff) /\ post' = FALSE /\ Serve(0)
           /\ UNCHANGED <<check, target, conf, abort, command>>
  <2>1. /\ data' \in Seq(1..n) /\ \A j, k \in DOMAIN data' : j < k => data'[j] < data'[k]
        /\ Stored' = Reads(count)
    BY <1>1, <1>4, Here, PostedStored
  <2>2. used' \in Nat /\ retry' \in Nat /\ mretry' \in Nat
    BY <1>1, <1>4, Here, SMT DEF Serve
  <2>3. \A j \in 1..count : Done(j) \/ (sticky /\ Hidden(j))
    BY <1>1, <1>4, Here
  <2>4. CASE Kind = "mask"
    BY <1>1, <1>4, <2>1, <2>2, <2>3, <2>4, MaskIInv DEF Serve
  <2>5. CASE Kind # "mask"
    <3>1. pc' = OwnStep[Kind] /\ UNCHANGED <<i, count, value>>
      BY <1>4, <2>5 DEF Serve
    <3> QED  BY <1>1, <1>4, <2>1, <2>2, <2>3, <2>5, <3>1, OwnIInv
  <2> QED  BY <2>4, <2>5
<1> QED  BY <1>2, <1>3, <1>4

\* The access of the request in hand, when the host sees an error.
LEMMA OwnBreakIInv ==
  ASSUME IInv, pc \in Serving, pc = "match" => Kind \in Matches, NEW v \in Bad, Break(v),
         UNCHANGED <<conf, abort, command>>, NEW label \in 0..n,
         AccessAp(i, label) \/ AccessDp(i)
  PROVE  IInv'
<1>1. /\ count = i - 1 /\ i \in 1..n /\ n \in Nat /\ Kind = reqs[i] /\ cmd = "transfer"
      /\ \A k \in DOMAIN log : /\ log[k] \in 1..n /\ log[k] <= i
                               /\ pc # "match" => log[k] < i
  BY Here, SMT DEF Serving
<1>2. \A k \in DOMAIN log : log[k] < i \/ (log[k] = i /\ reqs[i] \in Matches)
  BY <1>1, SMT
<1>3. i <= count + (IF cmd = "block" THEN 2 ELSE 1)
  BY <1>1, SMT
<1> QED  BY <1>1, <1>2, <1>3, BreakAccessIInv

\* An AP access while nothing is pending in the target, and the request is counted.
LEMMA ApCountedIInv ==
  ASSUME IInv, pc \in Serving, pc = "match" => Kind \in Matches, Counted, ~sticky,
         UNCHANGED <<conf, abort, command>>, NEW label \in 0..n,
         AccessAp(i, label) \/ AccessDp(i),
         retry' \in Nat, mretry' \in Nat, post' \in BOOLEAN, check' \in BOOLEAN, used' \in Nat,
         data' \in Seq(1..n), \A j, k \in DOMAIN data' : j < k => data'[j] < data'[k],
         post' => Kind = "apRead" /\ label = i /\ AccessAp(i, label),
         Stored' = Reads(IF post' THEN i - 1 ELSE i),
         post' \/ (Kind = "apWrite" /\ check') \/ AccessDp(i) \/ Done(i)
  PROVE  IInv'
<1>1. /\ i \in 1..n /\ n \in Nat /\ Kind = reqs[i]
      /\ \A k \in DOMAIN log : /\ log[k] \in 1..n /\ log[k] <= i
                               /\ pc # "match" => log[k] < i
      /\ \A j \in 1..(i - 1) : Done(j)
  <2>1. pc # "request"  BY DEF Serving
  <2> QED  BY <2>1, Here
<1>2. \A k \in DOMAIN log : log[k] < i \/ (log[k] = i /\ reqs[i] \in Matches)
  BY <1>1, SMT
<1>3. /\ log' \in Seq(1..n) /\ rdbuff' \in 0..n /\ sticky' \in BOOLEAN
      /\ OnceInOrder' /\ \A k \in DOMAIN log' : log'[k] <= i
      /\ \A x : Done(x) => Done(x)'
      /\ \A x : x = i /\ (AccessDp(i) \/ ~sticky') => Done(x)'
      /\ AccessAp(i, label) /\ ~sticky' => rdbuff' = label
  BY <1>1, <1>2, Accessed DEF IInv, LogInv
<1>4. \A j \in 1..i :
           \/ Done(j)'
           \/ /\ sticky'
              /\ \/ post' /\ j = i
                 \/ /\ reqs[j] = "apWrite"
                    /\ \A k \in (j + 1)..i : reqs[k] \in {"dpRead", "dpMatch", "mask"}
                    /\ check' \/ \E k \in (j + 1)..i : reqs[k] \in {"dpRead", "dpMatch"}
  <2> TAKE j \in 1..i
  <2>1. CASE j = i
    <3>1. (j + 1)..i = {}  BY <1>1, <2>1, SMT
    <3> QED  BY <1>1, <1>3, <2>1, <3>1
  <2>2. CASE j # i
    <3>1. j \in 1..(i - 1)  BY <1>1, <2>2, SMT
    <3> QED  BY <1>1, <1>3, <3>1
  <2> QED  BY <2>1, <2>2
<1> QED  BY <1>1, <1>3, <1>4, CountedIInv

\* A DP access is made even with a bus error pending, and shows nothing of it.
LEMMA DpCountedIInv ==
  ASSUME IInv, pc \in Serving, pc = "match" => Kind \in Matches, Counted, ~post,
         UNCHANGED <<conf, abort, command, post>>, AccessDp(i),
         Kind \in {"dpRead", "dpMatch"},
         retry' \in Nat, mretry' \in Nat, check' \in BOOLEAN, used' \in Nat,
         data' \in Seq(1..n), \A j, k \in DOMAIN data' : j < k => data'[j] < data'[k],
         Stored' = Reads(i)
  PROVE  IInv'
<1>1. /\ i \in 1..n /\ n \in Nat /\ Kind = reqs[i]
      /\ \A k \in DOMAIN log : /\ log[k] \in 1..n /\ log[k] <= i
                               /\ pc # "match" => log[k] < i
      /\ \A j \in 1..(i - 1) : Done(j) \/ (sticky /\ Hidden(j))
  <2>1. pc # "request"  BY DEF Serving
  <2> QED  BY <2>1, Here
<1>2. \A k \in DOMAIN log : log[k] < i \/ (log[k] = i /\ reqs[i] \in Matches)
  BY <1>1, SMT
<1>3. /\ log' \in Seq(1..n) /\ rdbuff' \in 0..n /\ sticky' \in BOOLEAN
      /\ OnceInOrder' /\ \A k \in DOMAIN log' : log'[k] <= i
      /\ \A x : Done(x) => Done(x)'
      /\ \A x : x = i => Done(x)'
      /\ sticky' = sticky
  <2>1. i \in 0..n  BY <1>1, SMT
  <2> QED  BY <1>1, <1>2, <2>1, Accessed DEF IInv, LogInv, AccessDp
<1>4. \A j \in 1..i :
           \/ Done(j)'
           \/ /\ sticky'
              /\ \/ post' /\ j = i
                 \/ /\ reqs[j] = "apWrite"
                    /\ \A k \in (j + 1)..i : reqs[k] \in {"dpRead", "dpMatch", "mask"}
                    /\ check' \/ \E k \in (j + 1)..i : reqs[k] \in {"dpRead", "dpMatch"}
  <2> TAKE j \in 1..i
  <2>1. CASE j = i  BY <1>3, <2>1
  <2>2. CASE j # i
    <3>1. j \in 1..(i - 1) /\ count = i - 1  BY <1>1, <2>2, Here, SMT
    <3>2. Done(j) \/ (sticky /\ Hidden(j))  BY <1>1, <3>1
    <3>3. \A k \in (j + 1)..i : k = i \/ k \in (j + 1)..count  BY <1>1, <3>1, SMT
    <3>4. i \in (j + 1)..i  BY <1>1, <3>1, SMT
    <3> QED  BY <1>1, <1>3, <3>2, <3>3, <3>4 DEF Hidden
  <2> QED  BY <2>1, <2>2
<1>5. post' \in BOOLEAN /\ ~post'  BY DEF IInv, TypeOK
<1> QED  BY <1>1, <1>3, <1>4, <1>5, CountedIInv

\* An AP read that delivers the one before.
LEMMA PipeIInv == IInv /\ Pipe => IInv'
<1> SUFFICES ASSUME IInv, Pipe PROVE IInv'
  OBVIOUS
<1>1. pc = "pipe" /\ pc \in Serving /\ post /\ i \in 1..n /\ i \in 0..n /\ Kind = "apRead"
      /\ count = i - 1
  <2>1. pc = "pipe" /\ pc \in Serving  BY DEF Pipe, SWD_Transfer, Serving
  <2>2. i \in 1..n /\ n \in Nat /\ count = i - 1  BY <2>1, Here
  <2> QED  BY <2>1, <2>2, SMT DEF IInv, PlaceInv
<1>2. \/ Unanswered
      \/ /\ ~sticky /\ AccessAp(i, i) /\ data' = Append(data, rdbuff) /\ check' = FALSE
         /\ Counted /\ UNCHANGED <<retry, mretry, post, used>>
         /\ UNCHANGED <<conf, abort, command>>
      \/ AccessAp(i, i) /\ Break("ERROR") /\ UNCHANGED <<conf, abort, command>>
  BY DEF Pipe, SWD_Transfer, Unanswered, Bad
<1>3. CASE Unanswered
  BY <1>1, <1>3, UnansweredIInv
<1>4. CASE /\ ~sticky /\ AccessAp(i, i) /\ data' = Append(data, rdbuff) /\ check' = FALSE
           /\ Counted /\ UNCHANGED <<retry, mretry, post, used>>
           /\ UNCHANGED <<conf, abort, command>>
  <2>1. /\ data' \in Seq(1..n) /\ \A j, k \in DOMAIN data' : j < k => data'[j] < data'[k]
        /\ Stored' = Reads(i - 1)
    BY <1>1, <1>4, Here, PostedStored
  <2>2. used' \in Nat /\ retry' \in Nat /\ mretry' \in Nat /\ check' \in BOOLEAN
        /\ post' \in BOOLEAN /\ post'
    BY <1>1, <1>4 DEF IInv, TypeOK
  <2> QED  BY <1>1, <1>4, <2>1, <2>2, ApCountedIInv
<1>5. CASE AccessAp(i, i) /\ Break("ERROR") /\ UNCHANGED <<conf, abort, command>>
  BY <1>1, <1>5, OwnBreakIInv DEF Bad
<1> QED  BY <1>2, <1>3, <1>4, <1>5

\* The first of a run of AP reads.
LEMMA PostIInv == IInv /\ Post => IInv'
<1> SUFFICES ASSUME IInv, Post PROVE IInv'
  OBVIOUS
<1>1. pc = "post" /\ pc \in Serving /\ ~post /\ i \in 1..n /\ i \in 0..n /\ Kind = "apRead"
  <2>1. pc = "post" /\ pc \in Serving  BY DEF Post, SWD_Transfer, Serving
  <2>2. i \in 1..n /\ n \in Nat  BY <2>1, Here
  <2> QED  BY <2>1, <2>2, SMT DEF IInv, PlaceInv
<1>2. \/ Unanswered
      \/ /\ ~sticky /\ AccessAp(i, i) /\ post' = TRUE /\ check' = FALSE
         /\ Counted /\ UNCHANGED <<retry, mretry, data, used>>
         /\ UNCHANGED <<conf, abort, command>>
      \/ AccessAp(i, i) /\ Break("ERROR") /\ UNCHANGED <<conf, abort, command>>
  BY DEF Post, SWD_Transfer, Unanswered, Bad
<1>3. CASE Unanswered
  BY <1>1, <1>3, UnansweredIInv
<1>4. CASE /\ ~sticky /\ AccessAp(i, i) /\ post' = TRUE /\ check' = FALSE
           /\ Counted /\ UNCHANGED <<retry, mretry, data, used>>
           /\ UNCHANGED <<conf, abort, command>>
  <2>1. /\ data' \in Seq(1..n) /\ \A j, k \in DOMAIN data' : j < k => data'[j] < data'[k]
        /\ Stored' = Reads(i - 1)
    BY <1>1, <1>4, Here DEF Stored
  <2>2. used' \in Nat /\ retry' \in Nat /\ mretry' \in Nat /\ check' \in BOOLEAN
    BY <1>1, <1>4 DEF IInv, TypeOK
  <2> QED  BY <1>1, <1>4, <2>1, <2>2, ApCountedIInv
<1>5. CASE AccessAp(i, i) /\ Break("ERROR") /\ UNCHANGED <<conf, abort, command>>
  BY <1>1, <1>5, OwnBreakIInv DEF Bad
<1> QED  BY <1>2, <1>3, <1>4, <1>5

\* A DP read is stored at once.
LEMMA ReadIInv == IInv /\ Read => IInv'
<1> SUFFICES ASSUME IInv, Read PROVE IInv'
  OBVIOUS
<1>1. pc = "read" /\ pc \in Serving /\ ~post /\ i \in 1..n /\ i \in 0..n /\ Kind = "dpRead"
  <2>1. pc = "read" /\ pc \in Serving  BY DEF Read, SWD_Transfer, Serving
  <2>2. i \in 1..n /\ n \in Nat  BY <2>1, Here
  <2> QED  BY <2>1, <2>2, SMT DEF IInv, PlaceInv
<1>2. \/ Unanswered
      \/ /\ AccessDp(i) /\ data' = Append(data, i) /\ check' = FALSE
         /\ Counted /\ UNCHANGED <<retry, mretry, post, used>>
         /\ UNCHANGED <<conf, abort, command>>
      \/ AccessDp(i) /\ Break("ERROR") /\ UNCHANGED <<conf, abort, command>>
  BY DEF Read, SWD_Transfer, Unanswered, Bad
<1>3. CASE Unanswered
  BY <1>1, <1>3, UnansweredIInv
<1>4. CASE /\ AccessDp(i) /\ data' = Append(data, i) /\ check' = FALSE
           /\ Counted /\ UNCHANGED <<retry, mretry, post, used>>
           /\ UNCHANGED <<conf, abort, command>>
  <2>1. /\ data' \in Seq(1..n) /\ \A j, k \in DOMAIN data' : j < k => data'[j] < data'[k]
        /\ Stored' = Stored \union {i}
    BY <1>1, <1>4, Here, DataAppended
  <2>2. Stored' = Reads(i)
    BY <1>1, <2>1, Here, ReadsHere DEF IInv, Plain
  <2>3. used' \in Nat /\ retry' \in Nat /\ mretry' \in Nat /\ check' \in BOOLEAN
    BY <1>1, <1>4 DEF IInv, TypeOK
  <2> QED  BY <1>1, <1>4, <2>1, <2>2, <2>3, DpCountedIInv
<1>5. CASE AccessDp(i) /\ Break("ERROR") /\ UNCHANGED <<conf, abort, command>>
  BY <1>1, <1>5, OwnBreakIInv DEF Bad
<1> QED  BY <1>2, <1>3, <1>4, <1>5

\* A write is counted before the target has shown that it succeeded.
LEMMA WriteIInv == IInv /\ Write => IInv'
<1> SUFFICES ASSUME IInv, Write PROVE IInv'
  OBVIOUS
<1>1. pc = "write" /\ pc \in Serving /\ ~post /\ i \in 1..n /\ rdbuff \in 0..n
      /\ Kind \in Writes /\ Kind = reqs[i]
  <2>1. pc = "write" /\ pc \in Serving  BY DEF Write, SWD_Transfer, Serving
  <2>2. i \in 1..n /\ n \in Nat /\ rdbuff \in 0..n  BY <2>1, Here
  <2> QED  BY <2>1, <2>2, SMT DEF IInv, PlaceInv, Kind
<1>2. \/ Unanswered
      \/ /\ ~sticky /\ Access(i, rdbuff) /\ check' = TRUE
         /\ Counted /\ UNCHANGED <<retry, mretry, post, data, used>>
         /\ UNCHANGED <<conf, abort, command>>
      \/ Access(i, rdbuff) /\ Break("ERROR") /\ UNCHANGED <<conf, abort, command>>
  BY DEF Write, SWD_Transfer, Unanswered, Bad
<1>3. CASE Unanswered
  BY <1>1, <1>3, UnansweredIInv
<1>4. CASE /\ ~sticky /\ Access(i, rdbuff) /\ check' = TRUE
           /\ Counted /\ UNCHANGED <<retry, mretry, post, data, used>>
           /\ UNCHANGED <<conf, abort, command>>
  <2>1. Stored' = Reads(i)
    BY <1>1, <1>4, Here, ReadsHere DEF IInv, Plain, Writes, Stored
  <2>2. data' \in Seq(1..n) /\ \A j, k \in DOMAIN data' : j < k => data'[j] < data'[k]
    BY <1>1, <1>4, Here
  <2>3. used' \in Nat /\ retry' \in Nat /\ mretry' \in Nat /\ check' \in BOOLEAN
        /\ post' \in BOOLEAN /\ ~post'
    BY <1>1, <1>4 DEF IInv, TypeOK
  <2>4. AccessDp(i) \/ (AccessAp(i, rdbuff) /\ Kind = "apWrite")
    BY <1>1, <1>4 DEF Access, Writes, Ap
  <2> QED  BY <1>1, <1>4, <2>1, <2>2, <2>3, <2>4, ApCountedIInv
<1>5. CASE Access(i, rdbuff) /\ Break("ERROR") /\ UNCHANGED <<conf, abort, command>>
  BY <1>1, <1>5, OwnBreakIInv DEF Bad, Access
<1> QED  BY <1>2, <1>3, <1>4, <1>5

\* A match is read (again), and its request is not counted yet.
LEMMA MatchReadIInv ==
  ASSUME IInv, pc \in {"matchPost", "match"}, Kind \in Matches, pc' = "match",
         UNCHANGED <<i, post, check, resp, conf, abort, command>>,
         retry' \in Nat, mretry' \in Nat, Access(i, 0), Kind = "apMatch" => ~sticky
  PROVE  IInv'
<1>1. /\ pc \in Serving /\ i \in 1..n /\ n \in Nat /\ Kind = reqs[i] /\ count = i - 1
      /\ cmd = "transfer" /\ value \notin Bad /\ ~post
      /\ \A k \in DOMAIN log : /\ log[k] \in 1..n /\ log[k] <= i
                               /\ pc # "match" => log[k] < i
      /\ \A j \in 1..(i - 1) : Done(j) \/ (sticky /\ Hidden(j))
  <2>1. pc \in Serving /\ pc # "request"  BY DEF Serving
  <2>2. ~post  BY DEF IInv, PlaceInv, Serving
  <2> QED  BY <2>1, <2>2, Here
<1>2. \A k \in DOMAIN log : log[k] < i \/ (log[k] = i /\ reqs[i] \in Matches)
  BY <1>1, SMT
<1>3. /\ log' \in Seq(1..n) /\ rdbuff' \in 0..n /\ sticky' \in BOOLEAN
      /\ OnceInOrder' /\ \A k \in DOMAIN log' : log'[k] <= i
      /\ \A x : Done(x) => Done(x)'
      /\ \A x : x = i /\ (AccessDp(i) \/ ~sticky') => Done(x)'
      /\ sticky => sticky'
  <2>1. AccessAp(i, 0) \/ AccessDp(i)  BY DEF Access
  <2>2. 0 \in 0..n  BY <1>1, SMT
  <2> QED  BY <1>1, <1>2, <2>1, <2>2, Accessed DEF IInv, LogInv
<1>4. TypeOK'
  <2>1. pc' \in Steps \union {"idle"}  BY DEF Steps, Serving
  <2> QED  BY <1>3, <2>1 DEF IInv, TypeOK, n
<1>5. Kind' = Kind /\ n' = n /\ i' = i /\ count' = count /\ value' = value /\ reqs' = reqs
      /\ cmd' = cmd /\ post' = post /\ check' = check /\ data' = data /\ abort' = abort
  BY DEF Kind, n
<1>6. PlaceInv'
  BY <1>1, <1>5, SMT DEF PlaceInv, Serving, Closing, Block, Matches
<1>7. CountInv'
  BY <1>1, <1>5, SMT DEF IInv, CountInv, Serving, Closing, Block
<1>8. LogInv'
  <2>1. count' + Ahead' = i  BY <1>1, <1>5, SMT DEF Ahead, Bad
  <2> QED  BY <1>3, <2>1 DEF LogInv
<1>9. DataInv'
  BY <1>1, <1>5, SMT DEF IInv, DataInv, Fetched, Reads, Stored, Serving
<1>10. DoneInv'
  <2>1. \A j : Hidden(j) => Hidden(j)'  BY <1>5 DEF Hidden
  <2>2. \A j \in 1..count' : Done(j)' \/ Lost(j)'
    BY <1>1, <1>3, <1>5, <2>1 DEF Lost
  <2>3. ~sticky' => Done(i)'
    BY <1>3, <1>5 DEF Done
  <2> QED  BY <1>5, <2>2, <2>3 DEF DoneInv
<1> QED  BY <1>4, <1>6, <1>7, <1>8, <1>9, <1>10 DEF IInv

\* The first read of a match on an AP register.
LEMMA MatchPostIInv == IInv /\ MatchPost => IInv'
<1> SUFFICES ASSUME IInv, MatchPost PROVE IInv'
  OBVIOUS
<1>1. pc = "matchPost" /\ pc \in Serving /\ i \in 1..n /\ 0 \in 0..n /\ Kind = "apMatch"
      /\ retryCount \in Nat /\ mretry \in Nat
  <2>1. pc = "matchPost" /\ pc \in Serving  BY DEF MatchPost, SWD_Transfer, Serving
  <2>2. i \in 1..n /\ n \in Nat /\ retryCount \in Nat /\ mretry \in Nat  BY <2>1, Here
  <2> QED  BY <2>1, <2>2, SMT DEF IInv, PlaceInv
<1>2. \/ Unanswered
      \/ /\ ~sticky /\ AccessAp(i, 0) /\ pc' = "match" /\ retry' = retryCount
         /\ UNCHANGED <<i, mretry, post, check, resp, conf, abort, command>>
      \/ AccessAp(i, 0) /\ Break("ERROR") /\ UNCHANGED <<conf, abort, command>>
  BY DEF MatchPost, SWD_Transfer, Unanswered, Bad
<1>3. CASE Unanswered
  BY <1>1, <1>3, UnansweredIInv
<1>4. CASE /\ ~sticky /\ AccessAp(i, 0) /\ pc' = "match" /\ retry' = retryCount
           /\ UNCHANGED <<i, mretry, post, check, resp, conf, abort, command>>
  <2>1. Kind \in Matches /\ Access(i, 0)  BY <1>1, <1>4 DEF Matches, Access, Ap, Kind
  <2> QED  BY <1>1, <1>4, <2>1, MatchReadIInv
<1>5. CASE AccessAp(i, 0) /\ Break("ERROR") /\ UNCHANGED <<conf, abort, command>>
  BY <1>1, <1>5, OwnBreakIInv DEF Bad
<1> QED  BY <1>2, <1>3, <1>4, <1>5

\* The value matches, is read again, or does not match.
LEMMA MatchIInv == IInv /\ Match => IInv'
<1> SUFFICES ASSUME IInv, Match PROVE IInv'
  OBVIOUS
<1>1. pc = "match" /\ pc \in Serving /\ i \in 1..n /\ 0 \in 0..n /\ Kind \in Matches /\ ~post
      /\ Kind = reqs[i] /\ retryCount \in Nat /\ mretry \in Nat
  <2>1. pc = "match" /\ pc \in Serving  BY DEF Match, SWD_Transfer, Serving
  <2>2. i \in 1..n /\ n \in Nat /\ retryCount \in Nat /\ mretry \in Nat  BY <2>1, Here
  <2> QED  BY <2>1, <2>2, SMT DEF IInv, PlaceInv, Kind
<1>2. \/ Unanswered
      \/ /\ ~(Kind = "apMatch" /\ sticky) /\ Access(i, 0) /\ check' = FALSE /\ Counted
         /\ UNCHANGED <<retry, mretry, post, data, used, conf, abort, command>>
      \/ /\ ~(Kind = "apMatch" /\ sticky) /\ Access(i, 0)
         /\ mretry > 0 /\ mretry' = mretry - 1 /\ retry' = retryCount
         /\ UNCHANGED <<pc, i, post, check, resp, conf, abort, command>>
      \/ /\ Access(i, 0) /\ UNCHANGED <<conf, abort, command>>
         /\ Break("ERROR") \/ Break("MISMATCH")
  BY DEF Match, SWD_Transfer, Unanswered, Bad
<1>3. CASE Unanswered
  BY <1>1, <1>3, UnansweredIInv
<1>4. CASE /\ ~(Kind = "apMatch" /\ sticky) /\ Access(i, 0) /\ check' = FALSE /\ Counted
           /\ UNCHANGED <<retry, mretry, post, data, used, conf, abort, command>>
  <2>1. Stored' = Reads(i)
    BY <1>1, <1>4, Here, ReadsHere DEF IInv, Plain, Matches, Stored
  <2>2. data' \in Seq(1..n) /\ \A j, k \in DOMAIN data' : j < k => data'[j] < data'[k]
    BY <1>1, <1>4, Here
  <2>3. used' \in Nat /\ retry' \in Nat /\ mretry' \in Nat /\ check' \in BOOLEAN
        /\ post' \in BOOLEAN /\ ~post'
    BY <1>1, <1>4 DEF IInv, TypeOK
  <2>4. CASE Kind = "apMatch"
    <3>1. ~sticky /\ AccessAp(i, 0) /\ Done(i)
      BY <1>1, <1>4, <2>4 DEF Access, Ap, IInv, DoneInv
    <3> QED  BY <1>1, <1>4, <2>1, <2>2, <2>3, <3>1, ApCountedIInv
  <2>5. CASE Kind = "dpMatch"
    <3>1. AccessDp(i)  BY <1>1, <1>4, <2>5 DEF Access, Ap
    <3> QED  BY <1>1, <1>4, <2>1, <2>2, <2>3, <2>5, <3>1, DpCountedIInv
  <2> QED  BY <1>1, <2>4, <2>5 DEF Matches
<1>5. CASE /\ ~(Kind = "apMatch" /\ sticky) /\ Access(i, 0)
           /\ mretry > 0 /\ mretry' = mretry - 1 /\ retry' = retryCount
           /\ UNCHANGED <<pc, i, post, check, resp, conf, abort, command>>
  <2>1. mretry' \in Nat /\ retry' \in Nat  BY <1>1, <1>5, SMT
  <2> QED  BY <1>1, <1>5, <2>1, MatchReadIInv
<1>6. CASE /\ Access(i, 0) /\ UNCHANGED <<conf, abort, command>>
           /\ Break("ERROR") \/ Break("MISMATCH")
  <2>1. AccessAp(i, 0) \/ AccessDp(i)  BY <1>6 DEF Access
  <2> QED  BY <1>1, <1>6, <2>1, OwnBreakIInv DEF Bad
<1> QED  BY <1>2, <1>3, <1>4, <1>5, <1>6

-----------------------------------------------------------------------------
\* What an answer is, when no error is pending in the target.
LEMMA AnsweredDone ==
  ASSUME IInv, value \notin Bad, pc # "answer", ~sticky \/ (pc = "cancel" /\ ~post /\ ~check)
  PROVE  \A j \in 1..count : Done(j) \/ Unseen(j)
BY DEF IInv, DoneInv, Lost, Hidden, Unseen

\* The loop is left.
LEMMA CancelIInv == IInv /\ Cancel => IInv'
<1> SUFFICES ASSUME IInv, Cancel PROVE IInv'
  OBVIOUS
<1>1. /\ pc = "cancel" /\ cmd = "transfer" /\ retry' \in Nat
      /\ pc' \in {"answer", "lastFetch", "checkWrite"}
      /\ UNCHANGED <<conf, abort, command, i, mretry, post, check, count, value, data, target>>
      /\ n' = n
      /\ pc' = "lastFetch" => post /\ value = "OK"
      /\ pc' = "checkWrite" => ~post /\ value = "OK"
      /\ pc' = "answer" /\ value = "OK" => ~post /\ ~check
      /\ value = "none" => count = 0
  BY DEF Cancel, IInv, PlaceInv, CountInv, TypeOK, n
<1>2. used' \in Nat
  <2>1. PICK s \in Skipped : used' = used + s  BY DEF Cancel
  <2>2. used \in Nat /\ i \in Nat /\ n \in Nat  BY SMT DEF IInv, TypeOK, n
  <2>3. s \in Nat
    <3>1. CASE i > n  BY <2>1, <3>1, SMT DEF Skipped
    <3>2. CASE ~(i > n) /\ used = Size(1..i)
      <4> DEFINE z == Size((i + 1)..n)
      <4>1. z \in Nat  BY <2>2, SizeType
      <4>2. s \in {z + k : k \in {1, 5}}  BY <2>1, <3>2 DEF Skipped
      <4> HIDE DEF z
      <4> QED  BY <4>1, <4>2, SMT
    <3>3. CASE ~(i > n) /\ used # Size(1..i)
      <4> DEFINE m == n - i + 1
      <4>1. m \in Nat  BY <2>2, <3>3, SMT
      <4>2. s \in {m + 4 * k : k \in 0..m}  BY <2>1, <3>3 DEF Skipped
      <4> HIDE DEF m
      <4> QED  BY <4>1, <4>2, SMT
    <3> QED  BY <3>1, <3>2, <3>3
  <2> QED  BY <2>1, <2>2, <2>3, SMT
<1>3. TypeOK'
  <2>1. pc' \in Steps \union {"idle"}  BY <1>1 DEF Steps, Closing
  <2> QED  BY <1>1, <1>2, <2>1 DEF IInv, TypeOK
<1>4. PlaceInv'
  BY <1>1, SMT DEF PlaceInv, Serving, Closing, Block
<1>5. CountInv'
  BY <1>1, SMT DEF IInv, CountInv, Serving, Closing, Block
<1>6. LogInv'
  <2>1. Ahead' = Ahead  BY <1>1, SMT DEF Ahead
  <2> QED  BY <1>1, <2>1 DEF IInv, LogInv, OnceInOrder
<1>7. DataInv'
  <2>1. post => value # "none"  BY <1>1, SMT DEF IInv, DataInv
  <2>2. Fetched' = Fetched  BY <1>1, SMT DEF Fetched
  <2>3. Stored' = Reads(Fetched)'  BY <1>1, <2>2 DEF IInv, DataInv, Reads, Stored
  <2> QED  BY <1>1, <2>3 DEF IInv, DataInv
<1>8. DoneInv'
  <2>1. \A j : /\ Done(j)' <=> Done(j)
               /\ Unseen(j)' <=> Unseen(j)
               /\ Hidden(j)' <=> Hidden(j)
    BY <1>1 DEF Done, Unseen, Hidden
  <2>2. CASE pc' # "answer"
    <3>1. \A j : Lost(j) => Lost(j)'  BY <1>1, <2>1 DEF Lost
    <3> QED  BY <1>1, <2>1, <2>2, <3>1 DEF IInv, DoneInv
  <2>3. CASE pc' = "answer" /\ value = "OK"
    <3>1. \A j \in 1..count : Done(j) \/ Unseen(j)
      BY <1>1, <2>3, AnsweredDone DEF Bad
    <3> QED  BY <1>1, <2>1, <2>3, <3>1 DEF DoneInv
  <2>4. CASE pc' = "answer" /\ value # "OK"
    <3>1. value \notin Bad => value = "none"  BY <2>4 DEF IInv, TypeOK
    <3>2. 1..0 = {}  BY SMT
    <3> QED  BY <1>1, <2>4, <3>1, <3>2 DEF DoneInv
  <2> QED  BY <2>2, <2>3, <2>4
<1> QED  BY <1>3, <1>4, <1>5, <1>6, <1>7, <1>8 DEF IInv

\* The last transfer of a command succeeds, and nothing was left pending.
LEMMA ClosedIInv ==
  ASSUME IInv, pc \in {"lastFetch", "checkWrite", "blockCheck"}, pc' = "answer", ~sticky,
         UNCHANGED <<i, retry, mretry, post, check, count, value, used,
                     conf, abort, command, target>>,
         data' \in Seq(1..n), \A j, k \in DOMAIN data' : j < k => data'[j] < data'[k],
         Stored' = Reads(count)
  PROVE  IInv'
<1>1. /\ n' = n /\ reqs' = reqs /\ cmd' = cmd /\ count' = count /\ post' = post /\ value' = value
      /\ abort' = abort /\ log' = log
      /\ pc = "blockCheck" => ~post /\ count = n /\ value \notin Bad
      /\ pc # "blockCheck" => value = "OK"
      /\ post => value = "OK"
  BY SMT DEF n, IInv, PlaceInv, CountInv, Closing, Block
<1>2. TypeOK'
  <2>1. pc' \in Steps \union {"idle"}  BY DEF Steps
  <2> QED  BY <1>1, <2>1 DEF IInv, TypeOK, n
<1>3. PlaceInv'
  BY <1>1, SMT DEF IInv, PlaceInv, Serving, Closing, Block
<1>4. CountInv'
  BY <1>1, SMT DEF IInv, CountInv, Serving, Closing, Block
<1>5. LogInv'
  <2>1. Ahead' = Ahead  BY <1>1, SMT DEF Ahead
  <2> QED  BY <1>1, <2>1 DEF IInv, LogInv, OnceInOrder
<1>6. DataInv'
  <2>1. Fetched' = count  BY <1>1, SMT DEF Fetched
  <2>2. Stored' = Reads(Fetched)'  BY <1>1, <2>1 DEF Reads
  <2> QED  BY <1>1, <2>2 DEF IInv, DataInv
<1>7. DoneInv'
  <2>1. value \notin Bad  BY <1>1 DEF Bad
  <2>2. \A j \in 1..count : Done(j) \/ Unseen(j)  BY <2>1, AnsweredDone
  <2>3. \A j : (Done(j)' <=> Done(j)) /\ (Unseen(j)' <=> Unseen(j))  BY <1>1 DEF Done, Unseen
  <2> QED  BY <1>1, <2>2, <2>3 DEF DoneInv
<1> QED  BY <1>2, <1>3, <1>4, <1>5, <1>6, <1>7 DEF IInv

\* The last posted read.
LEMMA LastFetchIInv == IInv /\ LastFetch => IInv'
<1> SUFFICES ASSUME IInv, LastFetch PROVE IInv'
  OBVIOUS
<1>1. pc = "lastFetch" /\ pc \in Closing /\ post /\ value \notin Bad
  BY DEF LastFetch, SWD_Transfer, Closing, IInv, PlaceInv, Bad
<1>2. \/ Unanswered
      \/ /\ ~sticky /\ pc' = "answer" /\ data' = Append(data, rdbuff)
         /\ UNCHANGED <<i, retry, mretry, post, check, count, value, used,
                        conf, abort, command, target>>
  BY DEF LastFetch, SWD_Transfer, Unanswered, NoAccess, Bad
<1>3. CASE Unanswered
  BY <1>1, <1>3, UnansweredIInv
<1>4. CASE /\ ~sticky /\ pc' = "answer" /\ data' = Append(data, rdbuff)
           /\ UNCHANGED <<i, retry, mretry, post, check, count, value, used,
                          conf, abort, command, target>>
  BY <1>1, <1>4, PostedStored, ClosedIInv
<1> QED  BY <1>2, <1>3, <1>4

\* The check of the last write, of a list or of a block.
LEMMA CheckIInv == IInv /\ (CheckWrite \/ BlockCheck) => IInv'
<1> SUFFICES ASSUME IInv, CheckWrite \/ BlockCheck PROVE IInv'
  OBVIOUS
<1>1. pc \in {"checkWrite", "blockCheck"} /\ pc \in Closing \union Block /\ ~post
  BY DEF CheckWrite, BlockCheck, SWD_Transfer, Closing, Block, IInv, PlaceInv
<1>2. \/ Unanswered
      \/ /\ ~sticky /\ pc' = "answer"
         /\ UNCHANGED <<i, retry, mretry, post, check, resp, conf, abort, command, target>>
  BY DEF CheckWrite, BlockCheck, SWD_Transfer, Unanswered, NoAccess, Bad
<1>3. CASE Unanswered
  BY <1>1, <1>3, UnansweredIInv
<1>4. CASE /\ ~sticky /\ pc' = "answer"
           /\ UNCHANGED <<i, retry, mretry, post, check, resp, conf, abort, command, target>>
  <2>1. /\ data' \in Seq(1..n) /\ \A j, k \in DOMAIN data' : j < k => data'[j] < data'[k]
        /\ Stored' = Reads(count)
    BY <1>1, <1>4 DEF IInv, TypeOK, DataInv, Fetched, Stored, n
  <2> QED  BY <1>1, <1>4, <2>1, ClosedIInv
<1> QED  BY <1>2, <1>3, <1>4

-----------------------------------------------------------------------------
\* While a block is transferred: what is counted, logged, stored and done.
LEMMA InBlock ==
  ASSUME IInv, pc \in {"blockPost", "blockRead", "blockWrite"}
  PROVE  /\ count = i - 1 /\ n \in Nat /\ i \in 1..n /\ cmd = "block" /\ value \notin Bad /\ ~post
         /\ Kind = reqs[i] /\ \A j, k \in 1..n : reqs[j] = reqs[k]
         /\ \A k \in DOMAIN log : /\ log[k] \in 1..n /\ log[k] <= i
                                  /\ ~(pc = "blockRead" /\ Kind \in Ap) => log[k] < i
         /\ Stored = Reads(i - 1) /\ \A k \in DOMAIN data : data[k] < i
         /\ \A j \in 1..(i - 1) : Done(j) \/ sticky
         /\ pc = "blockRead" => \A j \in 1..(i - 1) : Done(j) \/ (sticky /\ Hidden(j))
         /\ data \in Seq(1..n) /\ rdbuff \in 0..n /\ log \in Seq(1..n)
         /\ \A j, k \in DOMAIN data : j < k => data[j] < data[k]
         /\ mretry \in Nat /\ used \in Nat /\ retryCount \in Nat
         /\ sticky \in BOOLEAN /\ check \in BOOLEAN /\ OnceInOrder
<1>1. /\ count = i - 1 /\ n \in Nat /\ i \in 1..n /\ cmd = "block" /\ value \notin Bad /\ ~post
      /\ \A j, k \in 1..n : reqs[j] = reqs[k]
  BY LogBound, SMT DEF IInv, CountInv, PlaceInv, Block
<1>2. Ahead = IF pc = "blockRead" /\ Kind \in Ap THEN 1 ELSE 0
  BY <1>1, SMT DEF Ahead
<1>3. \A k \in DOMAIN log : /\ log[k] \in 1..n /\ log[k] <= i
                            /\ ~(pc = "blockRead" /\ Kind \in Ap) => log[k] < i
  BY <1>1, <1>2, LogBound, SMT
<1>4. Stored = Reads(i - 1)
  BY <1>1 DEF IInv, DataInv, Fetched
<1>5. \A k \in DOMAIN data : data[k] < i
  <2>1. \A x \in Stored : x \in 1..(i - 1)  BY <1>4, Zenon DEF Reads
  <2>2. \A k \in DOMAIN data : data[k] \in 1..(i - 1)  BY <2>1 DEF Stored
  <2> QED  BY <1>1, <2>2, SMT
<1>6. /\ \A j \in 1..(i - 1) : Done(j) \/ sticky
      /\ pc = "blockRead" => \A j \in 1..(i - 1) : Done(j) \/ (sticky /\ Hidden(j))
  BY <1>1 DEF IInv, DoneInv, Lost
<1> QED
  BY <1>1, <1>3, <1>4, <1>5, <1>6 DEF IInv, TypeOK, n, LogInv, DataInv, Kind

\* The first AP read of a block.
LEMMA BlockPostIInv == IInv /\ BlockPost => IInv'
<1> SUFFICES ASSUME IInv, BlockPost PROVE IInv'
  OBVIOUS
<1>1. pc = "blockPost"  BY DEF BlockPost, SWD_Transfer
<1>2. /\ i = 1 /\ count = 0 /\ n \in Nat /\ 1 \in 1..n /\ 1 \in 0..n /\ Kind = "apRead"
      /\ cmd = "block" /\ value \notin Bad /\ ~post /\ retryCount \in Nat
      /\ \A k \in DOMAIN log : log[k] < 1
  <2>1. /\ count = i - 1 /\ i \in 1..n /\ n \in Nat /\ cmd = "block" /\ value \notin Bad /\ ~post
        /\ retryCount \in Nat /\ \A k \in DOMAIN log : log[k] < i
    BY <1>1, InBlock
  <2>2. i = 1 /\ Kind = "apRead"  BY <1>1 DEF IInv, PlaceInv
  <2> QED  BY <2>1, <2>2, SMT
<1>3. \/ Unanswered
      \/ /\ ~sticky /\ AccessAp(1, 1) /\ pc' = "blockRead" /\ retry' = retryCount
         /\ UNCHANGED <<i, mretry, post, check, resp, conf, abort, command>>
      \/ AccessAp(1, 1) /\ Break("ERROR") /\ UNCHANGED <<conf, abort, command>>
  BY DEF BlockPost, SWD_Transfer, Unanswered, Bad
<1>4. CASE Unanswered
  BY <1>1, <1>4, UnansweredIInv DEF Block
<1>5. CASE /\ ~sticky /\ AccessAp(1, 1) /\ pc' = "blockRead" /\ retry' = retryCount
           /\ UNCHANGED <<i, mretry, post, check, resp, conf, abort, command>>
  <2>1. /\ log' \in Seq(1..n) /\ rdbuff' \in 0..n /\ sticky' \in BOOLEAN
        /\ OnceInOrder' /\ \A k \in DOMAIN log' : log'[k] <= 1
        /\ ~sticky' => Done(1)' /\ rdbuff' = 1
    BY <1>2, <1>5, Accessed DEF IInv, LogInv
  <2>2. TypeOK'
    <3>1. pc' \in Steps \union {"idle"}  BY <1>5 DEF Steps, Block
    <3> QED  BY <1>2, <1>5, <2>1, <3>1 DEF IInv, TypeOK, n
  <2>3. n' = n /\ Kind' = Kind /\ i' = i /\ count' = count /\ value' = value /\ cmd' = cmd
        /\ reqs' = reqs /\ post' = post /\ data' = data
    BY <1>5 DEF n, Kind
  <2>4. PlaceInv'
    BY <1>1, <1>2, <1>5, <2>3, SMT DEF IInv, PlaceInv, Serving, Closing, Block, Plain
  <2>5. CountInv'
    BY <1>1, <1>2, <1>5, <2>3, SMT DEF IInv, CountInv, Serving, Closing, Block
  <2>6. LogInv'
    <3>1. count' + Ahead' = 1  BY <1>2, <1>5, <2>3, SMT DEF Ahead, Ap
    <3> QED  BY <2>1, <3>1 DEF LogInv
  <2>7. DataInv'
    BY <1>1, <1>2, <1>5, <2>1, <2>3 DEF IInv, DataInv, Fetched, Reads, Stored
  <2>8. DoneInv'
    <3>1. count' = 0 /\ 1..0 = {} /\ i' = 1  BY <1>2, <2>3, SMT
    <3>2. ~sticky' => Done(i)'  BY <2>1, <3>1 DEF Done
    <3> QED  BY <1>5, <3>1, <3>2 DEF DoneInv
  <2> QED  BY <2>2, <2>4, <2>5, <2>6, <2>7, <2>8 DEF IInv
<1>6. CASE AccessAp(1, 1) /\ Break("ERROR") /\ UNCHANGED <<conf, abort, command>>
  <2>1. 1 <= count + (IF cmd = "block" THEN 2 ELSE 1)  BY <1>2, SMT
  <2>2. pc \in Block  BY <1>1 DEF Block
  <2> QED  BY <1>2, <1>6, <2>1, <2>2, BreakAccessIInv DEF Bad
<1> QED  BY <1>3, <1>4, <1>5, <1>6

\* A request of a block is counted.
LEMMA BlockCountedIInv ==
  ASSUME IInv, pc \in {"blockRead", "blockWrite"},
         BlockCounted(IF pc = "blockRead" THEN "answer" ELSE "blockCheck"),
         UNCHANGED <<mretry, post, check, used, conf, abort, command>>,
         data' \in Seq(1..n), rdbuff' \in 0..n, sticky' \in BOOLEAN, log' \in Seq(1..n),
         OnceInOrder',
         \A k \in DOMAIN log' :
           log'[k] <= i + (IF pc = "blockRead" /\ Kind \in Ap /\ i # n THEN 1 ELSE 0),
         \A j, k \in DOMAIN data' : j < k => data'[j] < data'[k],
         Stored' = Reads(i),
         pc = "blockRead" /\ Kind \in Ap /\ i # n /\ ~sticky' =>
           rdbuff' = i + 1 /\ \A x : x = i + 1 => Done(x)',
         \A j \in 1..i : Done(j)' \/ (sticky' /\ pc = "blockWrite")
  PROVE  IInv'
<1>1. /\ count = i - 1 /\ n \in Nat /\ i \in 1..n /\ cmd = "block" /\ ~post /\ retryCount \in Nat
      /\ \A j, k \in 1..n : reqs[j] = reqs[k] /\ Kind = reqs[i]
  BY InBlock
<1>2. /\ count' = i /\ value' = "OK" /\ n' = n /\ reqs' = reqs /\ cmd' = cmd /\ i' = i + 1
      /\ post' = post /\ retry' = retryCount
      /\ pc' = IF i = n THEN IF pc = "blockRead" THEN "answer" ELSE "blockCheck" ELSE pc
  BY <1>1, SMT DEF BlockCounted, n
<1>3. i # n => i' \in 1..n /\ Kind' = Kind
  <2>1. i # n => i + 1 \in 1..n  BY <1>1, SMT
  <2> QED  BY <1>1, <1>2, <2>1 DEF Kind
<1>4. TypeOK'
  <2>1. pc' \in Steps \union {"idle"}  BY <1>2 DEF Steps, Block
  <2>2. i' \in 1..(Len(reqs') + 1) /\ count' \in 0..Len(reqs')
    BY <1>1, <1>2, SMT DEF n
  <2> QED  BY <1>1, <1>2, <2>1, <2>2 DEF IInv, TypeOK, n
<1>5. PlaceInv'
  <2>1. CASE i = n
    BY <1>1, <1>2, <2>1, SMT DEF IInv, PlaceInv, Serving, Closing, Block
  <2>2. CASE i # n
    BY <1>1, <1>2, <1>3, <2>2, SMT DEF IInv, PlaceInv, Serving, Closing, Block
  <2> QED  BY <2>1, <2>2
<1>6. CountInv'
  BY <1>1, <1>2, SMT DEF CountInv, Serving, Closing, Block, Bad
<1>7. LogInv'
  <2>1. Ahead' = IF pc = "blockRead" /\ Kind \in Ap /\ i # n THEN 1 ELSE 0
    BY <1>2, <1>3, SMT DEF Ahead, Bad
  <2>2. \A k \in DOMAIN log' : log'[k] <= count' + Ahead'  BY <1>2, <2>1
  <2> QED  BY <2>2 DEF LogInv
<1>8. DataInv'
  <2>1. Fetched' = i  BY <1>1, <1>2, SMT DEF Fetched
  <2>2. Stored' = Reads(Fetched)'  BY <1>2, <2>1 DEF Reads
  <2> QED  BY <1>1, <1>2, <1>3, <2>2 DEF DataInv
<1>9. DoneInv'
  <2>1. ~(pc' = "match")  BY <1>2
  <2>2. pc' = "blockRead" => pc = "blockRead" /\ i # n  BY <1>2
  <2>3. pc' = "blockRead" /\ Kind' \in Ap /\ ~sticky' => Done(i)'
    BY <1>2, <1>3, <2>2 DEF Done
  <2>4. \A j \in 1..count' : Done(j)' \/ (IF pc' = "answer" THEN Unseen(j)' ELSE Lost(j)')
    BY <1>2 DEF Lost
  <2> QED  BY <2>1, <2>3, <2>4 DEF DoneInv
<1> QED  BY <1>4, <1>5, <1>6, <1>7, <1>8, <1>9 DEF IInv

\* A read of a block; an AP read posts the next one.
LEMMA BlockReadIInv == IInv /\ BlockRead => IInv'
<1> SUFFICES ASSUME IInv, BlockRead PROVE IInv'
  OBVIOUS
<1>1. pc = "blockRead" /\ pc \in Block  BY DEF BlockRead, SWD_Transfer, Block
<1> DEFINE Made == IF Kind \notin Ap THEN AccessDp(i)
                   ELSE IF i = n THEN NoAccess ELSE AccessAp(i + 1, i + 1)
<1>2. /\ count = i - 1 /\ n \in Nat /\ i \in 1..n /\ i \in 0..n /\ cmd = "block" /\ ~post
      /\ \A j, k \in 1..n : reqs[j] = reqs[k] /\ Kind = reqs[i]
      /\ Kind \in Plain
      /\ \A k \in DOMAIN log : /\ log[k] \in 1..n /\ log[k] <= i
                               /\ Kind \notin Ap => log[k] < i
      /\ Kind \in Ap /\ ~sticky => rdbuff = i /\ Done(i)
  <2>1. Kind \in Plain  BY <1>1 DEF IInv, PlaceInv
  <2>2. Kind \in Ap /\ ~sticky => rdbuff = i /\ Done(i)  BY <1>1 DEF IInv, DataInv, DoneInv
  <2>3. i \in 1..n /\ n \in Nat  BY <1>1, InBlock
  <2>4. i \in 0..n  BY <2>3, SMT
  <2> QED  BY <1>1, <2>1, <2>2, <2>4, InBlock
<1>3. \/ Unanswered
      \/ /\ ~(Kind \in Ap /\ sticky) /\ Made
         /\ data' = Append(data, IF Kind \in Ap THEN rdbuff ELSE i)
         /\ BlockCounted("answer")
         /\ UNCHANGED <<mretry, post, check, used, conf, abort, command>>
      \/ Made /\ Break("ERROR") /\ UNCHANGED <<conf, abort, command>>
  BY DEF BlockRead, SWD_Transfer, Unanswered, Bad
<1>4. CASE Unanswered
  BY <1>1, <1>4, UnansweredIInv
<1>5. CASE /\ ~(Kind \in Ap /\ sticky) /\ Made
           /\ data' = Append(data, IF Kind \in Ap THEN rdbuff ELSE i)
           /\ BlockCounted("answer")
           /\ UNCHANGED <<mretry, post, check, used, conf, abort, command>>
  <2>1. data' = Append(data, i)  BY <1>2, <1>5
  <2>2. /\ data' \in Seq(1..n) /\ \A j, k \in DOMAIN data' : j < k => data'[j] < data'[k]
        /\ Stored' = Stored \union {i}
    BY <1>1, <1>2, <2>1, InBlock, DataAppended
  <2>3. Stored' = Reads(i)
    BY <1>1, <1>2, <2>2, InBlock, ReadsHere DEF IInv
  <2>4. CASE Kind \notin Ap
    <3>1. AccessDp(i)  BY <1>5, <2>4
    <3>2. \A k \in DOMAIN log : log[k] < i  BY <1>2, <2>4
    <3>3. /\ log' \in Seq(1..n) /\ rdbuff' \in 0..n /\ sticky' \in BOOLEAN
          /\ OnceInOrder' /\ \A k \in DOMAIN log' : log'[k] <= i
          /\ \A x : Done(x) => Done(x)'
          /\ \A x : x = i => Done(x)'
          /\ sticky' = sticky
      BY <1>2, <1>5, <3>1, <3>2, Accessed DEF IInv, LogInv, AccessDp
    <3>4. \A k \in DOMAIN log' : log'[k] <= i + 0
      BY <1>2, <3>3, SMT
    <3>5. \A j \in 1..i : Done(j)'
      <4> TAKE j \in 1..i
      <4>1. CASE j = i  BY <3>3, <4>1
      <4>2. CASE j # i
        <5>1. j \in 1..(i - 1) /\ j \in 1..n /\ i \in 1..n  BY <1>2, <4>2, SMT
        <5>2. reqs[j] # "apWrite"
          <6>1. reqs[j] = Kind  BY <1>2, <5>1
          <6> QED  BY <1>2, <6>1 DEF Plain
        <5>3. Done(j)  BY <1>1, <5>1, <5>2, InBlock DEF Hidden
        <5> QED  BY <3>3, <5>3
      <4> QED  BY <4>1, <4>2
    <3> QED  BY <1>1, <1>5, <2>2, <2>3, <2>4, <3>3, <3>4, <3>5, BlockCountedIInv
  <2>5. CASE Kind \in Ap
    <3>1. ~sticky /\ Done(i) /\ \A j \in 1..(i - 1) : Done(j)
      BY <1>1, <1>2, <1>5, <2>5, InBlock
    <3>2. \A j \in 1..i : Done(j)
      <4> TAKE j \in 1..i
      <4>1. j = i \/ j \in 1..(i - 1)  BY <1>2, SMT
      <4> QED  BY <3>1, <4>1
    <3>3. CASE i = n
      <4>1. UNCHANGED target  BY <1>5, <2>5, <3>3 DEF NoAccess
      <4>2. OnceInOrder' /\ \A x : Done(x) => Done(x)'
        BY <1>5, <4>1 DEF IInv, LogInv, OnceInOrder, Done
      <4>3. \A k \in DOMAIN log' : log'[k] <= i + 0  BY <1>2, <4>1, SMT
      <4>4. log' \in Seq(1..n) /\ rdbuff' \in 0..n /\ sticky' \in BOOLEAN
        BY <4>1 DEF IInv, TypeOK, n
      <4> QED  BY <1>1, <1>5, <2>2, <2>3, <3>2, <3>3, <4>2, <4>3, <4>4, BlockCountedIInv
    <3>4. CASE i # n
      <4>1. AccessAp(i + 1, i + 1)  BY <1>5, <2>5, <3>4
      <4>2. i + 1 \in 1..n /\ i + 1 \in 0..n /\ \A k \in DOMAIN log : log[k] < i + 1
        BY <1>2, <3>4, SMT
      <4>3. /\ log' \in Seq(1..n) /\ rdbuff' \in 0..n /\ sticky' \in BOOLEAN
            /\ OnceInOrder' /\ \A k \in DOMAIN log' : log'[k] <= i + 1
            /\ \A x : Done(x) => Done(x)'
            /\ \A x : x = i + 1 /\ ~sticky' => Done(x)'
            /\ ~sticky' => rdbuff' = i + 1
        BY <1>5, <4>1, <4>2, Accessed DEF IInv, LogInv
      <4> QED  BY <1>1, <1>5, <2>2, <2>3, <2>5, <3>2, <3>4, <4>3, BlockCountedIInv
    <3> QED  BY <3>3, <3>4
  <2> QED  BY <2>4, <2>5
<1>6. CASE Made /\ Break("ERROR") /\ UNCHANGED <<conf, abort, command>>
  <2>1. CASE Kind \notin Ap
    <3>1. AccessDp(i) /\ i <= count + (IF cmd = "block" THEN 2 ELSE 1)
      BY <1>2, <1>6, <2>1, SMT
    <3> QED  BY <1>1, <1>2, <1>6, <2>1, <3>1, BreakAccessIInv DEF Bad
  <2>2. CASE Kind \in Ap /\ i = n
    <3>1. Unanswered  BY <1>6, <2>2 DEF Unanswered, NoAccess, Bad
    <3> QED  BY <1>1, <3>1, UnansweredIInv
  <2>3. CASE Kind \in Ap /\ i # n
    <3>1. AccessAp(i + 1, i + 1)  BY <1>6, <2>3
    <3>2. /\ i + 1 \in 1..n /\ i + 1 \in 0..n /\ \A k \in DOMAIN log : log[k] < i + 1
          /\ i + 1 <= count + (IF cmd = "block" THEN 2 ELSE 1)
      BY <1>2, <2>3, SMT
    <3> QED  BY <1>1, <1>6, <3>1, <3>2, BreakAccessIInv DEF Bad
  <2> QED  BY <2>1, <2>2, <2>3
<1> QED  BY <1>3, <1>4, <1>5, <1>6

\* A write of a block.
LEMMA BlockWriteIInv == IInv /\ BlockWrite => IInv'
<1> SUFFICES ASSUME IInv, BlockWrite PROVE IInv'
  OBVIOUS
<1>1. pc = "blockWrite" /\ pc \in Block  BY DEF BlockWrite, SWD_Transfer, Block
<1>2. /\ count = i - 1 /\ n \in Nat /\ i \in 1..n /\ cmd = "block" /\ Kind \notin Plain
      /\ rdbuff \in 0..n /\ \A k \in DOMAIN log : log[k] < i
      /\ \A j \in 1..(i - 1) : Done(j) \/ sticky
  <2>1. Kind \notin Plain  BY <1>1 DEF IInv, PlaceInv, Plain, Writes
  <2> QED  BY <1>1, <2>1, InBlock
<1>3. \/ Unanswered
      \/ /\ ~sticky /\ Access(i, rdbuff) /\ BlockCounted("blockCheck")
         /\ UNCHANGED <<mretry, post, check, data, used, conf, abort, command>>
      \/ Access(i, rdbuff) /\ Break("ERROR") /\ UNCHANGED <<conf, abort, command>>
  BY DEF BlockWrite, SWD_Transfer, Unanswered, Bad
<1>4. CASE Unanswered
  BY <1>1, <1>4, UnansweredIInv
<1>5. CASE /\ ~sticky /\ Access(i, rdbuff) /\ BlockCounted("blockCheck")
           /\ UNCHANGED <<mretry, post, check, data, used, conf, abort, command>>
  <2>1. Stored' = Reads(i)
    BY <1>1, <1>2, <1>5, InBlock, ReadsHere DEF IInv, Stored
  <2>2. data' \in Seq(1..n) /\ \A j, k \in DOMAIN data' : j < k => data'[j] < data'[k]
    BY <1>1, <1>5, InBlock
  <2>3. AccessAp(i, rdbuff) \/ AccessDp(i)  BY <1>5 DEF Access
  <2>4. /\ log' \in Seq(1..n) /\ rdbuff' \in 0..n /\ sticky' \in BOOLEAN
        /\ OnceInOrder' /\ \A k \in DOMAIN log' : log'[k] <= i
        /\ \A x : Done(x) => Done(x)'
        /\ \A x : x = i /\ ~sticky' => Done(x)'
    BY <1>2, <1>5, <2>3, Accessed DEF IInv, LogInv
  <2>5. \A k \in DOMAIN log' : log'[k] <= i + 0  BY <1>2, <2>4, SMT
  <2>6. \A j \in 1..i : Done(j)' \/ sticky'
    <3> TAKE j \in 1..i
    <3>1. j = i \/ j \in 1..(i - 1)  BY <1>2, SMT
    <3> QED  BY <1>2, <1>5, <2>4, <3>1
  <2> QED  BY <1>1, <1>5, <2>1, <2>2, <2>4, <2>5, <2>6, BlockCountedIInv
<1>6. CASE Access(i, rdbuff) /\ Break("ERROR") /\ UNCHANGED <<conf, abort, command>>
  <2>1. AccessAp(i, rdbuff) \/ AccessDp(i)  BY <1>6 DEF Access
  <2>2. i <= count + (IF cmd = "block" THEN 2 ELSE 1)  BY <1>2, SMT
  <2> QED  BY <1>1, <1>2, <1>6, <2>1, <2>2, BreakAccessIInv DEF Bad
<1> QED  BY <1>3, <1>4, <1>5, <1>6

-----------------------------------------------------------------------------
\* Between commands nothing is left of one.
LEMMA IdleState ==
  ASSUME IInv, pc = "idle"
  PROVE  /\ cmd = "none" /\ reqs = <<>> /\ i = 1 /\ ~post /\ ~check /\ count = 0
         /\ value = "none" /\ data = <<>> /\ log = <<>> /\ rdbuff = 0 /\ Stored = {}
         /\ DOMAIN data = {} /\ DOMAIN log = {}
<1>1. /\ cmd = "none" /\ reqs = <<>> /\ i = 1 /\ ~post /\ ~check /\ count = 0
      /\ value = "none" /\ data = <<>> /\ log = <<>>
  BY DEF IInv, PlaceInv
<1>2. DOMAIN data = {} /\ DOMAIN log = {}  BY <1>1, SMT
<1>3. rdbuff = 0
  <2>1. n = 0 /\ rdbuff \in 0..n  BY <1>1, SMT DEF n, IInv, TypeOK
  <2> QED  BY <2>1, SMT
<1> QED  BY <1>1, <1>2, <1>3 DEF Stored

\* A command begins.
LEMMA BeginIInv ==
  ASSUME IInv, NEW c \in {"transfer", "block"}, NEW r \in Seq(Kinds), NEW first,
         Begin(c, r, first),
         c = "transfer" => first = "request",
         c = "block" =>
           /\ first = IF r = <<>> THEN "answer" ELSE IF r[1] \in Writes THEN "blockWrite"
                      ELSE IF r[1] \in Ap THEN "blockPost" ELSE "blockRead"
           /\ \A j \in 1..Len(r) : r[j] \in Plain \union Writes
           /\ \A j, k \in 1..Len(r) : r[j] = r[k]
  PROVE  IInv'
<1>1. /\ pc = "idle" /\ cmd' = c /\ reqs' = r /\ pc' = first /\ abort' = FALSE
      /\ retry' = retryCount
      /\ UNCHANGED <<conf, i, mretry, post, check, resp, target>>
  BY DEF Begin
<1>2. /\ i' = 1 /\ ~post' /\ ~check' /\ count' = 0 /\ value' = "none" /\ data' = <<>>
      /\ log' = <<>> /\ rdbuff' = 0 /\ Stored' = {} /\ DOMAIN data' = {} /\ DOMAIN log' = {}
  BY <1>1, IdleState DEF Stored
<1>3. n' = Len(r) /\ n' \in Nat /\ 1..0 = {}
  BY <1>1, LenProperties, SMT DEF n
<1>4. pc' \in {"request", "answer", "blockWrite", "blockPost", "blockRead"}
  BY <1>1
<1>5. r # <<>> => Len(r) >= 1 /\ 1 \in 1..Len(r)
  BY EmptySeq, SMT
<1>6. TypeOK'
  <2>1. pc' \in Steps \union {"idle"}  BY <1>4 DEF Steps, Block
  <2>2. /\ data' \in Seq(1..n') /\ log' \in Seq(1..n')  BY <1>2, EmptySeq
  <2>3. i' \in 1..(n' + 1) /\ count' \in 0..n' /\ rdbuff' \in 0..n'
    BY <1>2, <1>3, SMT
  <2> QED  BY <1>1, <1>2, <2>1, <2>2, <2>3 DEF IInv, TypeOK, n
<1>7. PlaceInv'
  <2>1. CASE c = "transfer"
    BY <1>1, <1>2, <2>1, SMT DEF PlaceInv, Serving, Closing, Block
  <2>2. CASE c = "block" /\ r = <<>>
    BY <1>1, <1>2, <1>3, <2>2, SMT DEF PlaceInv, Serving, Closing, Block
  <2>3. CASE c = "block" /\ r # <<>>
    <3>1. /\ 1 <= n' /\ Kind' = r[1] /\ r[1] \in Plain \union Writes
          /\ \A j \in 1..n' : reqs'[j] \in Plain \union Writes
          /\ \A j, k \in 1..n' : reqs'[j] = reqs'[k]
      BY <1>1, <1>2, <1>3, <1>5, <2>3 DEF Kind
    <3>2. /\ pc' = "blockPost" => Kind' = "apRead"
          /\ pc' = "blockRead" => Kind' \in Plain
          /\ pc' = "blockWrite" => Kind' \in Writes
      BY <1>1, <2>3, <3>1 DEF Plain, Writes, Ap
    <3>3. pc' \in {"blockPost", "blockRead", "blockWrite"}  BY <1>1, <2>3
    <3> QED  BY <1>1, <1>2, <2>3, <3>1, <3>2, <3>3, SMT DEF PlaceInv, Serving, Closing, Block
  <2> QED  BY <2>1, <2>2, <2>3
<1>8. CountInv'
  BY <1>2, <1>4, SMT DEF CountInv, Block, Closing, Bad
<1>9. LogInv'
  BY <1>2 DEF LogInv, OnceInOrder
<1>10. DataInv'
  <2>1. Fetched' = 0 /\ Reads(0)' = {}  BY <1>2, <1>3 DEF Fetched, Reads
  <2>2. ~(pc' = "blockRead" /\ Kind' \in Ap)
    <3>1. pc' = "blockRead" => c = "block" /\ r # <<>> /\ r[1] \notin Ap  BY <1>1
    <3> QED  BY <1>1, <1>2, <3>1 DEF Kind
  <2> QED  BY <1>2, <2>1, <2>2 DEF DataInv
<1>11. DoneInv'
  <2>1. ~(pc' = "blockRead" /\ Kind' \in Ap)
    <3>1. pc' = "blockRead" => c = "block" /\ r # <<>> /\ r[1] \notin Ap  BY <1>1
    <3> QED  BY <1>1, <1>2, <3>1 DEF Kind
  <2> QED  BY <1>2, <1>3, <1>4, <2>1 DEF DoneInv
<1> QED  BY <1>6, <1>7, <1>8, <1>9, <1>10, <1>11 DEF IInv

\* The answer is sent.
LEMMA RespondIInv == IInv /\ Respond => IInv'
<1> SUFFICES ASSUME IInv, Respond PROVE IInv'
  OBVIOUS
<1>1. /\ cmd' = "none" /\ reqs' = <<>> /\ pc' = "idle" /\ i' = 1 /\ retry' = 0 /\ mretry' = 0
      /\ post' = FALSE /\ check' = FALSE /\ count' = 0 /\ value' = "none" /\ data' = <<>>
      /\ used' = 0 /\ rdbuff' = 0 /\ log' = <<>> /\ UNCHANGED <<conf, abort, sticky>>
  BY DEF Respond
<1>2. n' = 0 /\ DOMAIN data' = {} /\ DOMAIN log' = {} /\ 1..0 = {}
  BY <1>1, SMT DEF n
<1>3. TypeOK'
  <2>1. reqs' \in Seq(Kinds) /\ data' \in Seq(1..n') /\ log' \in Seq(1..n')
    BY <1>1, EmptySeq
  <2>2. 1 \in 1..(0 + 1) /\ 0 \in 0..0 /\ 0 \in Nat  BY SMT
  <2>3. i' \in 1..(n' + 1) /\ count' \in 0..n' /\ rdbuff' \in 0..n'
    BY <1>1, <1>2, <2>2
  <2> QED  BY <1>1, <2>1, <2>2, <2>3, Zenon DEF IInv, TypeOK, n
<1>4. PlaceInv'
  BY <1>1, <1>2, SMT DEF PlaceInv, Serving, Closing, Block
<1>5. CountInv'
  BY <1>1, SMT DEF CountInv, Serving, Closing, Block
<1>6. LogInv'
  BY <1>2 DEF LogInv, OnceInOrder
<1>7. DataInv'
  <2>1. Fetched' = 0 /\ Reads(0)' = {}  BY <1>1, <1>2 DEF Fetched, Reads
  <2>2. Stored' = {}  BY <1>2 DEF Stored
  <2> QED  BY <1>1, <1>2, <2>1, <2>2 DEF DataInv
<1>8. DoneInv'
  BY <1>1, <1>2 DEF DoneInv
<1> QED  BY <1>3, <1>4, <1>5, <1>6, <1>7, <1>8 DEF IInv

\* What happens between commands, and an abort at any time.
LEMMA BetweenIInv ==
  ASSUME IInv,
         \/ SetAbort \/ DAP_WriteAbort \/ DAP_TransferConfigure \/ DAP_Connect \/ DAP_Disconnect
         \/ UNCHANGED vars
  PROVE  IInv'
<1>1. /\ UNCHANGED <<command, loop, resp, rdbuff, log>> /\ (abort => abort')
      /\ pc = "idle" \/ sticky' = sticky
      /\ abort' \in BOOLEAN /\ port' \in BOOLEAN /\ sticky' \in BOOLEAN
  BY DEF IInv, TypeOK, SetAbort, DAP_WriteAbort, DAP_TransferConfigure, DAP_Connect,
     DAP_Disconnect, vars
<1>2. retryCount' \in Nat /\ matchRetry' \in Nat
  BY RetriesAssumption DEF IInv, TypeOK, SetAbort, DAP_WriteAbort, DAP_TransferConfigure,
     DAP_Connect, DAP_Disconnect, vars, conf
<1>3. TypeOK'  BY <1>1, <1>2 DEF IInv, TypeOK
<1>4. PlaceInv'  BY <1>1 DEF IInv, PlaceInv, n, Kind
<1>5. CountInv'  BY <1>1 DEF IInv, CountInv, n
<1>6. LogInv'  BY <1>1 DEF IInv, LogInv, OnceInOrder, Ahead, Kind
<1>7. DataInv'
  <2>1. pc = "idle" => ~post  BY DEF IInv, PlaceInv
  <2> QED  BY <1>1, <2>1 DEF IInv, DataInv, Kind, Fetched, Reads, Stored
<1>8. DoneInv'
  <2>1. CASE sticky' = sticky
    BY <1>1, <2>1 DEF IInv, DoneInv, Kind, Done, Lost, Hidden, Unseen
  <2>2. CASE pc = "idle"
    <3>1. count = 0 /\ 1..0 = {}  BY <2>2, IdleState, SMT
    <3> QED  BY <1>1, <2>2, <3>1 DEF DoneInv
  <2> QED  BY <1>1, <2>1, <2>2
<1> QED  BY <1>3, <1>4, <1>5, <1>6, <1>7, <1>8 DEF IInv

\* Every step keeps the strengthened invariant.
LEMMA NextIInv == IInv /\ [Next]_vars => IInv'
<1> SUFFICES ASSUME IInv, [Next]_vars PROVE IInv'
  OBVIOUS
<1>1. ASSUME NEW r \in Packets, DAP_Transfer(r) PROVE IInv'
  <2>1. r \in Seq(Kinds)  BY PacketsAssumption
  <2> QED  BY <1>1, <2>1, BeginIInv DEF DAP_Transfer
<1>2. ASSUME NEW r \in Blocks, DAP_TransferBlock(r) PROVE IInv'
  <2>1. r \in Seq(Plain \union Writes) /\ \A j, k \in DOMAIN r : r[j] = r[k]
    BY BlocksAssumption
  <2>2. DOMAIN r = 1..Len(r) /\ \A j \in DOMAIN r : r[j] \in Plain \union Writes
    BY <2>1, LenProperties, Elements
  <2>3. r \in Seq(Kinds)
    <3>1. \A j \in 1..Len(r) : r[j] \in Kinds  BY <2>2 DEF Kinds
    <3> QED  BY <2>1, <3>1, IsASeq, SMT
  <2> QED  BY <1>2, <2>1, <2>2, <2>3, BeginIInv DEF DAP_TransferBlock
<1>3. CASE Run
  BY <1>3, RequestIInv, FetchIInv, PipeIInv, PostIInv, ReadIInv, MatchPostIInv, MatchIInv,
     WriteIInv, CancelIInv, LastFetchIInv, CheckIInv, BlockPostIInv, BlockReadIInv,
     BlockWriteIInv, RespondIInv DEF Run
<1> QED  BY <1>1, <1>2, <1>3, BetweenIInv DEF Next

\* The strengthened invariant holds always.
LEMMA Invariance == Spec => []IInv
BY InitIInv, NextIInv, PTL DEF Spec

-----------------------------------------------------------------------------
\* The variables keep their types: no list of requests, no answer of the target
\* and no abort takes a counter or an index out of the request list.
THEOREM TypeCorrect == Spec => []TypeOK
<1>1. IInv => TypeOK  BY DEF IInv
<1> QED  BY <1>1, Invariance, PTL

\* Whatever is retried, posted or aborted, the target makes each access once and in
\* the order of the list.
THEOREM AccessesOnceInOrder == Spec => []OnceInOrder
<1>1. IInv => OnceInOrder  BY DEF IInv, LogInv
<1> QED  BY <1>1, Invariance, PTL

\* No access is made beyond the request that failed, but for the one a block posts.
THEOREM NothingIsDoneBeyond == Spec => []NothingBeyond
<1>1. IInv => NothingBeyond
  <2> SUFFICES ASSUME IInv, pc = "answer", NEW k \in DOMAIN log
               PROVE log[k] <= count + (IF value = "OK" THEN 0 ELSE IF cmd = "block" THEN 2 ELSE 1)
    BY DEF NothingBeyond, Answered
  <2>1. count \in Nat /\ log[k] \in Nat /\ log[k] <= count + Ahead
    BY LogBound, SMT
  <2>2. Ahead \in {0, IF cmd = "block" THEN 2 ELSE 1} /\ (value = "OK" => Ahead = 0)
    BY SMT DEF Ahead, Bad
  <2> QED  BY <2>1, <2>2, SMT
<1> QED  BY <1>1, Invariance, PTL

\* The response holds the values of the reads it counts, each its own and in order,
\* however they were pipelined.
THEOREM ReadsAreInOrder == Spec => []ReadsInOrder
<1>1. IInv => ReadsInOrder
  <2> SUFFICES ASSUME IInv, pc = "answer" PROVE ReadsInOrder
    BY DEF ReadsInOrder, Answered
  <2>1. \A j, k \in DOMAIN data : j < k => data[j] < data[k]  BY DEF IInv, DataInv
  <2>2. CASE value = "OK"
    BY <2>1, <2>2 DEF ReadsInOrder, IInv, DataInv, Fetched
  <2>3. CASE value # "OK"
    <3>1. Fetched \in {count, count - 1} /\ Fetched >= 0
      BY LogBound, SMT DEF Fetched, IInv, DataInv
    <3> QED  BY <2>1, <2>3, <3>1 DEF ReadsInOrder, IInv, DataInv
  <2> QED  BY <2>2, <2>3
<1> QED  BY <1>1, Invariance, PTL

\* OK means that everything counted was done, posted writes included, but for the one
\* the host cannot see, and that all was counted unless an abort came.
THEOREM OkMeansAllDone == Spec => []OkAllDone
<1>1. IInv => OkAllDone
  BY DEF OkAllDone, Answered, IInv, DoneInv, CountInv, Bad
<1> QED  BY <1>1, Invariance, PTL
=============================================================================
