-------------------------- MODULE SwdMemory_proofs --------------------------
(***************************************************************************)
(* Proofs about SwdMemory, for any memory and page size (a multiple of 4), *)
(* any calls and any sequence of failed transfers.                         *)
(***************************************************************************)
EXTENDS SwdMemory, TLAPS

\* The remainder by the page size lies in the page.
LEMMA ModBounds ==
  ASSUME NEW x \in Nat, NEW p \in Nat, p > 0
  PROVE  x % p \in 0..(p - 1) /\ x \div p \in Nat /\ x = p * (x \div p) + (x % p)
  BY SMT

\* A positive multiple of a natural is at least that natural.
LEMMA ProductAtLeast ==
  ASSUME NEW p \in Nat, NEW d \in Int, d >= 1
  PROVE  p * d >= p
  BY SMT

\* Quotient and remainder are unique.
LEMMA ModUnique ==
  ASSUME NEW p \in Nat, p > 0, NEW q \in Nat, NEW r \in 0..(p - 1)
  PROVE  (p * q + r) % p = r
<1> DEFINE y == p * q + r
           k == y \div p
           m == y % p
<1>1. y \in Nat /\ k \in Nat /\ m \in 0..(p - 1) /\ y = p * k + m
  <2>1. y \in Nat  BY SMT
  <2> QED  BY <2>1, ModBounds
<1> HIDE DEF k, m
<1>2. p * (k - q) = r - m  BY <1>1, SMT
<1>3. ~(k - q >= 1)  BY <1>1, <1>2, ProductAtLeast, SMT
<1>4. p * (q - k) = m - r  BY <1>1, <1>2, SMT
<1>5. ~(q - k >= 1)  BY <1>1, <1>4, ProductAtLeast, SMT
<1>6. k = q  BY <1>1, <1>3, <1>5, SMT
<1>7. m = r  BY <1>1, <1>2, <1>6, SMT
<1> QED  BY <1>7 DEF m

\* What is left of a page, as the block functions compute it.
LEMMA PageAligned ==
  ASSUME NEW x \in Nat, x % 4 = 0, NEW p \in Nat, p > 0, p % 4 = 0
  PROVE  (p - (x % p)) % 4 = 0 /\ p - (x % p) \in 1..p
<1> DEFINE n == (p \div 4) * (x \div p)
           r == x % p
<1>1. x \div p \in Nat /\ r \in 0..(p - 1) /\ x = p * (x \div p) + r  BY ModBounds
<1>2. n \in Nat /\ p = 4 * (p \div 4)  BY <1>1, SMT
<1>3. p * (x \div p) = 4 * n  BY <1>1, <1>2, SMT
<1>4. x = 4 * n + r  BY <1>1, <1>3
<1> HIDE DEF n, r
<1>5. r % 4 = 0  BY <1>1, <1>2, <1>4, SMT
<1>6. (p - r) % 4 = 0 /\ p - r \in 1..p  BY <1>1, <1>5, SMT
<1> QED  BY <1>6 DEF r

\* An increment inside a page does not wrap TAR.
LEMMA TarAdvances ==
  ASSUME NEW x \in Nat, NEW s \in Nat, NEW p \in Nat, p > 0, (x % p) + s < p
  PROVE  NextTar(x, s, p) = x + s
<1> DEFINE q == x \div p
           r == x % p
<1>1. q \in Nat /\ r \in 0..(p - 1) /\ x = p * q + r  BY ModBounds
<1>2. r + s \in 0..(p - 1)  BY <1>1, SMT
<1> HIDE DEF q, r
<1>3. p * q \in Nat  BY <1>1, SMT
<1>4. x + s = p * q + (r + s)  BY <1>1, <1>3, SMT
<1>5. (x + s) % p = r + s  BY <1>1, <1>2, <1>4, ModUnique
<1>6. p * q + (r + s) = x + s  BY <1>4
<1> QED  BY <1>5, <1>6 DEF NextTar, q

-----------------------------------------------------------------------------
\* The cached values at each position: only a session makes calls, CSW is
\* written with bank 0 selected and TAR and DRW with the CSW the access needs.
CacheInv ==
  /\ pc # "idle" => up
  /\ pc \in {"csw", "cswAck", "tar", "drw", "flush"} => select = Bank0
  /\ pc \in {"tar", "drw", "flush"} => csw = Want
  /\ pc = "cswAck" /\ ~torn => tcsw = Want

\* How far DRW is at each position.
MoveInv ==
  /\ pc \in {"select", "csw", "cswAck", "tar"} => moved = 0
  /\ pc = "drw" => moved < Words
  /\ pc = "flush" => moved = Words

\* Target memory at each position of a write: the buffer up to the current
\* access, and during the access up to the words that DRW took.
MemInv ==
  /\ req.kind # "write" => mem = Found
  /\ pc \in ApSteps => req.kind = "ap"
  /\ req.kind = "write" /\ ~torn =>
       /\ pc \in {"next", "select", "csw", "cswAck", "tar"}
            => mem = Written(req.addr, at - req.addr)
       /\ pc = "drw" /\ ~sticky => /\ mem = Written(req.addr, at - req.addr + 4 * moved)
                                   /\ tar = at + 4 * moved
       /\ pc = "flush" /\ ~sticky => mem = Written(req.addr, at - req.addr + chunk)
       /\ pc = "idle" /\ result = "OK" => mem = Written(req.addr, req.size)
       /\ PartialWrite

\* The first n bytes of the buffer are those of memory, which a read leaves as found.
Got(n) == \A j \in 0..(n - 1) : req.addr + j \in Addresses => buf[j] = req.addr + j

\* The buffer stops before the word that is in RDBUFF.
Came == at - req.addr + (IF moved = 0 THEN 0 ELSE 4 * (moved - 1))

\* RDBUFF holds the byte at `at`, or the word that was asked for last.
Delivers ==
  IF chunk = 1 THEN at \in Addresses => rdbuff[at % 4] = at
  ELSE \A l \in Lanes : at + 4 * (moved - 1) + l \in Addresses
                       => rdbuff[l] = at + 4 * (moved - 1) + l

\* The buffer at each position of a read, and the word on its way to it.
ReadInv ==
  req.kind = "read" /\ ~torn =>
    /\ pc \in {"next", "select", "csw", "cswAck", "tar"} => Got(at - req.addr)
    /\ pc \in {"drw", "flush"} => Got(Came) /\ (~sticky /\ moved > 0 => Delivers)
    /\ pc = "drw" /\ ~sticky => tar = at + 4 * moved
    /\ pc = "idle" /\ result = "OK" => Got(req.size)

IInv == TypeOK /\ CacheInv /\ CacheCoherent /\ BlockInPage /\ MoveInv /\ MemInv /\ ReadInv

\* The strengthened invariant holds initially.
LEMMA InitIInv == Init => IInv
<1> SUFFICES ASSUME Init PROVE IInv
  OBVIOUS
<1>1. TypeOK
  <2>1. CacheTypes
    <3>1. up \in BOOLEAN /\ sticky \in BOOLEAN /\ torn \in BOOLEAN
      BY Zenon DEF Init
    <3>2. select \in Banks /\ csw \in Sizes /\ tselect \in Banks /\ tcsw \in Sizes
      BY SMT DEF Init, Banks, Sizes, Bank0
    <3> QED
      BY <3>1, <3>2, Zenon DEF Init, CacheTypes
  <2>2. CallTypes
    BY SMT DEF Init, CallTypes, NoCall
  <2>3. DataTypes
    BY PageAssumption, SMT DEF Init, DataTypes, NoCall, Lane0, Lanes, Found, Addresses, Junk
  <2> QED  BY <2>1, <2>2, <2>3 DEF TypeOK
<1>2. CacheInv /\ CacheCoherent /\ BlockInPage /\ MoveInv
  BY SMT DEF Init, MoveInv, CacheInv, CacheCoherent, BlockInPage, Steps, ApSteps
<1>3. MemInv
  BY SMT DEF Init, MemInv, NoCall, ApSteps
<1>4. ReadInv
  BY SMT DEF Init, ReadInv, NoCall
<1> QED  BY <1>1, <1>2, <1>3, <1>4 DEF IInv

USE DEF host, target, vars, cursor, idle

\* A chunk of swd_read_memory or swd_write_memory stays in its page.
LEMMA ChunkFits ==
  ASSUME TypeOK, left # 0
  PROVE  /\ ChunkSize \in 1..left /\ (at % Page) + ChunkSize <= Page
         /\ ChunkSize # 1 => at % 4 = 0 /\ ChunkSize % 4 = 0
<1> DEFINE n == Page - (at % Page)
<1>1. at \in Nat /\ left \in Nat \ {0} /\ Page \in Nat /\ Page > 0 /\ Page % 4 = 0
  BY PageAssumption DEF TypeOK, CallTypes
<1>2. n \in 1..Page /\ (at % Page) + n = Page
  BY <1>1, ModBounds, SMT
<1>3. CASE at % 4 # 0 \/ left < 4
  BY <1>1, <1>2, <1>3, SMT DEF ChunkSize
<1>4. CASE at % 4 = 0 /\ left >= 4
  <2>1. n % 4 = 0  BY <1>1, <1>4, PageAligned
  <2>2. ChunkSize = IF left < n THEN left - (left % 4) ELSE n
    BY <1>1, <1>4, SMT DEF ChunkSize
  <2>3. left - (left % 4) \in 1..left /\ (left - (left % 4)) % 4 = 0
    BY <1>1, <1>4, SMT
  <2> HIDE DEF n
  <2>4. at % Page \in Nat  BY <1>1, ModBounds
  <2> QED  BY <1>1, <1>2, <1>4, <2>1, <2>2, <2>3, <2>4, SMT
<1> QED  BY <1>1, <1>3, <1>4

\* The actions of the module, as the proofs below split them.
LEMMA StepCases ==
  ASSUME [Next]_vars
  PROVE  \/ NextChunk \/ SelectBank0 \/ WriteCsw \/ CswDone \/ WriteTar \/ DrwWrite
         \/ DrwRead \/ Flush \/ ApSelect \/ ApReadFirst \/ ApReadSecond \/ Connect
         \/ Off \/ TargetReset \/ ClearErrors \/ CallReadAp
         \/ \E r \in Requests : Call(r)
         \/ UNCHANGED vars
  BY DEF Next, Run

\* Steps that write neither the cache nor what it describes keep the two equal.
LEMMA FrameCoherent ==
  ASSUME CacheCoherent, pc # "cswAck",
         UNCHANGED <<up, torn, select, csw, tselect, tcsw>>
  PROVE  CacheCoherent'
  BY Zenon DEF CacheCoherent

\* The invalidation mark of dap_state is no legal SELECT or CSW value.
LEMMA BanksDiffer == Bank0 # Fake /\ BankF # Fake /\ 1 # Fake /\ 4 # Fake
  BY SMT DEF Bank0, BankF, Fake

\* Every step keeps the SELECT cache and the CSW cache in their relation to the target.
LEMMA CacheCoherentStep == IInv /\ [Next]_vars => CacheCoherent'
<1> SUFFICES ASSUME CacheTypes, CacheInv, CacheCoherent, [Next]_vars
             PROVE  CacheCoherent'
  BY DEF IInv, TypeOK
<1>1. CASE NextChunk
  <2>1. UNCHANGED <<up, torn, select, csw, tselect, tcsw>> /\ pc # "cswAck"
    BY <1>1, Zenon DEF NextChunk, NoCursor
  <2> QED  BY <2>1, FrameCoherent
<1>2. CASE SelectBank0
  BY <1>2, BanksDiffer, Zenon DEF CacheCoherent, CacheInv, SelectBank0, WriteSelect,
     Fail, NoCursor, Ok, Refused, Garbled
<1>3. CASE WriteCsw
  BY <1>3, BanksDiffer, Zenon DEF CacheCoherent, CacheInv, WriteCsw, Fail, NoCursor, Ok,
     Refused, Garbled
<1>4. CASE CswDone
  BY <1>4, BanksDiffer, Zenon DEF CacheCoherent, CacheInv, CswDone, Fail, NoCursor, Ok,
     Refused, Garbled
<1>5. CASE WriteTar
  <2>1. UNCHANGED <<up, torn, select, csw, tselect, tcsw>> /\ pc # "cswAck"
    BY <1>5, Zenon DEF WriteTar, Fail, NoCursor, Ok, Refused, Garbled
  <2> QED  BY <2>1, FrameCoherent
<1>6. CASE DrwWrite
  <2>1. UNCHANGED <<up, torn, select, csw, tselect, tcsw>> /\ pc # "cswAck"
    BY <1>6, Zenon DEF DrwWrite, Fail, NoCursor, Ok, Refused, Garbled
  <2> QED  BY <2>1, FrameCoherent
<1>7. CASE DrwRead
  <2>1. UNCHANGED <<up, torn, select, csw, tselect, tcsw>> /\ pc # "cswAck"
    BY <1>7, Zenon DEF DrwRead, Fail, NoCursor, Ok, Refused, Garbled
  <2> QED  BY <2>1, FrameCoherent
<1>8. CASE Flush
  <2>1. UNCHANGED <<up, torn, select, csw, tselect, tcsw>> /\ pc # "cswAck"
    BY <1>8, Zenon DEF Flush, Fail, NoCursor, Ok, Refused, Garbled
  <2> QED  BY <2>1, FrameCoherent
<1>9. CASE ApSelect
  BY <1>9, BanksDiffer, Zenon DEF CacheCoherent, CacheInv, ApSelect, WriteSelect, Fail,
     NoCursor, Ok, Refused, Garbled
<1>10. CASE ApReadFirst
  <2>1. UNCHANGED <<up, torn, select, csw, tselect, tcsw>> /\ pc # "cswAck"
    BY <1>10, Zenon DEF ApReadFirst, ApRead, Fail, NoCursor, Ok, Refused, Garbled
  <2> QED  BY <2>1, FrameCoherent
<1>11. CASE ApReadSecond
  <2>1. UNCHANGED <<up, torn, select, csw, tselect, tcsw>> /\ pc # "cswAck"
    BY <1>11, Zenon DEF ApReadSecond, ApRead, Fail, NoCursor, Ok, Refused, Garbled
  <2> QED  BY <2>1, FrameCoherent
<1>12. CASE Connect
  BY <1>12, BanksDiffer, Zenon DEF CacheCoherent, CacheInv, Connect, Begin
<1>13. CASE Off
  BY <1>13, BanksDiffer, Zenon DEF CacheCoherent, CacheInv, Off, Begin
<1>14. CASE TargetReset
  BY <1>14, BanksDiffer, Zenon DEF CacheCoherent, CacheInv, TargetReset
<1>15. CASE ClearErrors
  <2>1. UNCHANGED <<up, torn, select, csw, tselect, tcsw>> /\ pc # "cswAck"
    BY <1>15, Zenon DEF ClearErrors, Begin
  <2> QED  BY <2>1, FrameCoherent
<1>16. CASE CallReadAp
  <2>1. UNCHANGED <<up, torn, select, csw, tselect, tcsw>> /\ pc # "cswAck"
    BY <1>16, Zenon DEF CallReadAp, Begin
  <2> QED  BY <2>1, FrameCoherent
<1>17. CASE \E r \in Requests : Call(r)
  <2>1. UNCHANGED <<up, torn, select, csw, tselect, tcsw>> /\ pc # "cswAck"
    BY <1>17, Zenon DEF Call, Begin
  <2> QED  BY <2>1, FrameCoherent
<1>18. CASE UNCHANGED vars
  BY <1>18, Zenon DEF CacheCoherent
<1> QED
  BY <1>1, <1>2, <1>3, <1>4, <1>5, <1>6, <1>7, <1>8, <1>9, <1>10,
     <1>11, <1>12, <1>13, <1>14, <1>15, <1>16, <1>17, <1>18, StepCases

\* Every step keeps what the cached values are at each position of a call.
LEMMA CacheInvStep == IInv /\ [Next]_vars => CacheInv'
<1> SUFFICES ASSUME CacheTypes, CacheInv, CacheCoherent, [Next]_vars
             PROVE  CacheInv'
  BY DEF IInv, TypeOK
<1>1. CASE NextChunk
  BY <1>1, Zenon DEF CacheInv, NextChunk, NoCursor, Want
<1>2. CASE SelectBank0
  BY <1>2, Zenon DEF CacheInv, SelectBank0, WriteSelect, Fail, NoCursor, Ok, Refused,
     Garbled, Want
<1>3. CASE WriteCsw
  <2>1. ~torn => tselect = Bank0
    BY <1>3, BanksDiffer, Zenon DEF CacheCoherent, CacheInv, WriteCsw
  <2> QED
    BY <1>3, <2>1, Zenon DEF CacheInv, WriteCsw, Fail, NoCursor, Ok, Refused, Garbled,
       Want
<1>4. CASE CswDone
  BY <1>4, Zenon DEF CacheInv, CswDone, Fail, NoCursor, Ok, Refused, Garbled, Want
<1>5. CASE WriteTar
  BY <1>5, Zenon DEF CacheInv, WriteTar, Fail, NoCursor, Ok, Refused, Garbled, Want
<1>6. CASE DrwWrite
  BY <1>6, Zenon DEF CacheInv, DrwWrite, Fail, NoCursor, Ok, Refused, Garbled, Want
<1>7. CASE DrwRead
  BY <1>7, Zenon DEF CacheInv, DrwRead, Fail, NoCursor, Ok, Refused, Garbled, Want
<1>8. CASE Flush
  BY <1>8, Zenon DEF CacheInv, Flush, Fail, NoCursor, Ok, Refused, Garbled, Want
<1>9. CASE ApSelect
  BY <1>9, Zenon DEF CacheInv, ApSelect, WriteSelect, Fail, NoCursor, Ok, Refused,
     Garbled, Want
<1>10. CASE ApReadFirst
  BY <1>10, Zenon DEF CacheInv, ApReadFirst, ApRead, Fail, NoCursor, Ok, Refused,
     Garbled, Want
<1>11. CASE ApReadSecond
  BY <1>11, Zenon DEF CacheInv, ApReadSecond, ApRead, Fail, NoCursor, Ok, Refused,
     Garbled, Want
<1>12. CASE Connect
  BY <1>12, Zenon DEF CacheInv, Connect, Begin, Want
<1>13. CASE Off
  BY <1>13, Zenon DEF CacheInv, Off, Begin, Want
<1>14. CASE TargetReset
  BY <1>14, Zenon DEF CacheInv, TargetReset, Want
<1>15. CASE ClearErrors
  BY <1>15, Zenon DEF CacheInv, ClearErrors, Begin, Want
<1>16. CASE CallReadAp
  BY <1>16, Zenon DEF CacheInv, CallReadAp, Begin, Want
<1>17. CASE \E r \in Requests : Call(r)
  <2>1. pc' = "next" /\ up' = up /\ up
    BY <1>17, Zenon DEF Call
  <2> QED  BY <2>1, Zenon DEF CacheInv
<1>18. CASE UNCHANGED vars
  BY <1>18, Zenon DEF CacheInv, Want
<1> QED
  BY <1>1, <1>2, <1>3, <1>4, <1>5, <1>6, <1>7, <1>8, <1>9, <1>10,
     <1>11, <1>12, <1>13, <1>14, <1>15, <1>16, <1>17, <1>18, StepCases

\* Every step keeps the types of the cached and of the real registers,
LEMMA CacheTypesStep == IInv /\ [Next]_vars => CacheTypes'
<1> SUFFICES ASSUME CacheTypes, [Next]_vars
             PROVE  CacheTypes'
  BY DEF IInv, TypeOK
<1>1. CASE NextChunk
  BY <1>1, Zenon DEF NextChunk, CacheTypes, NoCursor, Want, Banks, Sizes, Steps, ApSteps
<1>2. CASE SelectBank0
  BY <1>2, Zenon DEF SelectBank0, WriteSelect, CacheTypes, Fail, NoCursor, Ok, Refused,
     Garbled, Want, Banks, Sizes, Steps, ApSteps
<1>3. CASE WriteCsw
  BY <1>3, Zenon DEF WriteCsw, CacheTypes, Fail, NoCursor, Ok, Refused, Garbled, Want,
     Banks, Sizes, Steps, ApSteps
<1>4. CASE CswDone
  BY <1>4, Zenon DEF CswDone, CacheTypes, Fail, NoCursor, Ok, Refused, Garbled, Want,
     Banks, Sizes, Steps, ApSteps
<1>5. CASE WriteTar
  BY <1>5, Zenon DEF WriteTar, CacheTypes, Fail, NoCursor, Ok, Refused, Garbled, Want,
     Banks, Sizes, Steps, ApSteps
<1>6. CASE DrwWrite
  BY <1>6, Zenon DEF DrwWrite, CacheTypes, Fail, NoCursor, Ok, Refused, Garbled, Want,
     Banks, Sizes, Steps, ApSteps
<1>7. CASE DrwRead
  BY <1>7, Zenon DEF DrwRead, CacheTypes, Fail, NoCursor, Ok, Refused, Garbled, Want,
     Banks, Sizes, Steps, ApSteps
<1>8. CASE Flush
  BY <1>8, Zenon DEF Flush, CacheTypes, Fail, NoCursor, Ok, Refused, Garbled, Want,
     Banks, Sizes, Steps, ApSteps
<1>9. CASE ApSelect
  BY <1>9, Zenon DEF ApSelect, WriteSelect, CacheTypes, Fail, NoCursor, Ok, Refused,
     Garbled, Want, Banks, Sizes, Steps, ApSteps
<1>10. CASE ApReadFirst
  BY <1>10, Zenon DEF ApReadFirst, ApRead, CacheTypes, Fail, NoCursor, Ok, Refused,
     Garbled, Want, Banks, Sizes, Steps, ApSteps
<1>11. CASE ApReadSecond
  BY <1>11, Zenon DEF ApReadSecond, ApRead, CacheTypes, Fail, NoCursor, Ok, Refused,
     Garbled, Want, Banks, Sizes, Steps, ApSteps
<1>12. CASE Connect
  BY <1>12, Zenon DEF Connect, CacheTypes, Begin, Want, Banks, Sizes, Steps, ApSteps
<1>13. CASE Off
  BY <1>13, Zenon DEF Off, CacheTypes, Begin, Want, Banks, Sizes, Steps, ApSteps
<1>14. CASE TargetReset
  BY <1>14, Zenon DEF TargetReset, CacheTypes, Want, Banks, Sizes, Steps, ApSteps
<1>15. CASE ClearErrors
  BY <1>15, Zenon DEF ClearErrors, CacheTypes, Begin, Want, Banks, Sizes, Steps, ApSteps
<1>16. CASE CallReadAp
  BY <1>16, Zenon DEF CallReadAp, CacheTypes, Begin, Want, Banks, Sizes, Steps, ApSteps
<1>17. CASE \E r \in Requests : Call(r)
  BY <1>17, Zenon DEF Call, CacheTypes, Begin, Want, Banks, Sizes, Steps, ApSteps
<1>18. CASE UNCHANGED vars
  BY <1>18, Zenon DEF CacheTypes
<1> QED
  BY <1>1, <1>2, <1>3, <1>4, <1>5, <1>6, <1>7, <1>8, <1>9, <1>10,
     <1>11, <1>12, <1>13, <1>14, <1>15, <1>16, <1>17, <1>18, StepCases

\* and those of the call in progress.
LEMMA CallTypesStep == IInv /\ [Next]_vars => CallTypes'
<1> SUFFICES ASSUME TypeOK, CallTypes, BlockInPage, [Next]_vars
             PROVE  CallTypes'
  BY DEF IInv, TypeOK
<1>1. CASE NextChunk
  <2>1. CASE left = 0
    BY <1>1, <2>1, SMT DEF CallTypes, NextChunk, NoCursor
  <2>2. CASE left # 0
    <3>1. ChunkSize \in Nat  BY <2>2, ChunkFits DEF CallTypes
    <3> QED  BY <1>1, <2>2, <3>1, SMT DEF CallTypes, NextChunk
  <2> QED  BY <2>1, <2>2
<1>2. CASE SelectBank0
  BY <1>2, SMT DEF SelectBank0, WriteSelect, CallTypes, Fail, NoCursor, Ok, Refused,
     Garbled
<1>3. CASE WriteCsw
  BY <1>3, SMT DEF WriteCsw, CallTypes, Fail, NoCursor, Ok, Refused, Garbled
<1>4. CASE CswDone
  BY <1>4, SMT DEF CswDone, CallTypes, Fail, NoCursor, Ok, Refused, Garbled
<1>5. CASE WriteTar
  BY <1>5, SMT DEF WriteTar, CallTypes, Fail, NoCursor, Ok, Refused, Garbled
<1>6. CASE DrwWrite
  BY <1>6, SMT DEF DrwWrite, CallTypes, Fail, NoCursor, Ok, Refused, Garbled
<1>7. CASE DrwRead
  BY <1>7, SMT DEF DrwRead, CallTypes, Fail, NoCursor, Ok, Refused, Garbled
<1>8. CASE Flush
  <2>1. chunk \in 1..left
    BY <1>8 DEF Flush, BlockInPage, Steps, ApSteps
  <2> QED
    BY <1>8, <2>1, SMT DEF Flush, CallTypes, Fail, NoCursor, Ok, Refused, Garbled
<1>9. CASE ApSelect
  BY <1>9, SMT DEF ApSelect, WriteSelect, CallTypes, Fail, NoCursor, Ok, Refused,
     Garbled
<1>10. CASE ApReadFirst
  BY <1>10, SMT DEF ApReadFirst, ApRead, CallTypes, Fail, NoCursor, Ok, Refused, Garbled
<1>11. CASE ApReadSecond
  BY <1>11, SMT DEF ApReadSecond, ApRead, CallTypes, Fail, NoCursor, Ok, Refused,
     Garbled
<1>12. CASE Connect
  BY <1>12, SMT DEF Connect, CallTypes, Begin, NoCall
<1>13. CASE Off
  BY <1>13, SMT DEF Off, CallTypes, Begin, NoCall
<1>14. CASE TargetReset
  BY <1>14, SMT DEF TargetReset, CallTypes
<1>15. CASE ClearErrors
  BY <1>15, SMT DEF ClearErrors, CallTypes, Begin, NoCall
<1>16. CASE CallReadAp
  BY <1>16, SMT DEF CallReadAp, CallTypes, Begin, NoCall
<1>17. CASE \E r \in Requests : Call(r)
  BY <1>17, RequestsAssumption, SMT DEF Call, CallTypes, Begin
<1>18. CASE UNCHANGED vars
  BY <1>18, Zenon DEF CallTypes
<1> QED
  BY <1>1, <1>2, <1>3, <1>4, <1>5, <1>6, <1>7, <1>8, <1>9, <1>10,
     <1>11, <1>12, <1>13, <1>14, <1>15, <1>16, <1>17, <1>18, StepCases

\* The words of a block, in bytes.
LEMMA WordsOf ==
  ASSUME NEW c \in Nat \ {0}, c # 1 => c % 4 = 0
  PROVE  c # 1 => c \div 4 \in Nat \ {0} /\ 4 * (c \div 4) = c
  BY SMT

\* The block in progress depends on these variables alone,
LEMMA FrameBlock ==
  ASSUME BlockInPage, MoveInv, CallTypes, pc \in {"select", "csw", "cswAck", "tar"},
         \/ pc' = "idle"
         \/ /\ pc' \in {"csw", "cswAck", "tar", "drw"}
            /\ UNCHANGED <<req, at, left, chunk, moved>>
  PROVE  BlockInPage' /\ MoveInv'
<1>1. /\ chunk \in 1..left /\ moved = 0 /\ left \in Nat
      /\ chunk # 1 => chunk % 4 = 0
  BY DEF BlockInPage, MoveInv, CallTypes, Steps, ApSteps
<1>2. Words \in Nat \ {0}
  BY <1>1, WordsOf, SMT DEF Words
<1> QED
  BY <1>1, <1>2, SMT DEF BlockInPage, MoveInv, Words, Steps, ApSteps

\* and what has been moved on these.
LEMMA FrameMoved ==
  ASSUME BlockInPage, MoveInv, CallTypes, pc = "drw",
         \/ pc' = "idle"
         \/ /\ moved' = moved + 1 /\ pc' = IF moved + 1 = Words THEN "flush" ELSE "drw"
            /\ UNCHANGED <<req, at, left, chunk>>
  PROVE  BlockInPage' /\ MoveInv'
<1>1. moved \in Nat /\ moved < Words /\ Words \in Nat
  BY SMT DEF MoveInv, CallTypes, Words
<1>2. CASE pc' = "idle"
  BY <1>2 DEF BlockInPage, MoveInv, Steps, ApSteps
<1>3. CASE pc' # "idle"
  <2>1. Words' = Words  BY <1>3 DEF Words
  <2> QED  BY <1>1, <1>3, <2>1, SMT DEF BlockInPage, MoveInv, Steps, ApSteps
<1> QED  BY <1>2, <1>3

\* Every step keeps TAR at the next word of a block that fits its page.
LEMMA BlockInPageStep == IInv /\ [Next]_vars => BlockInPage' /\ MoveInv'
<1> SUFFICES ASSUME TypeOK, CallTypes, CacheTypes, CacheInv, BlockInPage, MoveInv, [Next]_vars
             PROVE  BlockInPage' /\ MoveInv'
  BY DEF IInv, TypeOK
<1>1. CASE NextChunk
  <2>1. CASE left = 0
    BY <1>1, <2>1, Zenon DEF NextChunk, BlockInPage, MoveInv, Steps, ApSteps
  <2>2. CASE left # 0
    <3>1. /\ pc = "next" /\ pc' = "select" /\ chunk' = ChunkSize /\ moved' = 0
          /\ req' = req /\ at' = at /\ left' = left
      BY <1>1, <2>2, Zenon DEF NextChunk
    <3>2. at \in Nat /\ left \in Nat /\ at >= req.addr /\ at + left = req.addr + req.size
      BY <3>1 DEF BlockInPage, CallTypes, Steps, ApSteps
    <3>3. ChunkSize \in Nat \ {0} /\ (ChunkSize # 1 => ChunkSize \div 4 \in Nat \ {0})
      BY <2>2, <3>2, ChunkFits, WordsOf, SMT
    <3>4. Words' \in Nat \ {0}
      BY <3>1, <3>3, SMT DEF Words
    <3> QED
      BY <2>2, <3>1, <3>2, <3>4, ChunkFits, SMT DEF BlockInPage, MoveInv, Steps, ApSteps
  <2> QED  BY <2>1, <2>2
<1>2. CASE SelectBank0
  <2>1. /\ pc \in {"select", "csw", "cswAck"}
        /\ \/ pc' = "idle"
           \/ pc' \in {"csw", "cswAck", "tar"} /\ UNCHANGED <<req, at, left, chunk, moved>>
    BY <1>2, Zenon DEF SelectBank0, WriteSelect, Fail, NoCursor, Ok, Refused, Garbled
  <2> QED  BY <2>1, FrameBlock
<1>3. CASE WriteCsw
  <2>1. /\ pc \in {"select", "csw", "cswAck"}
        /\ \/ pc' = "idle"
           \/ pc' \in {"csw", "cswAck", "tar"} /\ UNCHANGED <<req, at, left, chunk, moved>>
    BY <1>3, Zenon DEF WriteCsw, Fail, NoCursor, Ok, Refused, Garbled
  <2> QED  BY <2>1, FrameBlock
<1>4. CASE CswDone
  <2>1. /\ pc \in {"select", "csw", "cswAck"}
        /\ \/ pc' = "idle"
           \/ pc' \in {"csw", "cswAck", "tar"} /\ UNCHANGED <<req, at, left, chunk, moved>>
    BY <1>4, Zenon DEF CswDone, Fail, NoCursor, Ok, Refused, Garbled
  <2> QED  BY <2>1, FrameBlock
<1>5. CASE WriteTar
  <2>1. /\ pc = "tar"
        /\ \/ pc' = "idle"
           \/ pc' = "drw" /\ UNCHANGED <<req, at, left, chunk, moved>>
    BY <1>5, Zenon DEF WriteTar, Fail, NoCursor, Ok, Refused, Garbled
  <2> QED  BY <2>1, FrameBlock
<1>6. CASE DrwWrite
  <2>1. /\ pc = "drw"
        /\ \/ pc' = "idle"
           \/ /\ moved' = moved + 1 /\ pc' = IF moved + 1 = Words THEN "flush" ELSE "drw"
              /\ UNCHANGED <<req, at, left, chunk>>
    BY <1>6, Zenon DEF DrwWrite, Fail, NoCursor, Ok, Refused, Garbled
  <2> QED  BY <2>1, FrameMoved
<1>7. CASE DrwRead
  <2>1. /\ pc = "drw"
        /\ \/ pc' = "idle"
           \/ /\ moved' = moved + 1 /\ pc' = IF moved + 1 = Words THEN "flush" ELSE "drw"
              /\ UNCHANGED <<req, at, left, chunk>>
    BY <1>7, Zenon DEF DrwRead, Fail, NoCursor, Ok, Refused, Garbled
  <2> QED  BY <2>1, FrameMoved
<1>8. CASE Flush
  <2>1. /\ pc = "flush"
        /\ \/ pc' = "idle"
           \/ pc' = "next" /\ at' = at + chunk /\ left' = left - chunk /\ req' = req
    BY <1>8, Zenon DEF Flush, Fail, NoCursor, Ok, Refused, Garbled
  <2>2. /\ at \in Nat /\ left \in Nat /\ chunk \in 1..left /\ req.addr \in Nat
        /\ req.size \in Nat /\ at >= req.addr /\ at + left = req.addr + req.size
    BY <2>1 DEF BlockInPage, CallTypes, Steps, ApSteps
  <2> QED  BY <2>1, <2>2, SMT DEF BlockInPage, MoveInv, Steps, ApSteps
<1>9. CASE ApSelect
  <2>1. pc' \in ApSteps \union {"idle"}
    BY <1>9, CacheTypes, Zenon DEF ApSelect, WriteSelect, Fail, NoCursor, Ok, Refused,
       Garbled, ApSteps, Steps, CacheInv
  <2> QED  BY <2>1, SMT DEF BlockInPage, MoveInv, Steps, ApSteps
<1>10. CASE ApReadFirst
  <2>1. pc' \in ApSteps \union {"idle"}
    BY <1>10, CacheTypes, Zenon DEF ApReadFirst, ApRead, Fail, NoCursor, Ok, Refused,
       Garbled, ApSteps, Steps, CacheInv
  <2> QED  BY <2>1, SMT DEF BlockInPage, MoveInv, Steps, ApSteps
<1>11. CASE ApReadSecond
  <2>1. pc' \in ApSteps \union {"idle"}
    BY <1>11, CacheTypes, Zenon DEF ApReadSecond, ApRead, Fail, NoCursor, Ok, Refused,
       Garbled, ApSteps, Steps, CacheInv
  <2> QED  BY <2>1, SMT DEF BlockInPage, MoveInv, Steps, ApSteps
<1>12. CASE Connect
  <2>1. pc' \in ApSteps \union {"idle"}
    BY <1>12, CacheTypes, Zenon DEF Connect, Begin, ApSteps, Steps, CacheInv
  <2> QED  BY <2>1, SMT DEF BlockInPage, MoveInv, Steps, ApSteps
<1>13. CASE Off
  <2>1. pc' \in ApSteps \union {"idle"}
    BY <1>13, CacheTypes, Zenon DEF Off, Begin, ApSteps, Steps, CacheInv
  <2> QED  BY <2>1, SMT DEF BlockInPage, MoveInv, Steps, ApSteps
<1>14. CASE TargetReset
  <2>1. pc' \in ApSteps \union {"idle"}
    BY <1>14, CacheTypes, Zenon DEF TargetReset, ApSteps, Steps, CacheInv
  <2> QED  BY <2>1, SMT DEF BlockInPage, MoveInv, Steps, ApSteps
<1>15. CASE ClearErrors
  <2>1. pc' \in ApSteps \union {"idle"}
    BY <1>15, CacheTypes, Zenon DEF ClearErrors, Begin, ApSteps, Steps, CacheInv
  <2> QED  BY <2>1, SMT DEF BlockInPage, MoveInv, Steps, ApSteps
<1>16. CASE CallReadAp
  <2>1. pc' \in ApSteps \union {"idle"}
    BY <1>16, CacheTypes, Zenon DEF CallReadAp, Begin, ApSteps, Steps, CacheInv
  <2> QED  BY <2>1, SMT DEF BlockInPage, MoveInv, Steps, ApSteps
<1>17. CASE \E r \in Requests : Call(r)
  <2>1. PICK r \in Requests : Call(r)
    BY <1>17
  <2>2. r.addr \in Nat /\ r.size \in Nat
    BY RequestsAssumption
  <2>3. pc' = "next" /\ req' = r /\ at' = r.addr /\ left' = r.size
    BY <2>1, Zenon DEF Call, Begin
  <2> QED  BY <2>2, <2>3, SMT DEF BlockInPage, MoveInv, Steps, ApSteps
<1>18. CASE UNCHANGED vars
  BY <1>18, Zenon DEF BlockInPage, MoveInv, Words
<1> QED
  BY <1>1, <1>2, <1>3, <1>4, <1>5, <1>6, <1>7, <1>8, <1>9, <1>10,
     <1>11, <1>12, <1>13, <1>14, <1>15, <1>16, <1>17, <1>18, StepCases

-----------------------------------------------------------------------------
\* What the lanes and the memory of an access are made of.
LEMMA LaneOf == ASSUME NEW a \in Nat PROVE a % 4 \in Lanes
  BY SMT DEF Lanes

\* The lanes a write sends are bytes,
LEMMA SentType == ASSUME CallTypes PROVE Sent \in [Lanes -> Int]
<1>1. \A i \in Int : Data(i) \in Int
  BY PageAssumption, SMT DEF Data
<1>2. at - req.addr \in Int /\ Offset \in Int /\ \A l \in Lanes : Offset + l \in Int
  BY SMT DEF Offset, CallTypes, Lanes
<1> QED  BY <1>1, <1>2 DEF Sent

\* so memory after a store is memory,
LEMMA StoredType ==
  ASSUME NEW m \in [Addresses -> Int], NEW x \in Nat, NEW z \in Nat,
         NEW w \in [Lanes -> Int]
  PROVE  Stored(m, x, z, w) \in [Addresses -> Int]
<1>1. \A a \in Addresses : w[a % 4] \in Int
  BY LaneOf, PageAssumption, SMT DEF Addresses
<1> QED  BY <1>1 DEF Stored

\* and what a read loads are lanes,
LEMMA LoadedType ==
  ASSUME NEW m \in [Addresses -> Int], NEW x \in Nat, NEW z \in Nat
  PROVE  Loaded(m, x, z, Junk) \in [Lanes -> Int]
<1> SUFFICES ASSUME NEW l \in Lanes
             PROVE  LET from == {a \in Touched(x, z) \intersect Addresses : a % 4 = l}
                    IN  (IF from = {} THEN Junk ELSE m[CHOOSE a \in from : TRUE]) \in Int
  BY DEF Loaded
<1> DEFINE from == {a \in Touched(x, z) \intersect Addresses : a % 4 = l}
<1>1. CASE from = {}
  BY <1>1, SMT DEF Junk
<1>2. CASE from # {}
  <2>1. (CHOOSE a \in from : TRUE) \in from  BY <1>2
  <2>2. from \subseteq Addresses  OBVIOUS
  <2> HIDE DEF from
  <2>3. m[CHOOSE a \in from : TRUE] \in Int  BY <2>1, <2>2
  <2> QED  BY <1>2, <2>3 DEF from
<1> QED  BY <1>1, <1>2

\* and what a read hands over are bytes.
LEMMA ReceivedType ==
  ASSUME CallTypes, DataTypes, NEW u \in Nat
  PROVE  Received(rdbuff, u) \in [0..(req.size - 1) -> Int]
<1> DEFINE first == at - req.addr + 4 * (u - 1)
<1>1. first \in Int /\ at % 4 \in Lanes
  BY LaneOf, SMT DEF CallTypes
<1> HIDE DEF first
<1>2. \A i \in first..(first + 3) : i - first \in Lanes
  BY <1>1, SMT DEF Lanes
<1>3. req.size \in Nat  BY DEF CallTypes
<1>4. \A i \in DOMAIN buf : buf[i] \in Int  BY <1>3 DEF DataTypes
<1>5. \A l \in Lanes : rdbuff[l] \in Int  BY DEF DataTypes
<1>6. \A i \in DOMAIN buf :
        (IF chunk = 1 THEN IF i = at - req.addr THEN rdbuff[at % 4] ELSE buf[i]
         ELSE IF i \in first..(first + 3) THEN rdbuff[i - first] ELSE buf[i]) \in Int
  BY <1>1, <1>2, <1>4, <1>5
<1>7. DOMAIN buf = 0..(req.size - 1)  BY DEF DataTypes
<1> QED  BY <1>6, <1>7 DEF Received, first

\* TAR stays a number.
LEMMA NextTarType ==
  ASSUME NEW x \in Nat, NEW z \in Nat PROVE NextTar(x, z, Page) \in Nat
<1>1. Page \in Nat /\ Page > 0  BY PageAssumption
<1>2. x \div Page \in Nat /\ (x + z) % Page \in Nat  BY <1>1, ModBounds, SMT
<1>3. Page * (x \div Page) \in Nat  BY <1>1, <1>2, SMT
<1> QED  BY <1>2, <1>3, SMT DEF NextTar

\* The last access is one of those the target knows.
LEMMA AccessTypes ==
  ASSUME TypeOK
  PROVE  tcsw \in Nat /\ tar \in Nat /\ moved \in Nat /\ mem \in [Addresses -> Int]
  BY SMT DEF TypeOK, CacheTypes, CallTypes, DataTypes, Sizes

\* Memory as found and an untouched buffer have their types.
LEMMA BeginTypes == Junk \in Int /\ Found \in [Addresses -> Int]
  BY PageAssumption, SMT DEF Junk, Found, Addresses

\* Every step keeps the types of memory, buffer and DRW pipeline.
LEMMA DataTypesStep == IInv /\ [Next]_vars => DataTypes'
<1> SUFFICES ASSUME TypeOK, CacheTypes, CallTypes, DataTypes, [Next]_vars
             PROVE  DataTypes'
  BY DEF IInv, TypeOK
<1>1. CASE NextChunk
  <2>1. UNCHANGED <<req, buf, tar, rdbuff, mem>>
    BY <1>1, Zenon DEF NextChunk, NoCursor
  <2> QED  BY <2>1, Zenon DEF DataTypes
<1>2. CASE SelectBank0
  <2>1. UNCHANGED <<req, buf, tar, rdbuff, mem>>
    BY <1>2, Zenon DEF SelectBank0, WriteSelect, Fail, NoCursor, Ok, Refused, Garbled
  <2> QED  BY <2>1, Zenon DEF DataTypes
<1>3. CASE WriteCsw
  <2>1. UNCHANGED <<req, buf, tar, rdbuff, mem>>
    BY <1>3, Zenon DEF WriteCsw, Fail, NoCursor, Ok, Refused, Garbled
  <2> QED  BY <2>1, Zenon DEF DataTypes
<1>4. CASE CswDone
  <2>1. UNCHANGED <<req, buf, tar, rdbuff, mem>>
    BY <1>4, Zenon DEF CswDone, Fail, NoCursor, Ok, Refused, Garbled
  <2> QED  BY <2>1, Zenon DEF DataTypes
<1>5. CASE WriteTar
  <2>1. tar' \in {tar, at} /\ UNCHANGED <<req, buf, rdbuff, mem>>
    BY <1>5, Zenon DEF WriteTar, Fail
  <2> QED  BY <2>1, Zenon DEF DataTypes, CallTypes
<1>6. CASE DrwWrite
  <2>1. Stored(mem, tar, tcsw, Sent) \in [Addresses -> Int] /\ NextTar(tar, tcsw, Page) \in Nat
    BY SentType, StoredType, NextTarType, AccessTypes
  <2>2. /\ mem' = mem \/ mem' = Stored(mem, tar, tcsw, Sent)
        /\ tar' = tar \/ tar' = NextTar(tar, tcsw, Page)
        /\ UNCHANGED <<req, buf, rdbuff>>
    BY <1>6, Zenon DEF DrwWrite, Advance, Fail
  <2> QED  BY <2>1, <2>2, Zenon DEF DataTypes
<1>7. CASE DrwRead
  <2>1. /\ Loaded(mem, tar, tcsw, Junk) \in [Lanes -> Int] /\ NextTar(tar, tcsw, Page) \in Nat
        /\ Received(rdbuff, moved) \in [0..(req.size - 1) -> Int]
    BY LoadedType, NextTarType, ReceivedType, AccessTypes
  <2>2. Lane0 \in [Lanes -> Int]
    BY SMT DEF Lane0, Junk
  <2>3. /\ rdbuff' \in {rdbuff, Lane0, Loaded(mem, tar, tcsw, Junk)}
        /\ tar' = tar \/ tar' = NextTar(tar, tcsw, Page)
        /\ buf' = buf \/ buf' = Received(rdbuff, moved)
        /\ UNCHANGED <<req, mem>>
    BY <1>7, Zenon DEF DrwRead, Advance, Fail
  <2> QED  BY <2>1, <2>2, <2>3, Zenon DEF DataTypes
<1>8. CASE Flush
  <2>1. Received(rdbuff, moved) \in [0..(req.size - 1) -> Int]
    BY ReceivedType DEF CallTypes
  <2>2. (buf' = buf \/ buf' = Received(rdbuff, moved)) /\ UNCHANGED <<req, tar, rdbuff, mem>>
    BY <1>8, Zenon DEF Flush, Fail
  <2> QED  BY <2>1, <2>2, Zenon DEF DataTypes
<1>9. CASE ApSelect
  <2>1. UNCHANGED <<req, buf, tar, rdbuff, mem>>
    BY <1>9, Zenon DEF ApSelect, WriteSelect, Fail, NoCursor, Ok, Refused, Garbled
  <2> QED  BY <2>1, Zenon DEF DataTypes
<1>10. CASE ApReadFirst
  <2>1. UNCHANGED <<req, buf, tar, rdbuff, mem>>
    BY <1>10, Zenon DEF ApReadFirst, ApRead, Fail, NoCursor, Ok, Refused, Garbled
  <2> QED  BY <2>1, Zenon DEF DataTypes
<1>11. CASE ApReadSecond
  <2>1. UNCHANGED <<req, buf, tar, rdbuff, mem>>
    BY <1>11, Zenon DEF ApReadSecond, ApRead, Fail, NoCursor, Ok, Refused, Garbled
  <2> QED  BY <2>1, Zenon DEF DataTypes
<1>12. CASE Connect
  <2>1. /\ buf' = [i \in 0..(req'.size - 1) |-> Junk] /\ mem' = Found
        /\ UNCHANGED <<tar, rdbuff>>
    BY <1>12, Zenon DEF Connect, Begin
  <2> QED  BY <2>1, BeginTypes DEF DataTypes
<1>13. CASE Off
  <2>1. /\ buf' = [i \in 0..(req'.size - 1) |-> Junk] /\ mem' = Found
        /\ UNCHANGED <<tar, rdbuff>>
    BY <1>13, Zenon DEF Off, Begin
  <2> QED  BY <2>1, BeginTypes DEF DataTypes
<1>14. CASE TargetReset
  <2>1. UNCHANGED <<req, buf, tar, rdbuff, mem>>
    BY <1>14, Zenon DEF TargetReset
  <2> QED  BY <2>1, Zenon DEF DataTypes
<1>15. CASE ClearErrors
  <2>1. /\ buf' = [i \in 0..(req'.size - 1) |-> Junk] /\ mem' = Found
        /\ UNCHANGED <<tar, rdbuff>>
    BY <1>15, Zenon DEF ClearErrors, Begin
  <2> QED  BY <2>1, BeginTypes DEF DataTypes
<1>16. CASE CallReadAp
  <2>1. /\ buf' = [i \in 0..(req'.size - 1) |-> Junk] /\ mem' = Found
        /\ UNCHANGED <<tar, rdbuff>>
    BY <1>16, Zenon DEF CallReadAp, Begin
  <2> QED  BY <2>1, BeginTypes DEF DataTypes
<1>17. CASE \E r \in Requests : Call(r)
  <2>1. /\ buf' = [i \in 0..(req'.size - 1) |-> Junk] /\ mem' = Found
        /\ UNCHANGED <<tar, rdbuff>>
    BY <1>17, Zenon DEF Call, Begin
  <2> QED  BY <2>1, BeginTypes DEF DataTypes
<1>18. CASE UNCHANGED vars
  BY <1>18, Zenon DEF DataTypes
<1> QED
  BY <1>1, <1>2, <1>3, <1>4, <1>5, <1>6, <1>7, <1>8, <1>9, <1>10,
     <1>11, <1>12, <1>13, <1>14, <1>15, <1>16, <1>17, <1>18, StepCases

-----------------------------------------------------------------------------
\* With no torn write the target is set up as the access needs it.
LEMMA AccessReady ==
  ASSUME CacheInv, CacheCoherent, ~torn, pc \in {"tar", "drw", "flush"}
  PROVE  tselect = Bank0 /\ tcsw = Want
<1>1. up /\ select = Bank0 /\ csw = Want  BY DEF CacheInv
<1>2. Want # Fake /\ Bank0 # Fake  BY SMT DEF Want, Fake, Bank0
<1> QED  BY <1>1, <1>2 DEF CacheCoherent

\* Memory with the first bytes of the request written, byte by byte,
LEMMA WrittenIs ==
  \A base, n : Written(base, n) = [a \in Addresses |->
                 IF a - base \in 0..(n - 1) THEN Data(a - base) ELSE a]
  BY DEF Written

\* is memory as found when none is.
LEMMA WrittenNothing == \A base : Written(base, 0) = Found
<1>1. 0..(0 - 1) = {}  BY SMT
<1> QED  BY <1>1, WrittenIs DEF Found

\* One byte more of the buffer, and one word more.
LEMMA StoreByte ==
  ASSUME at \in Nat, req.addr \in Nat, at >= req.addr, chunk = 1,
         mem = Written(req.addr, at - req.addr)
  PROVE  Stored(mem, at, 1, Sent) = Written(req.addr, at - req.addr + 1)
<1> DEFINE k == at - req.addr
<1>1. k \in Nat /\ Touched(at, 1) = {at} /\ at % 4 \in Lanes
  BY LaneOf, SMT DEF Touched
<1>2. Sent[at % 4] = Data(k)
  BY <1>1 DEF Sent
<1>3. /\ DOMAIN mem = Addresses
      /\ \A a \in Addresses :
           mem[a] = IF a - req.addr \in 0..(k - 1) THEN Data(a - req.addr) ELSE a
  BY DEF Written
<1>4. Addresses \subseteq Nat  BY SMT DEF Addresses
<1> HIDE DEF k
<1>5. ASSUME NEW a \in Addresses
      PROVE  (IF a \in {at} THEN Sent[a % 4] ELSE mem[a])
              = (IF a - req.addr \in 0..((k + 1) - 1) THEN Data(a - req.addr) ELSE a)
  <2>1. CASE a = at
    <3>1. a - req.addr = k /\ k \in 0..((k + 1) - 1)  BY <1>1, <2>1, SMT DEF k
    <3> QED  BY <1>2, <2>1, <3>1
  <2>2. CASE a # at
    <3>1. a - req.addr \in 0..((k + 1) - 1) <=> a - req.addr \in 0..(k - 1)
      BY <1>1, <1>4, <2>2, SMT DEF k
    <3> QED  BY <1>3, <2>2, <3>1
  <2> QED  BY <2>1, <2>2
<1> QED  BY <1>1, <1>3, <1>5 DEF Stored, Written, k

\* A DRW write of the size the call means adds its bytes to those written.
LEMMA StoreWord ==
  ASSUME at \in Nat, req.addr \in Nat, moved \in Nat, at >= req.addr, at % 4 = 0,
         chunk # 1, NEW x \in Nat, x = at + 4 * moved,
         mem = Written(req.addr, at - req.addr + 4 * moved)
  PROVE  Stored(mem, x, 4, Sent) = Written(req.addr, at - req.addr + 4 * moved + 4)
<1> DEFINE k == at - req.addr + 4 * moved
<1>1. k \in Nat /\ k = x - req.addr /\ x % 4 = 0 /\ Touched(x, 4) = x..(x + 3)
  BY SMT DEF Touched
<1>2. Offset = k  BY DEF Offset
<1>3. \A l \in Lanes : Sent[l] = Data(k + l)
  BY <1>2 DEF Sent
<1>4. /\ DOMAIN mem = Addresses
      /\ \A a \in Addresses :
           mem[a] = IF a - req.addr \in 0..(k - 1) THEN Data(a - req.addr) ELSE a
  BY DEF Written
<1>5. Addresses \subseteq Nat  BY SMT DEF Addresses
<1> HIDE DEF k
<1>6. ASSUME NEW a \in Addresses
      PROVE  (IF a \in x..(x + 3) THEN Sent[a % 4] ELSE mem[a])
              = (IF a - req.addr \in 0..((k + 4) - 1) THEN Data(a - req.addr) ELSE a)
  <2>1. CASE a \in x..(x + 3)
    <3>1. PICK l \in Lanes : a = x + l
      BY <1>1, <2>1, SMT DEF Lanes
    <3>2. a % 4 = l
      BY <1>1, <3>1, SMT DEF Lanes
    <3>3. k + l = a - req.addr /\ a - req.addr \in 0..((k + 4) - 1)
      BY <1>1, <3>1, SMT DEF Lanes
    <3> QED  BY <1>3, <2>1, <3>2, <3>3
  <2>2. CASE a \notin x..(x + 3)
    <3>1. a - req.addr \in 0..((k + 4) - 1) <=> a - req.addr \in 0..(k - 1)
      BY <1>1, <1>5, <2>2, SMT
    <3> QED  BY <1>4, <2>2, <3>1
  <2> QED  BY <2>1, <2>2
<1>7. Stored(mem, x, 4, Sent)
        = [a \in Addresses |-> IF a \in x..(x + 3) THEN Sent[a % 4] ELSE mem[a]]
  BY <1>1, <1>4 DEF Stored
<1>8. Written(req.addr, k + 4)
        = [a \in Addresses |-> IF a - req.addr \in 0..((k + 4) - 1) THEN Data(a - req.addr) ELSE a]
  BY WrittenIs
<1>9. Stored(mem, x, 4, Sent) = Written(req.addr, k + 4)
  BY <1>6, <1>7, <1>8, Zenon
<1> QED  BY <1>9 DEF k

\* TAR does not wrap before the last word of a block.
LEMMA TarInBlock ==
  ASSUME NEW x \in Nat, NEW m \in Nat, NEW c \in Nat,
         (x % Page) + c <= Page, 4 * m + 4 < c
  PROVE  NextTar(x + 4 * m, 4, Page) = x + 4 * (m + 1)
<1> DEFINE q == x \div Page
           r == x % Page
<1>1. Page \in Nat /\ Page > 0  BY PageAssumption
<1>2. q \in Nat /\ r \in 0..(Page - 1) /\ x = Page * q + r  BY <1>1, ModBounds
<1>3. r + 4 * m \in 0..(Page - 1) /\ r + 4 * m + 4 < Page
  BY <1>1, <1>2, SMT
<1> HIDE DEF q, r
<1>4. x + 4 * m = Page * q + (r + 4 * m)
  <2>1. Page * q \in Nat  BY <1>1, <1>2, SMT
  <2> QED  BY <1>2, <2>1, SMT
<1>5. (x + 4 * m) % Page = r + 4 * m
  BY <1>1, <1>2, <1>3, <1>4, ModUnique
<1>6. x + 4 * m \in Nat /\ ((x + 4 * m) % Page) + 4 < Page
  BY <1>3, <1>5, SMT
<1>7. NextTar(x + 4 * m, 4, Page) = x + 4 * m + 4
  BY <1>1, <1>6, TarAdvances
<1> QED  BY <1>7, SMT

\* A DRW write that the target makes adds its byte or word to the prefix.
LEMMA DrwStores ==
  ASSUME IInv, pc = "drw", req.kind = "write", ~torn, ~sticky
  PROVE  /\ tselect = Bank0
         /\ Stored(mem, tar, tcsw, Sent) = Written(req.addr, at - req.addr + 4 * moved + Want)
         /\ at - req.addr + 4 * moved + Want \in 0..req.size
         /\ moved + 1 = Words => 4 * moved + Want = chunk
         /\ moved + 1 # Words => Want = 4 /\ NextTar(tar, tcsw, Page) = at + 4 * (moved + 1)
<1>1. tselect = Bank0 /\ tcsw = Want
  BY AccessReady DEF IInv
<1>2. mem = Written(req.addr, at - req.addr + 4 * moved) /\ tar = at + 4 * moved
  BY DEF IInv, MemInv
<1>3. /\ at \in Nat /\ left \in Nat /\ moved \in Nat /\ chunk \in Nat \ {0}
      /\ req.addr \in Nat /\ req.size \in Nat
      /\ at >= req.addr /\ at + left = req.addr + req.size /\ chunk <= left
      /\ (at % Page) + chunk <= Page
      /\ chunk # 1 => at % 4 = 0 /\ chunk % 4 = 0
  BY DEF IInv, TypeOK, CallTypes, BlockInPage, Steps, ApSteps
<1>4. moved < Words
  BY DEF IInv, MoveInv
<1>5. CASE chunk = 1
  <2>1. moved = 0 /\ Words = 1 /\ Want = 1
    BY <1>3, <1>4, <1>5, SMT DEF Words, Want
  <2>2. tar = at /\ mem = Written(req.addr, at - req.addr)
    BY <1>2, <1>3, <2>1, SMT
  <2>3. Stored(mem, tar, tcsw, Sent) = Written(req.addr, at - req.addr + 1)
    BY <1>1, <1>3, <1>5, <2>1, <2>2, StoreByte
  <2>4. at - req.addr + 4 * moved + Want = at - req.addr + 1
    BY <1>3, <2>1, SMT
  <2>5. at - req.addr + 1 \in 0..req.size /\ 4 * moved + Want = chunk /\ moved + 1 = Words
    BY <1>3, <1>5, <2>1, SMT
  <2> QED  BY <1>1, <2>3, <2>4, <2>5
<1>6. CASE chunk # 1
  <2>1. Want = 4 /\ Words = chunk \div 4 /\ Words \in Nat /\ 4 * Words = chunk
    BY <1>3, <1>6, WordsOf DEF Words, Want
  <2>2. Stored(mem, tar, tcsw, Sent) = Written(req.addr, at - req.addr + 4 * moved + 4)
    <3>1. tar \in Nat  BY <1>2, <1>3, SMT
    <3> QED  BY <1>1, <1>2, <1>3, <1>6, <2>1, <3>1, StoreWord
  <2>3. at - req.addr + 4 * moved + 4 \in 0..req.size
    BY <1>3, <1>4, <2>1, SMT
  <2>4. moved + 1 = Words => 4 * moved + 4 = chunk
    BY <1>3, <2>1, SMT
  <2>5. ASSUME moved + 1 # Words PROVE NextTar(tar, tcsw, Page) = at + 4 * (moved + 1)
    <3>1. 4 * moved + 4 < chunk  BY <1>3, <1>4, <2>1, <2>5, SMT
    <3> QED  BY <1>1, <1>2, <1>3, <2>1, <3>1, TarInBlock
  <2> QED  BY <1>1, <2>1, <2>2, <2>3, <2>4, <2>5
<1> QED  BY <1>5, <1>6

\* Steps of a call that leave memory, TAR and the cursor alone.
LEMMA FrameMem ==
  ASSUME MemInv, UNCHANGED <<req, mem>>, torn = torn' \/ (torn' = TRUE /\ pc' = "idle"),
         \/ pc' = "idle" /\ result' = "error"
         \/ /\ pc \in {"select", "csw", "cswAck"} /\ pc' \in {"csw", "cswAck", "tar"}
            /\ UNCHANGED at
  PROVE  MemInv'
<1>1. CASE pc' = "idle" /\ result' = "error"
  <2>1. req'.kind = "write" /\ ~torn' => req.kind = "write" /\ ~torn  OBVIOUS
  <2>2. PartialWrite => (req.kind = "write" /\ ~torn
                           => \E n \in 0..req.size : mem = Written(req.addr, n))
    BY Zenon DEF PartialWrite
  <2>3. req.kind = "write" /\ ~torn => PartialWrite'
    BY <2>2, Zenon DEF MemInv, PartialWrite
  <2> QED  BY <1>1, <2>1, <2>3, Zenon DEF MemInv, ApSteps
<1>2. CASE /\ pc \in {"select", "csw", "cswAck"} /\ pc' \in {"csw", "cswAck", "tar"}
           /\ UNCHANGED at
  <2>1. req.kind = "write" /\ ~torn'
          => mem = Written(req.addr, at - req.addr) /\ PartialWrite /\ ~torn
    BY <1>2, Zenon DEF MemInv
  <2> QED  BY <1>2, <2>1, Zenon DEF MemInv, ApSteps, PartialWrite
<1> QED  BY <1>1, <1>2

\* The ways a DRW write that is not refused ends.
DrwStored ==
  /\ ~sticky /\ UNCHANGED <<sticky, at, chunk>>
  /\ mem' = IF tselect = Bank0 THEN Stored(mem, tar, tcsw, Sent) ELSE mem
  /\ tar' = IF tselect = Bank0 THEN NextTar(tar, tcsw, Page) ELSE tar
  /\ moved' = moved + 1 /\ pc' = IF moved + 1 = Words THEN "flush" ELSE "drw"

DrwBusError == mem' = mem /\ sticky' = TRUE /\ pc' \in {"drw", "flush"}

DrwGarbled ==
  /\ ~sticky /\ pc' = "idle" /\ result' = "error"
  /\ mem' = IF tselect = Bank0 THEN Stored(mem, tar, tcsw, Sent) ELSE mem

\* A store leaves every byte outside its access alone.
LEMMA StoredKeeps ==
  ASSUME IInv, pc = "drw", req.kind = "write", ~torn, UNCHANGED <<req, torn>>,
         DrwStored \/ DrwGarbled
  PROVE  MemInv'
<1> DEFINE k == at - req.addr + 4 * moved + Want
<1>1. ~sticky  BY DEF DrwStored, DrwGarbled
<1>2. /\ tselect = Bank0 /\ Stored(mem, tar, tcsw, Sent) = Written(req.addr, k) /\ k \in 0..req.size
      /\ moved + 1 = Words => 4 * moved + Want = chunk
      /\ moved + 1 # Words => Want = 4 /\ NextTar(tar, tcsw, Page) = at + 4 * (moved + 1)
  BY <1>1, DrwStores
<1>3. mem' = Written(req.addr, k)  BY <1>2 DEF DrwStored, DrwGarbled
<1>4. /\ moved + 1 = Words => k = at - req.addr + chunk
      /\ moved + 1 # Words => k = at - req.addr + 4 * (moved + 1)
  BY <1>2, SMT DEF IInv, TypeOK, CallTypes, Want
<1> HIDE DEF k
<1>5. PartialWrite'
  BY <1>2, <1>3, Zenon DEF PartialWrite
<1>6. CASE DrwGarbled
  BY <1>5, <1>6, Zenon DEF DrwGarbled, MemInv, ApSteps
<1>7. CASE DrwStored /\ moved + 1 = Words
  <2>1. mem' = Written(req.addr, at - req.addr + chunk)'
    BY <1>3, <1>4, <1>7, Zenon DEF DrwStored, Written
  <2> QED  BY <1>5, <1>7, <2>1, Zenon DEF DrwStored, MemInv, ApSteps
<1>8. CASE DrwStored /\ moved + 1 # Words
  <2>1. mem' = Written(req.addr, at - req.addr + 4 * moved)'
    BY <1>3, <1>4, <1>8, Zenon DEF DrwStored, Written
  <2>2. tar' = (at + 4 * moved)'
    BY <1>2, <1>8, Zenon DEF DrwStored
  <2> QED  BY <1>5, <1>8, <2>1, <2>2, Zenon DEF DrwStored, MemInv, ApSteps
<1> QED  BY <1>6, <1>7, <1>8

\* Every step keeps memory at the bytes written so far, while no access was torn.
LEMMA MemInvStep == IInv /\ [Next]_vars => MemInv'
<1> SUFFICES ASSUME IInv, [Next]_vars
             PROVE  MemInv'
  OBVIOUS
<1>1. CASE NextChunk
  <2> SUFFICES ASSUME req.kind = "write", ~torn PROVE MemInv'
    <3>1. UNCHANGED <<req, mem, torn>> /\ pc' \in {"idle", "select"}
      BY <1>1, Zenon DEF NextChunk
    <3> QED  BY <3>1, Zenon DEF IInv, MemInv, ApSteps
  <2>1. /\ UNCHANGED <<req, mem, torn>> /\ pc = "next"
        /\ \/ left = 0 /\ pc' = "idle"
           \/ pc' = "select" /\ at' = at
    BY <1>1, Zenon DEF NextChunk
  <2>2. mem = Written(req.addr, at - req.addr) /\ PartialWrite
    BY <2>1, Zenon DEF IInv, MemInv
  <2>3. left = 0 => at - req.addr = req.size
    BY <2>1, SMT DEF IInv, TypeOK, CallTypes, BlockInPage, Steps, ApSteps
  <2>4. CASE left = 0 /\ pc' = "idle"
    <3>1. mem' = Written(req.addr, req.size)'  BY <2>1, <2>2, <2>3, <2>4, Zenon
    <3> QED  BY <2>1, <2>2, <2>4, <3>1, Zenon DEF IInv, MemInv, ApSteps, PartialWrite
  <2>5. CASE pc' = "select" /\ at' = at
    BY <2>1, <2>2, <2>5, Zenon DEF IInv, MemInv, ApSteps, PartialWrite
  <2> QED  BY <2>1, <2>4, <2>5
<1>2. CASE SelectBank0
  <2>1. /\ UNCHANGED <<req, mem>> /\ (torn = torn' \/ (torn' = TRUE /\ pc' = "idle"))
        /\ \/ pc' = "idle" /\ result' = "error"
           \/ /\ pc \in {"select", "csw", "cswAck"} /\ pc' \in {"csw", "cswAck", "tar"}
              /\ UNCHANGED at
    BY <1>2, Zenon DEF SelectBank0, WriteSelect, Fail
  <2> QED  BY <2>1, FrameMem DEF IInv
<1>3. CASE WriteCsw
  <2>1. /\ UNCHANGED <<req, mem>> /\ (torn = torn' \/ (torn' = TRUE /\ pc' = "idle"))
        /\ \/ pc' = "idle" /\ result' = "error"
           \/ /\ pc \in {"select", "csw", "cswAck"} /\ pc' \in {"csw", "cswAck", "tar"}
              /\ UNCHANGED at
    BY <1>3, Zenon DEF WriteCsw, Fail
  <2> QED  BY <2>1, FrameMem DEF IInv
<1>4. CASE CswDone
  <2>1. /\ UNCHANGED <<req, mem>> /\ (torn = torn' \/ (torn' = TRUE /\ pc' = "idle"))
        /\ \/ pc' = "idle" /\ result' = "error"
           \/ /\ pc \in {"select", "csw", "cswAck"} /\ pc' \in {"csw", "cswAck", "tar"}
              /\ UNCHANGED at
    BY <1>4, Zenon DEF CswDone, Fail
  <2> QED  BY <2>1, FrameMem DEF IInv
<1>5. CASE WriteTar
  <2>1. /\ UNCHANGED <<req, mem, torn>> /\ pc = "tar"
        /\ \/ pc' = "idle" /\ result' = "error"
           \/ /\ pc' = "drw" /\ UNCHANGED <<at, moved>>
              /\ tar' = IF tselect = Bank0 THEN at ELSE tar
    BY <1>5, Zenon DEF WriteTar, Fail
  <2>2. CASE pc' = "idle" /\ result' = "error"
    BY <2>1, <2>2, FrameMem DEF IInv
  <2>3. CASE /\ pc' = "drw" /\ UNCHANGED <<at, moved>>
             /\ tar' = IF tselect = Bank0 THEN at ELSE tar
    <3> SUFFICES ASSUME req.kind = "write", ~torn PROVE MemInv'
      BY <2>1, <2>3, Zenon DEF IInv, MemInv, ApSteps
    <3>1. mem = Written(req.addr, at - req.addr) /\ PartialWrite
      BY <2>1, Zenon DEF IInv, MemInv
    <3>2. tar' = at /\ moved = 0
      BY <2>1, <2>3, AccessReady DEF IInv, MoveInv
    <3>3. at - req.addr + 4 * moved = at - req.addr /\ at + 4 * moved = at
      BY <3>2, SMT DEF IInv, TypeOK, CallTypes
    <3>4. mem' = Written(req.addr, at - req.addr + 4 * moved)' /\ tar' = (at + 4 * moved)'
      BY <2>1, <2>3, <3>1, <3>2, <3>3, Zenon
    <3> QED  BY <2>1, <2>3, <3>1, <3>4, Zenon DEF IInv, MemInv, ApSteps, PartialWrite
  <2> QED  BY <2>1, <2>2, <2>3
<1>6. CASE DrwWrite
  <2>1. /\ pc = "drw" /\ req.kind = "write" /\ UNCHANGED <<req, torn>>
        /\ \/ DrwStored
           \/ DrwBusError
           \/ pc' = "idle" /\ result' = "error" /\ mem' = mem
           \/ DrwGarbled
    BY <1>6, Zenon DEF DrwWrite, DrwStored, DrwBusError, DrwGarbled, Fail, Ok, Garbled,
       Reaches, Advance
  <2>2. CASE pc' = "idle" /\ result' = "error" /\ mem' = mem
    BY <2>1, <2>2, FrameMem DEF IInv
  <2>3. CASE torn
    BY <2>1, <2>3, Zenon DEF DrwStored, DrwBusError, DrwGarbled, MemInv, ApSteps
  <2>4. CASE ~torn
    <3>1. PartialWrite  BY <2>1, <2>4, Zenon DEF IInv, MemInv
    <3>2. CASE DrwStored
      BY <2>1, <2>4, <3>2, StoredKeeps
    <3>3. CASE DrwBusError
      <4>1. PartialWrite'
        BY <2>1, <3>1, <3>3, Zenon DEF DrwBusError, PartialWrite
      <4> QED  BY <2>1, <3>3, <4>1, Zenon DEF DrwBusError, MemInv, ApSteps
    <3>4. CASE DrwGarbled
      BY <2>1, <2>4, <3>4, StoredKeeps
    <3> QED  BY <2>1, <2>2, <3>2, <3>3, <3>4
  <2> QED  BY <2>3, <2>4
<1>7. CASE DrwRead
  <2>1. req.kind # "write" /\ UNCHANGED <<req, mem>> /\ pc' \in {"idle", "drw", "flush"}
    BY <1>7, Zenon DEF DrwRead, Fail
  <2> QED  BY <2>1, Zenon DEF IInv, MemInv, ApSteps
<1>8. CASE Flush
  <2>1. /\ UNCHANGED <<req, mem, torn, sticky>> /\ pc = "flush"
        /\ \/ pc' = "idle" /\ result' = "error"
           \/ ~sticky /\ pc' = "next" /\ at' = at + chunk
    BY <1>8, Zenon DEF Flush, Fail, Ok
  <2>2. CASE pc' = "idle" /\ result' = "error"
    BY <2>1, <2>2, FrameMem DEF IInv
  <2>3. CASE ~sticky /\ pc' = "next" /\ at' = at + chunk
    <3> SUFFICES ASSUME req.kind = "write", ~torn PROVE MemInv'
      BY <2>1, <2>3, Zenon DEF IInv, MemInv, ApSteps
    <3>1. mem = Written(req.addr, at - req.addr + chunk) /\ PartialWrite
      BY <2>1, <2>3, Zenon DEF IInv, MemInv
    <3>2. (at - req.addr) + chunk = (at + chunk) - req.addr
      BY <2>1, SMT DEF IInv, TypeOK, CallTypes, BlockInPage, Steps, ApSteps
    <3>3. mem' = Written(req.addr, at - req.addr)'
      BY <2>1, <2>3, <3>1, <3>2, Zenon
    <3> QED  BY <2>1, <2>3, <3>1, <3>3, Zenon DEF IInv, MemInv, ApSteps, PartialWrite
  <2> QED  BY <2>1, <2>2, <2>3
<1>9. CASE ApSelect
  <2>1. pc \in ApSteps /\ UNCHANGED <<req, mem>>
    BY <1>9, Zenon DEF ApSelect, WriteSelect, Fail, ApSteps
  <2> QED  BY <2>1, Zenon DEF IInv, MemInv
<1>10. CASE ApReadFirst
  <2>1. pc \in ApSteps /\ UNCHANGED <<req, mem>>
    BY <1>10, Zenon DEF ApReadFirst, ApRead, Fail, ApSteps
  <2> QED  BY <2>1, Zenon DEF IInv, MemInv
<1>11. CASE ApReadSecond
  <2>1. pc \in ApSteps /\ UNCHANGED <<req, mem>>
    BY <1>11, Zenon DEF ApReadSecond, ApRead, Fail, ApSteps
  <2> QED  BY <2>1, Zenon DEF IInv, MemInv
<1>12. CASE Connect
  <2>1. req' = NoCall /\ mem' = Found /\ pc' = "idle"
    BY <1>12, Zenon DEF Connect, Begin
  <2> QED  BY <2>1, Zenon DEF MemInv, NoCall, ApSteps
<1>13. CASE Off
  <2>1. req' = NoCall /\ mem' = Found /\ pc' = "idle"
    BY <1>13, Zenon DEF Off, Begin
  <2> QED  BY <2>1, Zenon DEF MemInv, NoCall, ApSteps
<1>14. CASE TargetReset
  <2>1. pc = "idle" /\ UNCHANGED <<pc, req, mem, torn, result>>
    BY <1>14, Zenon DEF TargetReset, IInv, CacheInv
  <2> QED  BY <2>1, Zenon DEF IInv, MemInv, ApSteps, PartialWrite
<1>15. CASE ClearErrors
  <2>1. req' = NoCall /\ mem' = Found /\ pc' = "idle"
    BY <1>15, Zenon DEF ClearErrors, Begin
  <2> QED  BY <2>1, Zenon DEF MemInv, NoCall, ApSteps
<1>16. CASE CallReadAp
  <2>1. req'.kind = "ap" /\ mem' = Found
    BY <1>16, Zenon DEF CallReadAp, Begin
  <2> QED  BY <2>1, Zenon DEF MemInv
<1>17. CASE \E r \in Requests : Call(r)
  <2>1. PICK r \in Requests : Call(r)
    BY <1>17
  <2>2. r.addr \in Nat /\ r.size \in Nat
    BY RequestsAssumption
  <2>3. pc' = "next" /\ req' = r /\ at' = r.addr /\ mem' = Found
    BY <2>1, Zenon DEF Call, Begin
  <2>4. r.addr - r.addr = 0 /\ 0 \in 0..r.size
    BY <2>2, SMT
  <2>5. mem' = Written(req.addr, 0)'
    BY <2>2, <2>3, WrittenNothing, Zenon
  <2>6. mem' = Written(req.addr, at - req.addr)' /\ PartialWrite'
    BY <2>3, <2>4, <2>5, Zenon DEF PartialWrite
  <2> QED  BY <2>3, <2>6, Zenon DEF MemInv, ApSteps
<1>18. CASE UNCHANGED vars
  BY <1>18, Zenon DEF IInv, MemInv, PartialWrite
<1> QED
  BY <1>1, <1>2, <1>3, <1>4, <1>5, <1>6, <1>7, <1>8, <1>9, <1>10,
     <1>11, <1>12, <1>13, <1>14, <1>15, <1>16, <1>17, <1>18, StepCases

-----------------------------------------------------------------------------
\* A word that is read has the bytes of memory in its lanes,
LEMMA LoadedWord ==
  ASSUME NEW x \in Nat, x % 4 = 0, NEW l \in Lanes, x + l \in Addresses
  PROVE  Loaded(Found, x, 4, Junk)[l] = x + l
<1> DEFINE from == {a \in Touched(x, 4) \intersect DOMAIN Found : a % 4 = l}
<1>1. Touched(x, 4) = x..(x + 3) /\ DOMAIN Found = Addresses
  BY SMT DEF Touched, Found
<1>2. \A a \in x..(x + 3) : a % 4 = l <=> a = x + l
  BY SMT DEF Lanes
<1>3. x + l \in x..(x + 3)  BY SMT DEF Lanes
<1>4. from = {x + l}  BY <1>1, <1>2, <1>3
<1> HIDE DEF from
<1>5. (CHOOSE a \in from : TRUE) = x + l /\ from # {}  BY <1>4
<1>6. Loaded(Found, x, 4, Junk)[l] = Found[CHOOSE a \in from : TRUE]
  BY <1>5 DEF Loaded, from
<1> QED  BY <1>5, <1>6 DEF Found

\* and a byte that is read is in the lane of its address.
LEMMA LoadedByte ==
  ASSUME NEW x \in Nat, x \in Addresses
  PROVE  Loaded(Found, x, 1, Junk)[x % 4] = x
<1> DEFINE from == {a \in Touched(x, 1) \intersect DOMAIN Found : a % 4 = x % 4}
<1>1. Touched(x, 1) = {x} /\ DOMAIN Found = Addresses
  BY SMT DEF Touched, Found
<1>2. from = {x}  BY <1>1
<1>3. x % 4 \in Lanes  BY LaneOf
<1> HIDE DEF from
<1>4. (CHOOSE a \in from : TRUE) = x /\ from # {}  BY <1>2
<1>5. Loaded(Found, x, 1, Junk)[x % 4] = Found[CHOOSE a \in from : TRUE]
  BY <1>3, <1>4 DEF Loaded, from
<1> QED  BY <1>4, <1>5 DEF Found

\* The numbers of the access in progress.
LEMMA InAccess ==
  ASSUME IInv, pc \in {"drw", "flush"}
  PROVE  /\ at \in Nat /\ left \in Nat /\ moved \in Nat /\ chunk \in Nat \ {0}
         /\ req.addr \in Nat /\ req.size \in Nat
         /\ at >= req.addr /\ at + left = req.addr + req.size /\ chunk <= left
         /\ (at % Page) + chunk <= Page
         /\ chunk = 1 => Want = 1 /\ Words = 1
         /\ chunk # 1 => Want = 4 /\ at % 4 = 0 /\ Words \in Nat /\ 4 * Words = chunk
         /\ pc = "drw" => moved < Words
         /\ pc = "flush" => moved = Words
<1>1. /\ at \in Nat /\ left \in Nat /\ moved \in Nat /\ chunk \in Nat \ {0}
      /\ req.addr \in Nat /\ req.size \in Nat
      /\ at >= req.addr /\ at + left = req.addr + req.size /\ chunk <= left
      /\ (at % Page) + chunk <= Page
      /\ chunk # 1 => at % 4 = 0 /\ chunk % 4 = 0
  BY DEF IInv, TypeOK, CallTypes, BlockInPage, Steps, ApSteps
<1>2. chunk = 1 => Want = 1 /\ Words = 1  BY DEF Want, Words
<1>3. chunk # 1 => Want = 4 /\ Words \in Nat /\ 4 * Words = chunk
  BY <1>1, WordsOf DEF Words, Want
<1> QED  BY <1>1, <1>2, <1>3 DEF IInv, MoveInv

\* The word in RDBUFF goes to its place in the buffer.
LEMMA Receives ==
  ASSUME IInv, pc \in {"drw", "flush"}, req.kind = "read", ~torn, ~sticky, moved > 0,
         buf' = Received(rdbuff, moved)
  PROVE  \A m : m = Came + Want =>
           \A j \in 0..(m - 1) : req.addr + j \in Addresses => buf'[j] = req.addr + j
<1> DEFINE k == at - req.addr
<1> SUFFICES ASSUME NEW m, m = Came + Want, NEW j \in 0..(m - 1), req.addr + j \in Addresses
             PROVE  buf'[j] = req.addr + j
  OBVIOUS
<1>0. j \in 0..((Came + Want) - 1)
  OBVIOUS
<1>1. /\ at \in Nat /\ left \in Nat /\ moved \in Nat \ {0} /\ chunk \in Nat \ {0}
      /\ req.addr \in Nat /\ req.size \in Nat
      /\ at >= req.addr /\ at + left = req.addr + req.size /\ chunk <= left
      /\ chunk = 1 => Want = 1 /\ Words = 1
      /\ chunk # 1 => Want = 4 /\ Words \in Nat /\ 4 * Words = chunk
      /\ moved <= Words
  BY InAccess, SMT
<1>2. Got(Came) /\ Delivers /\ DOMAIN buf = 0..(req.size - 1)
  BY DEF IInv, ReadInv, TypeOK, DataTypes
<1>3. Came = k + 4 * (moved - 1)  BY <1>1 DEF Came
<1>4. CASE chunk = 1
  <2>1. Came = k /\ Want = 1 /\ k \in Nat /\ k < req.size
    BY <1>1, <1>3, <1>4, SMT
  <2>2. j \in DOMAIN buf  BY <1>0, <1>1, <1>2, <2>1, SMT
  <2>3. buf'[j] = IF j = at - req.addr THEN rdbuff[at % 4] ELSE buf[j]
    BY <1>4, <2>2 DEF Received
  <2>4. CASE j = k
    <3>1. req.addr + j = at  BY <1>1, <2>4, SMT
    <3>2. rdbuff[at % 4] = at  BY <1>2, <1>4, <3>1 DEF Delivers
    <3> QED  BY <2>3, <2>4, <3>1, <3>2
  <2>5. CASE j # k
    <3>1. j \in 0..(Came - 1)  BY <1>0, <1>1, <2>1, <2>5, SMT
    <3> QED  BY <1>2, <2>3, <2>5, <3>1 DEF Got
  <2> QED  BY <2>4, <2>5
<1>5. CASE chunk # 1
  <2> DEFINE first == at - req.addr + 4 * (moved - 1)
  <2>1. Came = first /\ Want = 4 /\ first \in Nat /\ first + 4 <= req.size
    BY <1>1, <1>3, <1>5, SMT
  <2>2. j \in DOMAIN buf /\ j \in Nat /\ j < first + 4
    <3> HIDE DEF first
    <3> QED  BY <1>0, <1>1, <1>2, <2>1, SMT
  <2>3. buf'[j] = IF j \in first..(first + 3) THEN rdbuff[j - first] ELSE buf[j]
    BY <1>5, <2>2 DEF Received
  <2>4. at + 4 * (moved - 1) = req.addr + first  BY <1>1, SMT
  <2> HIDE DEF first
  <2>5. CASE j \in first..(first + 3)
    <3>1. j - first \in Lanes  BY <2>1, <2>2, <2>5, SMT DEF Lanes
    <3>2. at + 4 * (moved - 1) + (j - first) = req.addr + j
      <4>1. (req.addr + first) + (j - first) = req.addr + j  BY <1>1, <2>1, <2>2, SMT
      <4> QED  BY <2>4, <4>1
    <3>3. rdbuff[j - first] = req.addr + j
      BY <1>2, <1>5, <3>1, <3>2 DEF Delivers
    <3> QED  BY <2>3, <2>5, <3>3
  <2>6. CASE j \notin first..(first + 3)
    <3>1. j \in 0..(Came - 1)  BY <2>1, <2>2, <2>6, SMT
    <3> QED  BY <1>2, <2>3, <2>6, <3>1 DEF Got
  <2> QED  BY <2>5, <2>6
<1> QED  BY <1>4, <1>5

\* Steps of a call that leave the buffer and the cursor alone.
LEMMA FrameRead ==
  ASSUME ReadInv, UNCHANGED <<req, buf>>, torn = torn' \/ torn' = TRUE,
         \/ pc' = "idle" /\ result' = "error"
         \/ /\ pc \in {"select", "csw", "cswAck"} /\ pc' \in {"csw", "cswAck", "tar"}
            /\ UNCHANGED at
  PROVE  ReadInv'
  BY Zenon DEF ReadInv, Got

\* A DRW read asks for the next word, while the one before arrives.
LEMMA DrwReads ==
  ASSUME IInv, pc = "drw", req.kind = "read", ~torn, ~sticky,
         \/ /\ rdbuff' = Loaded(mem, tar, tcsw, Junk) /\ tar' = NextTar(tar, tcsw, Page)
            /\ UNCHANGED sticky
         \/ sticky' = TRUE,
         buf' = IF moved = 0 THEN buf ELSE Received(rdbuff, moved),
         moved' = moved + 1, pc' = IF moved + 1 = Words THEN "flush" ELSE "drw",
         UNCHANGED <<req, at, chunk>>
  PROVE  ReadInv'
<1>1. /\ at \in Nat /\ left \in Nat /\ moved \in Nat /\ chunk \in Nat \ {0}
      /\ req.addr \in Nat /\ req.size \in Nat /\ at >= req.addr
      /\ (at % Page) + chunk <= Page
      /\ chunk = 1 => Want = 1 /\ Words = 1
      /\ chunk # 1 => Want = 4 /\ at % 4 = 0 /\ Words \in Nat /\ 4 * Words = chunk
      /\ moved < Words
  BY InAccess
<1>2. chunk = 1 => moved = 0  BY <1>1, SMT
<1>3. mem = Found /\ tcsw = Want /\ tar = at + 4 * moved /\ Got(Came)
  BY AccessReady DEF IInv, MemInv, ReadInv
<1>4. Came' = at - req.addr + 4 * moved
  <2>1. moved + 1 # 0 /\ (moved + 1) - 1 = moved  BY <1>1, SMT
  <2> QED  BY <2>1 DEF Came
<1>5. Got(Came)'
  <2>1. CASE moved = 0
    <3>1. Came' = Came  BY <1>1, <1>4, <2>1, SMT DEF Came
    <3> QED  BY <1>3, <2>1, <3>1 DEF Got
  <2>2. CASE moved # 0
    <3>1. Came' = Came + Want  BY <1>1, <1>2, <1>4, <2>2, SMT DEF Came
    <3>2. moved > 0 /\ buf' = Received(rdbuff, moved)  BY <1>1, <2>2, SMT
    <3>3. \A j \in 0..(Came' - 1) : req.addr + j \in Addresses => buf'[j] = req.addr + j
      BY <3>1, <3>2, Receives
    <3> QED  BY <3>3, Zenon DEF Got
  <2> QED  BY <2>1, <2>2
<1>6. ~sticky' => Delivers'
  <2> SUFFICES ASSUME rdbuff' = Loaded(mem, tar, tcsw, Junk) PROVE Delivers'
    OBVIOUS
  <2>1. at + 4 * (moved' - 1) = tar /\ tar \in Nat  BY <1>1, <1>3, SMT
  <2>2. CASE chunk = 1
    <3>1. tar = at /\ tcsw = 1  BY <1>1, <1>2, <1>3, <2>2, SMT
    <3> QED  BY <1>1, <1>3, <2>2, <3>1, LoadedByte DEF Delivers
  <2>3. CASE chunk # 1
    <3>1. tar % 4 = 0 /\ tcsw = 4  BY <1>1, <1>3, <2>3, SMT
    <3>2. \A l \in Lanes : tar + l \in Addresses => rdbuff'[l] = tar + l
      BY <1>3, <2>1, <3>1, LoadedWord
    <3> QED  BY <2>1, <2>3, <3>2 DEF Delivers
  <2> QED  BY <2>2, <2>3
<1>7. pc' = "drw" /\ ~sticky' => tar' = (at + 4 * moved)'
  <2> SUFFICES ASSUME moved + 1 # Words, tar' = NextTar(tar, tcsw, Page)
               PROVE  tar' = at + 4 * (moved + 1)
    BY Zenon
  <2>1. chunk # 1 /\ Want = 4 /\ 4 * moved + 4 < chunk  BY <1>1, SMT
  <2> QED  BY <1>1, <1>3, <2>1, TarInBlock
<1> QED  BY <1>5, <1>6, <1>7, Zenon DEF ReadInv

\* The closing read of RDBUFF completes the access.
LEMMA FlushReads ==
  ASSUME IInv, pc = "flush", req.kind = "read", ~torn, ~sticky,
         buf' = Received(rdbuff, moved), at' = at + chunk, pc' = "next", UNCHANGED req
  PROVE  ReadInv'
<1>1. /\ at \in Nat /\ moved \in Nat /\ chunk \in Nat \ {0} /\ req.addr \in Nat
      /\ chunk = 1 => Want = 1 /\ Words = 1
      /\ chunk # 1 => Want = 4 /\ Words \in Nat /\ 4 * Words = chunk
      /\ moved = Words
  BY InAccess
<1>2. moved > 0 /\ Came + Want = (at + chunk) - req.addr
  BY <1>1, SMT DEF Came
<1>3. at' - req'.addr = Came + Want  BY <1>2, Zenon
<1>4. \A j \in 0..(at' - req'.addr - 1) :
        req.addr + j \in Addresses => buf'[j] = req.addr + j
  BY <1>2, <1>3, Receives
<1>5. Got(at - req.addr)'  BY <1>4, Zenon DEF Got
<1> QED  BY <1>5, Zenon DEF ReadInv

\* Every step keeps what of a read has arrived, while no access was torn.
LEMMA ReadInvStep == IInv /\ [Next]_vars => ReadInv'
<1> SUFFICES ASSUME IInv, [Next]_vars
             PROVE  ReadInv'
  OBVIOUS
<1>0. ReadInv  BY DEF IInv
<1>1. CASE NextChunk
  <2>1. /\ UNCHANGED <<req, buf, torn>> /\ pc = "next"
        /\ \/ left = 0 /\ pc' = "idle"
           \/ pc' = "select" /\ at' = at
    BY <1>1, Zenon DEF NextChunk
  <2>2. left = 0 => at - req.addr = req.size
    BY <2>1, SMT DEF IInv, TypeOK, CallTypes, BlockInPage, Steps, ApSteps
  <2>3. req.kind = "read" /\ ~torn => Got(at - req.addr)
    BY <1>0, <2>1, Zenon DEF ReadInv
  <2> QED  BY <2>1, <2>2, <2>3, Zenon DEF ReadInv, Got
<1>2. CASE SelectBank0
  <2>1. /\ UNCHANGED <<req, buf>> /\ (torn = torn' \/ torn' = TRUE)
        /\ \/ pc' = "idle" /\ result' = "error"
           \/ /\ pc \in {"select", "csw", "cswAck"} /\ pc' \in {"csw", "cswAck", "tar"}
              /\ UNCHANGED at
    BY <1>2, Zenon DEF SelectBank0, WriteSelect, Fail
  <2> QED  BY <1>0, <2>1, FrameRead
<1>3. CASE WriteCsw
  <2>1. /\ UNCHANGED <<req, buf>> /\ (torn = torn' \/ torn' = TRUE)
        /\ \/ pc' = "idle" /\ result' = "error"
           \/ /\ pc \in {"select", "csw", "cswAck"} /\ pc' \in {"csw", "cswAck", "tar"}
              /\ UNCHANGED at
    BY <1>3, Zenon DEF WriteCsw, Fail
  <2> QED  BY <1>0, <2>1, FrameRead
<1>4. CASE CswDone
  <2>1. /\ UNCHANGED <<req, buf>> /\ (torn = torn' \/ torn' = TRUE)
        /\ \/ pc' = "idle" /\ result' = "error"
           \/ /\ pc \in {"select", "csw", "cswAck"} /\ pc' \in {"csw", "cswAck", "tar"}
              /\ UNCHANGED at
    BY <1>4, Zenon DEF CswDone, Fail
  <2> QED  BY <1>0, <2>1, FrameRead
<1>5. CASE WriteTar
  <2>1. /\ UNCHANGED <<req, buf, torn>> /\ pc = "tar"
        /\ \/ pc' = "idle" /\ result' = "error"
           \/ /\ pc' = "drw" /\ UNCHANGED <<at, moved>>
              /\ tar' = IF tselect = Bank0 THEN at ELSE tar
    BY <1>5, Zenon DEF WriteTar, Fail
  <2>2. CASE pc' = "idle" /\ result' = "error"
    BY <1>0, <2>1, <2>2, FrameRead
  <2>3. CASE /\ pc' = "drw" /\ UNCHANGED <<at, moved>>
             /\ tar' = IF tselect = Bank0 THEN at ELSE tar
    <3> SUFFICES ASSUME req.kind = "read", ~torn PROVE ReadInv'
      BY <2>1, Zenon DEF ReadInv
    <3>1. Got(at - req.addr) /\ moved = 0 /\ tar' = at
      BY <1>0, <2>1, <2>3, AccessReady DEF ReadInv, IInv, MoveInv
    <3>2. at - req.addr + 0 = at - req.addr /\ at + 4 * 0 = at /\ ~(0 > 0)
      BY SMT DEF IInv, TypeOK, CallTypes
    <3>3. Came' = at - req.addr  BY <2>1, <2>3, <3>1, <3>2 DEF Came
    <3>4. Got(Came)'  BY <2>1, <3>1, <3>3 DEF Got
    <3> QED  BY <2>1, <2>3, <3>1, <3>2, <3>4, Zenon DEF ReadInv
  <2> QED  BY <2>1, <2>2, <2>3
<1>6. CASE DrwWrite
  <2>1. req.kind = "write" /\ req' = req  BY <1>6, Zenon DEF DrwWrite, Fail
  <2> QED  BY <2>1, Zenon DEF ReadInv
<1>7. CASE DrwRead
  <2>1. /\ pc = "drw" /\ req.kind = "read" /\ UNCHANGED <<req, torn, tselect>>
        /\ \/ pc' = "idle" /\ result' = "error" /\ UNCHANGED buf
           \/ /\ ~sticky
              /\ \/ /\ rdbuff' = IF tselect = Bank0 THEN Loaded(mem, tar, tcsw, Junk) ELSE Lane0
                    /\ tar' = IF tselect = Bank0 THEN NextTar(tar, tcsw, Page) ELSE tar
                    /\ UNCHANGED sticky
                 \/ sticky' = TRUE
              /\ buf' = IF moved = 0 THEN buf ELSE Received(rdbuff, moved)
              /\ moved' = moved + 1 /\ pc' = IF moved + 1 = Words THEN "flush" ELSE "drw"
              /\ UNCHANGED <<at, chunk>>
    BY <1>7, Zenon DEF DrwRead, Fail, Ok, Reaches, Advance
  <2>2. CASE torn  BY <2>1, <2>2, Zenon DEF ReadInv
  <2>3. CASE pc' = "idle" /\ result' = "error" /\ UNCHANGED buf
    BY <1>0, <2>1, <2>3, FrameRead
  <2>4. CASE ~torn /\ ~(pc' = "idle" /\ result' = "error" /\ UNCHANGED buf)
    <3>1. tselect = Bank0  BY <2>1, <2>4, AccessReady DEF IInv
    <3> QED  BY <2>1, <2>4, <3>1, DrwReads
  <2> QED  BY <2>2, <2>3, <2>4
<1>8. CASE Flush
  <2>1. /\ pc = "flush" /\ UNCHANGED <<req, torn>>
        /\ \/ pc' = "idle" /\ result' = "error" /\ UNCHANGED buf
           \/ /\ ~sticky /\ pc' = "next" /\ at' = at + chunk
              /\ buf' = IF req.kind = "read" THEN Received(rdbuff, moved) ELSE buf
    BY <1>8, Zenon DEF Flush, Fail, Ok
  <2>2. CASE pc' = "idle" /\ result' = "error" /\ UNCHANGED buf
    BY <1>0, <2>1, <2>2, FrameRead
  <2>3. CASE torn \/ req.kind # "read"  BY <2>1, <2>3, Zenon DEF ReadInv
  <2> QED  BY <2>1, <2>2, <2>3, FlushReads
<1>9. CASE ApSelect \/ ApReadFirst \/ ApReadSecond
  <2>1. pc \in ApSteps /\ req' = req
    BY <1>9, Zenon DEF ApSelect, ApReadFirst, ApReadSecond, ApRead, WriteSelect, Fail, ApSteps
  <2>2. req.kind = "ap"  BY <2>1 DEF IInv, MemInv
  <2> QED  BY <2>1, <2>2, Zenon DEF ReadInv
<1>10. CASE Connect \/ Off \/ ClearErrors \/ CallReadAp
  <2>1. req'.kind \in {"none", "ap"}
    BY <1>10, SMT DEF Connect, Off, ClearErrors, CallReadAp, Begin, NoCall
  <2> QED  BY <2>1, Zenon DEF ReadInv
<1>11. CASE TargetReset
  <2>1. pc = "idle" /\ UNCHANGED <<pc, req, buf, torn, result>>
    BY <1>11, Zenon DEF TargetReset, IInv, CacheInv
  <2> QED  BY <1>0, <2>1, Zenon DEF ReadInv, Got
<1>12. CASE \E r \in Requests : Call(r)
  <2>1. PICK r \in Requests : Call(r)
    BY <1>12
  <2>2. pc' = "next" /\ req' = r /\ at' = r.addr /\ r.addr \in Nat
    BY <2>1, RequestsAssumption, Zenon DEF Call, Begin
  <2>3. 0..(r.addr - r.addr - 1) = {}  BY <2>2, SMT
  <2>4. Got(at - req.addr)'  BY <2>2, <2>3 DEF Got
  <2> QED  BY <2>2, <2>4, Zenon DEF ReadInv
<1>13. CASE UNCHANGED vars
  BY <1>0, <1>13, Zenon DEF ReadInv, Got, Came, Delivers
<1> QED
  BY <1>1, <1>2, <1>3, <1>4, <1>5, <1>6, <1>7, <1>8, <1>9, <1>10, <1>11, <1>12, <1>13,
     StepCases

-----------------------------------------------------------------------------
\* The inductive invariant holds of every behaviour.
THEOREM SpecIInv == Spec => []IInv
<1>1. Init => IInv
  BY InitIInv
<1>2. IInv /\ [Next]_vars => IInv'
  BY CacheTypesStep, CallTypesStep, DataTypesStep, CacheInvStep, CacheCoherentStep,
     BlockInPageStep, MemInvStep, ReadInvStep DEF IInv, TypeOK
<1> QED
  BY <1>1, <1>2, PTL DEF Spec

\* The types of the cache, the loops, the caller's buffer and the target.
THEOREM SpecTypeOK == Spec => []TypeOK
  BY SpecIInv, PTL DEF IInv

\* dap_state says what the target's SELECT and CSW hold, as long as no write of
\* theirs was done with an error returned.
THEOREM SpecCacheCoherent == Spec => []CacheCoherent
<1>1. IInv => CacheCoherent  BY DEF IInv
<1> QED  BY <1>1, SpecIInv, PTL

\* Then every TAR and DRW transfer goes to bank 0 with the size it needs.
THEOREM SpecAccessAsMeant == Spec => []AccessAsMeant
<1>1. IInv => AccessAsMeant
  BY AccessReady DEF IInv, AccessAsMeant
<1> QED  BY <1>1, SpecIInv, PTL

\* The accesses of swd_*_memory tile the call and stay inside their page.
THEOREM SpecBlockInPage == Spec => []BlockInPage
<1>1. IInv => BlockInPage  BY DEF IInv
<1> QED  BY <1>1, SpecIInv, PTL

\* ESP_OK from swd_write_memory: all of the buffer, and nothing else, is in
\* target memory, for every address, size, page and sequence of bus errors.
THEOREM SpecOkWriteIsExact == Spec => []OkWriteIsExact
<1>1. IInv => OkWriteIsExact
  BY Zenon DEF IInv, MemInv, OkWriteIsExact
<1> QED  BY <1>1, SpecIInv, PTL

\* ESP_OK from swd_read_memory: every byte of the buffer is the one memory holds at
\* its address, although each word arrives with the transfer after its own.
THEOREM SpecOkReadIsExact == Spec => []OkReadIsExact
<1>1. IInv => OkReadIsExact
  <2> SUFFICES ASSUME IInv, pc = "idle", result = "OK", req.kind = "read", ~torn,
                      NEW i \in 0..(req.size - 1), req.addr + i \in Addresses
               PROVE  buf[i] = mem[req.addr + i]
    BY DEF OkReadIsExact
  <2>1. Got(req.size) /\ mem = Found  BY DEF IInv, ReadInv, MemInv
  <2> QED  BY <2>1 DEF Got, Found
<1> QED  BY <1>1, SpecIInv, PTL

\* During and after a write that fails, memory holds a prefix of the buffer.
THEOREM SpecPartialWrite == Spec => []PartialWrite
<1>1. IInv => PartialWrite
  BY Zenon DEF IInv, MemInv, PartialWrite
<1> QED  BY <1>1, SpecIInv, PTL
=============================================================================
