------------------------ MODULE HDCommunicateProofs ------------------------
(***************************************************************************)
(* With the lock held for each Get (the 950's mutex), a Get that updated   *)
(* the cache, and every Get before an update is given up, returns what one *)
(* complete Put left: for any number of words, readers, Puts and failures. *)
(***************************************************************************)
EXTENDS HDCommunicate, TLAPS

(* The provers a leaf is tried with that does not name one itself.         *)
USE ZenonT(40), SMTT(60)

(* head_cnt runs ahead of tail_cnt while a Put is under way and after a    *)
(* Put that failed; when they are equal, the content is complete.          *)
WriterInv ==
    /\ tail <= tailCnt /\ head <= headCnt /\ tailCnt <= headCnt /\ tail <= head
    /\ tailCnt <= puts
    /\ wpc = "copy" => head = headCnt /\ tailCnt < headCnt /\ tailCnt < puts
    /\ (wpc = "idle" /\ head = tail) => content = snaps[tail]

(* Get holds the lock.                                                     *)
OneAtATime ==
    \A p, q \in Readers : rpc[p] # "idle" /\ rpc[q] # "idle" => p = q

(* What a reader inside Get knows of the cache.  While head_cnt is still   *)
(* the cached tail_cnt, no Put has begun since step1, so the words copied  *)
(* are the words shared.                                                   *)
ReaderInv(r) ==
    /\ began[r] <= tail
    /\ rpc[r] \in {"content", "check", "updated"} => began[r] <= cachedTail
    /\ (rpc[r] = "content" /\ head = cachedTail) =>
           \A w \in Words \ left[r] : cache[w] = content[w]
    /\ (rpc[r] = "check" /\ cachedHead = cachedTail) => cache = snaps[cachedTail]
    /\ rpc[r] = "updated" => cache = snaps[cachedTail]
    /\ (rpc[r] = "hit" /\ aborts = 0) =>
           began[r] = cachedTail /\ cache = snaps[cachedTail]

(* Between two Gets the cache is complete, unless an update was given up.  *)
CacheInv ==
    /\ cachedTail <= tail
    /\ (aborts = 0 /\ \A r \in Readers : rpc[r] = "idle") =>
           cache = snaps[cachedTail]

IInv ==
    /\ TypeOK
    /\ WriterInv
    /\ OneAtATime
    /\ \A r \in Readers : ReaderInv(r)
    /\ CacheInv
    /\ UpdatedGetIsSnapshot

-----------------------------------------------------------------------------
(* Zeroed memory satisfies the invariant.                                  *)
LEMMA InitIInv == Init => IInv
BY WordsAssumption, BoundAssumption, SMTT(60)
DEF Init, IInv, TypeOK, WriterInv, OneAtATime, ReaderInv, CacheInv,
    UpdatedGetIsSnapshot, Snapshot, Counts, Contents, Zeroed

(* A step of Write keeps the types and the order of the counters, however  *)
(* many readers there are and whether they hold a lock or not.             *)
LEMMA PutTypes ==
    ASSUME TypeOK, WriterInv, Put
    PROVE  TypeOK' /\ WriterInv'
<1> USE BoundAssumption DEF Put, readerVars, Counts, Contents
<1>1. ASSUME NEW ws \in SUBSET Words \ {{}}, WriteHead(ws)
      PROVE  TypeOK' /\ WriterInv'
  BY <1>1, SMTT(60) DEF TypeOK, WriterInv, WriteHead
<1>2. ASSUME NEW w \in Words, WriteWord(w)
      PROVE  TypeOK' /\ WriterInv'
  <2>1. TypeOK'
    BY <1>2 DEF TypeOK, WriteWord
  <2>2. WriterInv'
    BY <1>2 DEF TypeOK, WriterInv, WriteWord
  <2> QED BY <2>1, <2>2
<1>3. CASE WriteHeadFails
  BY <1>3, SMTT(60) DEF TypeOK, WriterInv, WriteHeadFails
<1>4. CASE WriteContentFails
  <2>1. failures' \in 0 .. MaxFailures
    BY <1>4, SMTT(60) DEF TypeOK, WriteContentFails
  <2>2. TypeOK'
    BY <1>4, <2>1 DEF TypeOK, WriteContentFails
  <2>3. WriterInv'
    BY <1>4, SMTT(60) DEF TypeOK, WriterInv, WriteContentFails
  <2> QED BY <2>2, <2>3
<1>5. CASE WriteTail \/ WriteTailFails
  <2> /\ tailCnt \in Nat /\ tail \in Nat /\ head \in Nat /\ headCnt \in Nat
      /\ puts \in Nat /\ puts <= MaxPuts
      /\ snaps \in [0 .. MaxPuts -> Contents] /\ content \in Contents
    BY SMTT(60) DEF TypeOK
  <2> tail <= tailCnt /\ tailCnt < puts
    BY <1>5 DEF WriterInv, WriteTail, WriteTailFails
  <2>1. /\ tailCnt' = tailCnt + 1 /\ tailCnt' \in 0 .. MaxPuts
        /\ snaps' = [snaps EXCEPT ![tailCnt + 1] = content]
        /\ tail' \in {tail, tailCnt + 1}
        /\ UNCHANGED <<content, puts, head, headCnt>>
    BY <1>5, SMTT(60) DEF WriteTail, WriteTailFails
  <2>2. snaps' \in [0 .. MaxPuts -> Contents] /\ snaps'[tailCnt + 1] = content
    BY <2>1
  <2>3. \A n \in 0 .. tail : snaps'[n] = snaps[n]
    BY <2>1, SMTT(60)
  <2>4. TypeOK'
    BY <1>5, <2>1, <2>2, SMTT(60) DEF TypeOK, WriteTail,
       WriteTailFails
  <2>5. WriterInv'
    BY <1>5, <2>1, <2>2, <2>3, SMTT(60) DEF WriterInv, WriteTail,
       WriteTailFails
  <2> QED BY <2>4, <2>5
<1> QED BY <1>1, <1>2, <1>3, <1>4, <1>5 DEF Write

(* So does a step of Read.                                                 *)
LEMMA GetTypes ==
    ASSUME TypeOK, WriterInv, NEW r \in Readers, Get(r)
    PROVE  TypeOK' /\ WriterInv'
<1> USE BoundAssumption DEF Counts, Contents
<1>1. UNCHANGED writerVars
  BY DEF Get
<1>2. WriterInv'
  BY <1>1 DEF WriterInv, writerVars
<1>3. TypeOK'
  <2> USE <1>1 DEF TypeOK, writerVars
  <2>1. CASE ReadTail(r) BY <2>1, Zenon DEF ReadTail
  <2>2. CASE CacheTail(r) BY <2>2, Zenon DEF CacheTail
  <2>3. ASSUME NEW w \in Words, CacheWord(r, w) PROVE TypeOK'
    BY <2>3 DEF CacheWord
  <2>4. CASE CacheHead(r) BY <2>4, Zenon DEF CacheHead
  <2>5. CASE CheckCounts(r) BY <2>5, Zenon DEF CheckCounts
  <2>6. CASE UpdateTimeout(r)
    <3>1. aborts' \in 0 .. MaxAborts
      BY <2>6, SMTT(60) DEF UpdateTimeout
    <3> QED BY <2>6, <3>1 DEF UpdateTimeout
  <2>7. CASE UpdateFails(r)
    <3>1. aborts' \in 0 .. MaxAborts
      BY <2>7, SMTT(60) DEF UpdateFails
    <3> QED BY <2>7, <3>1 DEF UpdateFails
  <2>8. CASE ReadReturns(r) BY <2>8, Zenon DEF ReadReturns
  <2> QED BY <2>1, <2>2, <2>3, <2>4, <2>5, <2>6, <2>7, <2>8 DEF Get, Read
<1> QED BY <1>2, <1>3

(* Types and order of the counters are an invariant of their own: neither  *)
(* needs the lock (TypeOK).                                                *)
THEOREM CounterTypes == Spec => []TypeOK
<1>1. Init => TypeOK /\ WriterInv
  BY InitIInv DEF IInv
<1>2. TypeOK /\ WriterInv /\ [Next]_vars => TypeOK' /\ WriterInv'
  <2> SUFFICES ASSUME TypeOK, WriterInv, [Next]_vars PROVE TypeOK' /\ WriterInv'
    OBVIOUS
  <2>1. CASE UNCHANGED vars
    BY <2>1 DEF vars, writerVars, readerVars, TypeOK, WriterInv
  <2> QED BY <2>1, PutTypes, GetTypes DEF Next
<1> QED BY <1>1, <1>2, PTL DEF Spec

-----------------------------------------------------------------------------
(* A step of Write keeps the invariant: it makes the two counters differ   *)
(* before it touches the content, and equal only when the content is       *)
(* complete.                                                               *)
LEMMA PutIInv ==
    ASSUME IInv, Put
    PROVE  IInv'
<1> USE BoundAssumption DEF Put, readerVars, Counts, Contents
<1>0. TypeOK' /\ WriterInv'
  BY PutTypes DEF IInv
<1>1. ASSUME NEW ws \in SUBSET Words \ {{}}, WriteHead(ws)
      PROVE  IInv'
  <2>3. OneAtATime' /\ CacheInv'
    BY <1>1 DEF IInv, OneAtATime, CacheInv, WriteHead
  <2>4. ASSUME NEW r \in Readers PROVE ReaderInv(r)'
    BY <1>1, SMTT(60) DEF IInv, TypeOK, WriterInv, CacheInv,
       ReaderInv, WriteHead
  <2>5. UpdatedGetIsSnapshot'
    BY <1>1 DEF IInv, UpdatedGetIsSnapshot, Snapshot, WriteHead
  <2> QED BY <1>0, <2>3, <2>4, <2>5 DEF IInv
<1>2. ASSUME NEW w \in Words, WriteWord(w)
      PROVE  IInv'
  <2>3. OneAtATime' /\ CacheInv'
    BY <1>2 DEF IInv, OneAtATime, CacheInv, WriteWord
  <2>4. ASSUME NEW r \in Readers PROVE ReaderInv(r)'
    BY <1>2, SMTT(60) DEF IInv, TypeOK, WriterInv, CacheInv,
       ReaderInv, WriteWord
  <2>5. UpdatedGetIsSnapshot'
    BY <1>2 DEF IInv, UpdatedGetIsSnapshot, Snapshot, WriteWord
  <2> QED BY <1>0, <2>3, <2>4, <2>5 DEF IInv
<1>3. CASE WriteHeadFails
  BY <1>0, <1>3 DEF IInv, OneAtATime, ReaderInv, CacheInv,
              UpdatedGetIsSnapshot, Snapshot, WriteHeadFails
<1>4. CASE WriteContentFails
  <2>3. OneAtATime' /\ CacheInv' /\ \A r \in Readers : ReaderInv(r)'
    BY <1>4 DEF IInv, OneAtATime, ReaderInv, CacheInv, WriteContentFails
  <2>4. UpdatedGetIsSnapshot'
    BY <1>4 DEF IInv, UpdatedGetIsSnapshot, Snapshot, WriteContentFails
  <2> QED BY <1>0, <2>3, <2>4 DEF IInv
<1>5. CASE WriteTail \/ WriteTailFails
  <2> /\ tailCnt \in Nat /\ tail \in Nat /\ head \in Nat /\ headCnt \in Nat
      /\ puts \in Nat /\ puts <= MaxPuts /\ cachedTail \in Nat
      /\ snaps \in [0 .. MaxPuts -> Contents] /\ content \in Contents
    BY SMTT(60) DEF IInv, TypeOK
  <2> tail <= tailCnt /\ tailCnt < puts
    BY <1>5 DEF IInv, WriterInv, WriteTail, WriteTailFails
  <2>1. /\ tailCnt' = tailCnt + 1 /\ tailCnt' \in 0 .. MaxPuts
        /\ snaps' = [snaps EXCEPT ![tailCnt + 1] = content]
        /\ tail' \in {tail, tailCnt + 1} /\ tail <= tail'
        /\ UNCHANGED <<content, puts, head, headCnt>>
    <3>1. CASE WriteTail
      BY <3>1 DEF WriteTail
    <3>2. CASE WriteTailFails
      BY <3>2 DEF WriteTailFails
    <3> QED BY <1>5, <3>1, <3>2
  <2>2. \A n \in 0 .. tail : snaps'[n] = snaps[n]
    BY <2>1, SMTT(60)
  <2>5. OneAtATime' /\ CacheInv'
    BY <2>1, <2>2, SMTT(60) DEF IInv, OneAtATime, CacheInv
  <2>6. ASSUME NEW r \in Readers PROVE ReaderInv(r)'
    <3>1. began[r] \in Nat
      BY SMTT(60) DEF IInv, TypeOK
    <3> QED BY <2>1, <2>2, <3>1, SMTT(60) DEF IInv, CacheInv,
               ReaderInv
  <2>7. ASSUME NEW r \in Readers, Snapshot(r) PROVE Snapshot(r)'
    <3>1. PICK n \in ret[r].since .. tail : ret[r].value = snaps[n]
      BY <2>7 DEF Snapshot
    <3>2. ret[r].since \in Counts
      BY DEF IInv, TypeOK
    <3>3. n \in ret'[r].since .. tail' /\ ret'[r].value = snaps'[n]
      BY <2>1, <2>2, <3>1, <3>2, SMTT(60)
    <3> QED BY <3>3 DEF Snapshot
  <2>8. UpdatedGetIsSnapshot'
    BY <2>7 DEF IInv, UpdatedGetIsSnapshot
  <2> QED BY <1>0, <2>5, <2>6, <2>8 DEF IInv
<1> QED BY <1>1, <1>2, <1>3, <1>4, <1>5 DEF Write

(* A step of Read keeps it: the other readers are outside Get, and the     *)
(* reader finds equal counters only if no Put began while it copied.       *)
LEMMA GetIInv ==
    ASSUME IInv, Exclusive, NEW r \in Readers, Get(r)
    PROVE  IInv'
<1> USE BoundAssumption DEF Counts, Contents
<1> UNCHANGED writerVars
  BY DEF Get
<1>1. \A q \in Readers \ {r} : rpc[q] = "idle"
  BY DEF Get, Read, IInv, OneAtATime, ReadTail, CacheTail, CacheWord,
         CacheHead, CheckCounts, UpdateTimeout, UpdateFails, ReadReturns
<1>2. \A q \in Readers \ {r} :
          /\ rpc'[q] = "idle" /\ left'[q] = left[q]
          /\ began'[q] = began[q] /\ ret'[q] = ret[q]
  BY <1>1, SMTT(60) DEF Get, Read, IInv, TypeOK, ReadTail,
     CacheTail, CacheWord, CacheHead, CheckCounts, UpdateTimeout, UpdateFails,
     ReadReturns
<1>3. OneAtATime'
  BY <1>2 DEF IInv, OneAtATime
<1>4. ASSUME NEW q \in Readers \ {r} PROVE ReaderInv(q)'
  BY <1>2 DEF IInv, ReaderInv, writerVars
<1>5. TypeOK' /\ WriterInv'
  BY GetTypes DEF IInv
<1>6. ReaderInv(r)' /\ CacheInv'
  <2> /\ tail \in Nat /\ head \in Nat /\ cachedTail \in Nat /\ began[r] \in Nat
      /\ cachedHead \in Nat /\ aborts \in Nat /\ cachedTail <= tail
      /\ tail <= head /\ (head = tail => content = snaps[tail])
      /\ rpc \in [Readers -> {"idle", "hit", "tail", "content", "check",
                              "updated"}]
      /\ left \in [Readers -> SUBSET Words]
      /\ cache \in Contents /\ content \in Contents
      /\ began \in [Readers -> Nat]
    BY SMTT(60) DEF IInv, TypeOK, WriterInv, CacheInv
  <2> ReaderInv(r) /\ CacheInv
    BY DEF IInv
  <2> USE SMTT(60) DEF ReaderInv, CacheInv, writerVars
  <2>1. CASE ReadTail(r) BY <1>1, <2>1 DEF ReadTail
  <2>2. CASE CacheTail(r) BY <2>2 DEF CacheTail
  <2>3. ASSUME NEW w \in Words, CacheWord(r, w) PROVE ReaderInv(r)' /\ CacheInv'
    BY <2>3 DEF CacheWord
  <2>4. CASE CacheHead(r) BY <2>4 DEF CacheHead
  <2>5. CASE CheckCounts(r) BY <2>5 DEF CheckCounts
  <2>6. CASE UpdateTimeout(r) BY <2>6 DEF UpdateTimeout
  <2>7. CASE UpdateFails(r) BY <2>7 DEF UpdateFails
  <2>8. CASE ReadReturns(r) BY <2>8 DEF ReadReturns
  <2> QED BY <2>1, <2>2, <2>3, <2>4, <2>5, <2>6, <2>7, <2>8 DEF Get, Read
<1>7. UpdatedGetIsSnapshot'
  <2>1. CASE ReadReturns(r)
    <3>1. ASSUME NEW q \in Readers, (ret'[q].updated \/ aborts' = 0)
          PROVE  Snapshot(q)'
      <4>1. CASE q = r
        <5>1. /\ ret'[r].value = cache /\ ret'[r].since = began[r]
              /\ ret'[r].updated = (rpc[r] = "updated")
          BY <2>1 DEF ReadReturns, IInv, TypeOK
        <5>2. rpc[r] = "updated" \/ aborts = 0
          BY <2>1, <3>1, <4>1, <5>1 DEF ReadReturns
        <5>3. cache = snaps[cachedTail] /\ cachedTail \in began[r] .. tail
          BY <2>1, <5>2, SMTT(60) DEF ReadReturns, IInv, TypeOK,
             ReaderInv, CacheInv
        <5> QED BY <4>1, <5>1, <5>3 DEF Snapshot, writerVars
      <4>2. CASE q # r
        BY <1>2, <2>1, <3>1, <4>2, SMTT(60) DEF ReadReturns, IInv,
           UpdatedGetIsSnapshot, Snapshot, writerVars
      <4> QED BY <4>1, <4>2
    <3> QED BY <3>1 DEF UpdatedGetIsSnapshot
  <2>2. CASE ~ReadReturns(r)
    <3>1. ret' = ret /\ (aborts' = 0 => aborts = 0)
      BY <2>2, SMTT(60) DEF Get, Read, IInv, TypeOK, ReadTail,
         CacheTail, CacheWord, CacheHead, CheckCounts, UpdateTimeout,
         UpdateFails
    <3> QED BY <3>1 DEF IInv, UpdatedGetIsSnapshot, Snapshot, writerVars
  <2> QED BY <2>1, <2>2
<1> QED BY <1>3, <1>4, <1>5, <1>6, <1>7 DEF IInv

(* The counters work as the comment at the head of hdc.cc promises: with a *)
(* lock of its own, no Get that updated the cache returns a mixture of two *)
(* Puts or an outdated one, and neither does any Get until an update is    *)
(* given up; whatever copies of the writer fail.                           *)
THEOREM SnapshotTheorem ==
    ASSUME Exclusive
    PROVE  Spec => []UpdatedGetIsSnapshot
<1>1. IInv /\ [Next]_vars => IInv'
  <2> SUFFICES ASSUME IInv, [Next]_vars PROVE IInv'
    OBVIOUS
  <2>1. CASE Put BY <2>1, PutIInv
  <2>2. ASSUME NEW r \in Readers, Get(r) PROVE IInv' BY <2>2, GetIInv
  <2>3. CASE UNCHANGED vars
    BY <2>3, SMTT(60) DEF vars, writerVars, readerVars, IInv,
       TypeOK, WriterInv, OneAtATime, ReaderInv, CacheInv,
       UpdatedGetIsSnapshot, Snapshot
  <2> QED BY <2>1, <2>2, <2>3 DEF Next
<1>2. IInv => UpdatedGetIsSnapshot
  BY DEF IInv
<1> QED BY InitIInv, <1>1, <1>2, PTL DEF Spec

=============================================================================
