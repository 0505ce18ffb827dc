--------------------------- MODULE HDCommunicate ---------------------------
(***************************************************************************)
(* HDCommunicate: the memory that the host and the device share to pass    *)
(* commands one way and statuses the other.  Its end is two counters,      *)
(* head_cnt and tail_cnt, that let the reader copy it without a lock that  *)
(* both sides could take.  One side only Puts; the threads of the other    *)
(* side only Get, through one cache they share.                            *)
(*                                                                         *)
(* The model is the copying build (supportDevMemReg_ false): the writer    *)
(* keeps its own counters and copies them out, and a copy may fail.  With  *)
(* MaxFailures = 0 it is the mapped build too, where both are one memory.  *)
(* Accesses take effect in program order: the functions are compiled with  *)
(* O0 and the memory is mapped as device memory.  A word of the content is *)
(* the number of the Put that wrote it.                                    *)
(***************************************************************************)
EXTENDS Integers

CONSTANTS Words,         \* the words of the content
          Readers,       \* the threads that call Get
          Exclusive,     \* Get takes the lock for itself, or shares it
          MaxPuts,       \* bound: calls of Put
          MaxFailures,   \* bound: failed copies of the writer
          MaxAborts      \* bound: updates of the cache that are given up

ASSUME WordsAssumption == Words # {}
ASSUME ExclusiveAssumption == Exclusive \in BOOLEAN
ASSUME BoundAssumption ==
    MaxPuts \in Nat /\ MaxFailures \in Nat /\ MaxAborts \in Nat

VARIABLES
    headCnt, tailCnt,  \* the writer's own counters
    head, tail,        \* the counters in the shared memory
    content,           \* the content in the shared memory
    todo,              \* the words the Put in progress has still to copy
    wpc,               \* the writer: "idle" or "copy"
    cache,             \* the readers' copy of the content,
    cachedTail,        \*   of tail_cnt
    cachedHead,        \*   and of head_cnt
    rpc,               \* where each reader is
    left,              \* the words it has still to copy into the cache
    puts, failures, aborts,  \* what was used of the bounds
    snaps,             \* history: the content when tail_cnt became n
    began,             \* history: tail_cnt when the Get began
    ret                \* history: what the last Get of each reader returned

writerVars == <<headCnt, tailCnt, head, tail, content, todo, wpc, puts,
                failures, snaps>>
readerVars == <<cache, cachedTail, cachedHead, rpc, left, aborts, began, ret>>
vars == <<writerVars, readerVars>>

Contents == [Words -> 0 .. MaxPuts]
Zeroed == [w \in Words |-> 0]
Counts == 0 .. MaxPuts

(* AllocShm and AllocReadCache leave zeroes everywhere.                    *)
Init ==
    /\ headCnt = 0 /\ tailCnt = 0 /\ head = 0 /\ tail = 0
    /\ content = Zeroed /\ cache = Zeroed
    /\ cachedTail = 0 /\ cachedHead = 0
    /\ wpc = "idle" /\ todo = {}
    /\ rpc = [r \in Readers |-> "idle"]
    /\ left = [r \in Readers |-> {}]
    /\ puts = 0 /\ failures = 0 /\ aborts = 0
    /\ snaps = [n \in Counts |-> Zeroed]
    /\ began = [r \in Readers |-> 0]
    /\ ret = [r \in Readers |->
                 [value |-> Zeroed, since |-> 0, updated |-> FALSE]]

-----------------------------------------------------------------------------
(* Put, Write.                                                             *)

(* head_cnt is advanced before the content is touched.                     *)
WriteHead(ws) ==
    /\ wpc = "idle" /\ puts < MaxPuts
    /\ puts' = puts + 1
    /\ headCnt' = headCnt + 1
    /\ head' = headCnt'
    /\ wpc' = "copy"
    /\ todo' = ws
    /\ UNCHANGED <<tailCnt, tail, content, failures, snaps>>

(* The copy of head_cnt to the shared memory fails: Write returns.         *)
WriteHeadFails ==
    /\ wpc = "idle" /\ puts < MaxPuts /\ failures < MaxFailures
    /\ puts' = puts + 1
    /\ failures' = failures + 1
    /\ headCnt' = headCnt + 1
    /\ UNCHANGED <<tailCnt, head, tail, content, todo, wpc, snaps>>

(* One word of the content reaches the shared memory.                      *)
WriteWord(w) ==
    /\ wpc = "copy" /\ w \in todo
    /\ content' = [content EXCEPT ![w] = puts]
    /\ todo' = todo \ {w}
    /\ UNCHANGED <<headCnt, tailCnt, head, tail, wpc, puts, failures, snaps>>

(* The copy of the content fails half way: Write returns, and neither the  *)
(* words already copied nor head_cnt are taken back.                       *)
WriteContentFails ==
    /\ wpc = "copy" /\ todo # {} /\ failures < MaxFailures
    /\ failures' = failures + 1
    /\ wpc' = "idle"
    /\ todo' = {}
    /\ UNCHANGED <<headCnt, tailCnt, head, tail, content, puts, snaps>>

(* Mutant: the writer stays inside Write.                                  *)
WriteTail_Stays ==
    /\ wpc = "copy" /\ todo = {}
    /\ tailCnt' = tailCnt + 1
    /\ tail' = tailCnt'
    /\ snaps' = [snaps EXCEPT ![tailCnt'] = content]
    /\ UNCHANGED <<headCnt, head, content, todo, wpc, puts, failures>>

(* tail_cnt is advanced when the content is complete; the copy of it to    *)
(* the shared memory may fail.                                             *)
WriteTail ==
    /\ wpc = "copy" /\ todo = {}
    /\ tailCnt' = tailCnt + 1
    /\ tail' = tailCnt'
    /\ snaps' = [snaps EXCEPT ![tailCnt'] = content]
    /\ wpc' = "idle"
    /\ UNCHANGED <<headCnt, head, content, todo, puts, failures>>

WriteTailFails ==
    /\ wpc = "copy" /\ todo = {} /\ failures < MaxFailures
    /\ failures' = failures + 1
    /\ tailCnt' = tailCnt + 1
    /\ snaps' = [snaps EXCEPT ![tailCnt'] = content]
    /\ wpc' = "idle"
    /\ UNCHANGED <<headCnt, head, tail, content, todo, puts>>

Write ==
    \/ \E ws \in SUBSET Words \ {{}} : WriteHead(ws)
    \/ \E w \in Words : WriteWord(w)
    \/ WriteHeadFails \/ WriteContentFails \/ WriteTail \/ WriteTailFails

-----------------------------------------------------------------------------
(* Get, Read, UpdateCache.                                                 *)

(* Get takes the lock, and Read compares the cached tail_cnt with the      *)
(* shared one: when they are equal, the cache is up to date.               *)
ReadTail(r) ==
    /\ rpc[r] = "idle"
    /\ Exclusive => \A q \in Readers : rpc[q] = "idle"
    /\ began' = [began EXCEPT ![r] = tail]
    /\ rpc' = [rpc EXCEPT ![r] =
                  IF cachedTail = tail THEN "hit" ELSE "tail"]
    /\ UNCHANGED <<cache, cachedTail, cachedHead, left, aborts, ret>>

(* step1: the cached tail_cnt                                              *)
CacheTail(r) ==
    /\ rpc[r] = "tail"
    /\ cachedTail' = tail
    /\ left' = [left EXCEPT ![r] = Words]
    /\ rpc' = [rpc EXCEPT ![r] = "content"]
    /\ UNCHANGED <<cache, cachedHead, aborts, began, ret>>

(* step2: the content, a word at a time                                    *)
CacheWord(r, w) ==
    /\ rpc[r] = "content" /\ w \in left[r]
    /\ cache' = [cache EXCEPT ![w] = content[w]]
    /\ left' = [left EXCEPT ![r] = @ \ {w}]
    /\ UNCHANGED <<cachedTail, cachedHead, rpc, aborts, began, ret>>

(* Mutant: step3 reads the wrong control word.                             *)
CacheHead_Tail(r) ==
    /\ rpc[r] = "content" /\ left[r] = {}
    /\ cachedHead' = tail
    /\ rpc' = [rpc EXCEPT ![r] = "check"]
    /\ UNCHANGED <<cache, cachedTail, left, aborts, began, ret>>

(* step3: the cached head_cnt                                              *)
CacheHead(r) ==
    /\ rpc[r] = "content" /\ left[r] = {}
    /\ cachedHead' = head
    /\ rpc' = [rpc EXCEPT ![r] = "check"]
    /\ UNCHANGED <<cache, cachedTail, left, aborts, began, ret>>

(* Mutant: a repeated update starts with step2.                            *)
CheckCounts_KeepTail(r) ==
    /\ rpc[r] = "check"
    /\ rpc' = [rpc EXCEPT ![r] =
                  IF cachedHead = cachedTail THEN "updated" ELSE "content"]
    /\ UNCHANGED <<cache, cachedTail, cachedHead, left, aborts, began, ret>>

(* Equal counters end the update, different ones repeat it.                *)
CheckCounts(r) ==
    /\ rpc[r] = "check"
    /\ rpc' = [rpc EXCEPT ![r] =
                  IF cachedHead = cachedTail THEN "updated" ELSE "tail"]
    /\ UNCHANGED <<cache, cachedTail, cachedHead, left, aborts, began, ret>>

(* The counters still differ after ten seconds: Get returns E_AGAIN.       *)
UpdateTimeout(r) ==
    /\ rpc[r] = "check" /\ cachedHead # cachedTail /\ aborts < MaxAborts
    /\ aborts' = aborts + 1
    /\ rpc' = [rpc EXCEPT ![r] = "idle"]
    /\ UNCHANGED <<cache, cachedTail, cachedHead, left, began, ret>>

(* A copy into the cache fails: Get returns its error.                     *)
UpdateFails(r) ==
    /\ rpc[r] \in {"tail", "content"} /\ aborts < MaxAborts
    /\ aborts' = aborts + 1
    /\ rpc' = [rpc EXCEPT ![r] = "idle"]
    /\ UNCHANGED <<cache, cachedTail, cachedHead, left, began, ret>>

(* Read copies the cache to its caller and Get releases the lock.          *)
ReadReturns(r) ==
    /\ rpc[r] \in {"hit", "updated"}
    /\ ret' = [ret EXCEPT ![r] =
                  [value |-> cache, since |-> began[r],
                   updated |-> rpc[r] = "updated"]]
    /\ rpc' = [rpc EXCEPT ![r] = "idle"]
    /\ UNCHANGED <<cache, cachedTail, cachedHead, left, aborts, began>>

Read(r) ==
    \/ ReadTail(r) \/ CacheTail(r) \/ CacheHead(r) \/ CheckCounts(r)
    \/ \E w \in Words : CacheWord(r, w)
    \/ UpdateTimeout(r) \/ UpdateFails(r) \/ ReadReturns(r)

Put == Write /\ UNCHANGED readerVars

Get(r) == Read(r) /\ UNCHANGED writerVars

Next == Put \/ \E r \in Readers : Get(r)

Spec == Init /\ [][Next]_vars

(* A thread inside Put or Get keeps running; nobody has to call them, and  *)
(* no copy has to fail.                                                    *)
PutProgress ==
    /\ WriteTail \/ \E w \in Words : WriteWord(w)
    /\ UNCHANGED readerVars

GetProgress(r) ==
    /\ \/ CacheTail(r) \/ CacheHead(r) \/ CheckCounts(r) \/ ReadReturns(r)
       \/ \E w \in Words : CacheWord(r, w)
    /\ UNCHANGED writerVars

FairSpec ==
    /\ Spec
    /\ WF_vars(PutProgress)
    /\ \A r \in Readers : WF_vars(GetProgress(r))

-----------------------------------------------------------------------------
(* Every variable keeps its type.                                          *)
TypeOK ==
    /\ headCnt \in Nat /\ tailCnt \in Counts /\ head \in Nat /\ tail \in Counts
    /\ content \in Contents /\ cache \in Contents
    /\ cachedTail \in Counts /\ cachedHead \in Nat
    /\ wpc \in {"idle", "copy"} /\ todo \in SUBSET Words
    /\ rpc \in [Readers -> {"idle", "hit", "tail", "content", "check", "updated"}]
    /\ left \in [Readers -> SUBSET Words]
    /\ puts \in Counts /\ failures \in 0 .. MaxFailures /\ aborts \in 0 .. MaxAborts
    /\ snaps \in [Counts -> Contents]
    /\ began \in [Readers -> Counts]
    /\ ret \in [Readers ->
                   [value : Contents, since : Counts, updated : BOOLEAN]]

(* What a Get returned is the content that some complete Put left behind,  *)
(* never a mixture of two, and a Put that was complete when the Get began, *)
(* or a later one.                                                         *)
Snapshot(r) == \E n \in ret[r].since .. tail : ret[r].value = snaps[n]

(* Every Get that succeeds returns such a snapshot.                        *)
GetIsSnapshot == \A r \in Readers : Snapshot(r)

(* A Get that had to update the cache returns such a snapshot, whatever    *)
(* copies failed and whatever updates were given up before it, and so does *)
(* every Get while no update was given up.                                 *)
UpdatedGetIsSnapshot ==
    \A r \in Readers : (ret[r].updated \/ aborts = 0) => Snapshot(r)

(* A Get ends: once the writer pauses, the counters agree. Only after a    *)
(* failed Put can they differ for ever, and a Get end by its time-out.     *)
GetReturns ==
    \A r \in Readers : rpc[r] # "idle" ~> (rpc[r] = "idle" \/ failures > 0)

=============================================================================
