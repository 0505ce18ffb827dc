---------------------- MODULE RankInfoDispatcherProofs ----------------------
(***************************************************************************)
(* The broadcast of the rank table, for any number of sockets and workers  *)
(* and any length of the message: what its threads keep between them,      *)
(* whatever the clients and the rest of the service do meanwhile.          *)
(***************************************************************************)
EXTENDS RankInfoDispatcher, FiniteSetTheorems, SequenceTheorems, TLAPS

(* The provers a leaf is tried with that does not name one itself.         *)
USE ZenonT(40), SMTT(60)

(* A step of the clients, or of the service outside the broadcast.         *)
Elsewhere ==
    /\ dead' \subseteq Clients /\ faults' \in Nat
    /\ UNCHANGED <<writable, conn, sent, mpc, todo, ret, wpc, task, taskQueue,
                   armed, epollCreate, ready, stop, sendDoneCount>>

DispNext ==
    \/ \E sockets \in SUBSET Clients : PrepareResource(sockets)
    \/ Main \/ (\E w \in Workers : Worker(w)) \/ (\E c \in Clients : Drain(c))
    \/ Elsewhere

(* Where the next send of the socket c is in flight.                       *)
InTodo(c) == mpc \in {"once", "push"} /\ c \in todo

Queued(c) == \E i \in 1 .. Len(taskQueue) : taskQueue[i] = c

HeldBy(w, c) == wpc[w] \in {"task", "ctl"} /\ task[w] = c

(* One place at a time, and one time in it.                                *)
OnePlace(c) ==
    /\ \A v, w \in Workers : HeldBy(v, c) /\ HeldBy(w, c) => v = w
    /\ \A i, j \in 1 .. Len(taskQueue) : taskQueue[i] = c /\ taskQueue[j] = c => i = j
    /\ \A w \in Workers : HeldBy(w, c) => ~Queued(c) /\ c \notin armed /\ ~InTodo(c)
    /\ Queued(c) => c \notin armed /\ ~InTodo(c)
    /\ c \in armed => ~InTodo(c)

WriterInv ==
    /\ \A c \in Clients : OnePlace(c)
    /\ mpc = "none" => /\ taskQueue = <<>> /\ armed = {} /\ ~stop
                       /\ \A w \in Workers : wpc[w] = "none"
                       /\ ret = "none"
    /\ todo # {} => mpc \in {"once", "push"}
    /\ mpc = "gone" => \A w \in Workers : wpc[w] = "exit"

(* The sockets with the whole message.                                     *)
Finished == {c \in conn : IsOk(c)}

(* A send that is in flight has something left to send, and the count is   *)
(* that of the sockets with nothing left.                                  *)
CountInv ==
    /\ \A c \in Clients : InTodo(c) \/ Queued(c) \/ c \in armed =>
                             c \in conn /\ sent[c] < FrameLen
    /\ \A w \in Workers : /\ wpc[w] \in {"task", "ctl"} => task[w] \in conn
                          /\ wpc[w] = "task" => sent[task[w]] < FrameLen
    /\ \A c \in Clients : sent[c] # 0 => c \in conn
    /\ mpc = "none" => conn = {}
    /\ sendDoneCount = Cardinality(Finished)
    /\ mpc = "close" \/ ret = "success" => Finished = conn

DispInv == DispTypeOK /\ NoTaskStranded /\ WriterInv /\ CountInv

-----------------------------------------------------------------------------
(* A message has at least a unit.                                          *)
LEMMA FrameLenType == FrameLen \in Nat /\ FrameLen > 0
BY LenAssumption DEF FrameLen

(* The sockets of the broadcast can be counted.                            *)
LEMMA FinishedCount ==
    ASSUME DispTypeOK
    PROVE  /\ IsFiniteSet(conn) /\ IsFiniteSet(Finished)
           /\ Cardinality(conn) \in Nat /\ Cardinality(Finished) \in Nat
           /\ Cardinality(Finished) = Cardinality(conn) => Finished = conn
<1>1. IsFiniteSet(conn)
  BY ClientsAssumption, FS_Subset DEF DispTypeOK
<1>2. Finished \subseteq conn
  BY DEF Finished
<1>3. IsFiniteSet(Finished)
  BY <1>1, <1>2, FS_Subset
<1> QED BY <1>1, <1>2, <1>3, FS_Subset, FS_CardinalityType

(* The invariant holds before the broadcast.                               *)
LEMMA DispInitInv == DispInit /\ faults \in Nat => DispInv
<1> SUFFICES ASSUME DispInit, faults \in Nat PROVE DispInv
  OBVIOUS
<1> USE FrameLenType, ClientsAssumption DEF DispInit
<1>1. DispTypeOK
  <2>1. task \in [Workers -> Clients]
    OBVIOUS
  <2>2. sent \in [Clients -> 0 .. FrameLen]
    OBVIOUS
  <2>3. wpc \in [Workers -> WorkerPcs] /\ mpc \in MainPcs
    BY DEF MainPcs, WorkerPcs
  <2>4. taskQueue \in Seq(Clients) /\ sendDoneCount \in Nat
    OBVIOUS
  <2> QED BY <2>1, <2>2, <2>3, <2>4 DEF DispTypeOK
<1>2. NoTaskStranded
  BY DEF NoTaskStranded
<1>3. WriterInv
  BY SMTT(60) DEF WriterInv, OnePlace, HeldBy, Queued, InTodo
<1>4. CountInv
  <2>1. Finished = {} /\ Cardinality({}) = 0
    BY FS_EmptySet DEF Finished
  <2> QED BY <2>1 DEF CountInv, InTodo, Queued
<1> QED BY <1>1, <1>2, <1>3, <1>4 DEF DispInv

(* A send that moves what is left of the message makes one socket more     *)
(* finished, a shorter one none.                                           *)
LEMMA SendCounts ==
    ASSUME DispTypeOK, NEW c \in conn, sent[c] < FrameLen,
           NEW n \in 0 .. FrameLen - sent[c],
           sent' = [sent EXCEPT ![c] = @ + n], UNCHANGED conn
    PROVE  /\ sent' \in [Clients -> 0 .. FrameLen]
           /\ sent'[c] # FrameLen => Finished' = Finished
           /\ sent'[c] = FrameLen =>
                Cardinality(Finished') = Cardinality(Finished) + 1
           /\ Finished # conn
<1> USE FrameLenType DEF DispTypeOK, Finished, IsOk
<1>1. sent' \in [Clients -> 0 .. FrameLen]
  BY SMTT(60)
<1>2. sent'[c] # FrameLen => Finished' = Finished
  BY SMTT(60)
<1>3. ASSUME sent'[c] = FrameLen PROVE Finished' = Finished \cup {c} /\ c \notin Finished
  BY <1>3
<1>4. Finished # conn
  OBVIOUS
<1> QED BY <1>1, <1>2, <1>3, <1>4, FinishedCount, FS_AddElement

(* The broadcast starts with nothing sent, queued or watched.              *)
LEMMA PrepareResourceInv ==
    ASSUME DispInv, NEW sockets \in SUBSET Clients, PrepareResource(sockets)
    PROVE  DispInv'
<1> USE FrameLenType DEF DispInv, PrepareResource, Return, Fault, NoFault
<1>1. DispTypeOK'
  <2>1. wpc' \in [Workers -> WorkerPcs] /\ mpc' \in MainPcs
    BY DEF WorkerPcs, MainPcs
  <2>2. /\ conn' \subseteq Clients /\ todo' \subseteq Clients
        /\ ret' \in {"none", "success", "failed"} /\ faults' \in Nat
    BY SMTT(60) DEF DispTypeOK
  <2>3. epollCreate' \in BOOLEAN
    BY DEF DispTypeOK
  <2> QED BY <2>1, <2>2, <2>3 DEF DispTypeOK
<1>2. NoTaskStranded'
  BY DEF DispTypeOK, NoTaskStranded, WriterInv
<1>3. WriterInv'
  BY SMTT(60) DEF DispTypeOK, WriterInv, CountInv, OnePlace,
     HeldBy, Queued, InTodo
<1>4. CountInv'
  <2>1. Finished = {} /\ (\A c \in Clients : sent[c] = 0)
    BY DEF DispTypeOK, CountInv, Finished
  <2>4. Finished' = {} /\ (\A c \in Clients : sent'[c] = 0)
    BY <2>1, SMTT(60) DEF DispTypeOK, Finished, IsOk
  <2>5. sendDoneCount' = Cardinality({})
    BY <2>1 DEF CountInv
  <2>2. ret' # "success"
    BY DEF WriterInv
  <2>3. taskQueue' = <<>> /\ armed' = {}
    BY DEF WriterInv
  <2> QED BY <2>2, <2>3, <2>4, <2>5 DEF CountInv, Queued, InTodo
<1> QED BY <1>1, <1>2, <1>3, <1>4

(* The first send of a socket counts it or registers it, not both.         *)
LEMMA SendOnceInv ==
    ASSUME DispInv, NEW c \in Clients, SendOnce(c)
    PROVE  DispInv'
<1> USE FrameLenType DEF DispInv, SendOnce, Send, SendFails, Return, Fault, NoFault,
        workVars
<1>1. DispTypeOK'
  <2>1. sent' \in [Clients -> 0 .. FrameLen]
    BY SMTT(60) DEF DispTypeOK
  <2>2. /\ armed' \subseteq Clients /\ todo' \subseteq Clients /\ writable' \subseteq Clients
        /\ sendDoneCount' \in Nat /\ faults' \in Nat
    BY SMTT(60) DEF DispTypeOK
  <2>3. ret' \in {"none", "success", "failed"} /\ mpc' \in MainPcs
    BY DEF DispTypeOK, MainPcs
  <2> QED BY <2>1, <2>2, <2>3 DEF DispTypeOK
<1>2. NoTaskStranded'
  BY DEF DispTypeOK, NoTaskStranded, WriterInv
<1>3. WriterInv'
  BY SMTT(60) DEF DispTypeOK, WriterInv, CountInv, OnePlace,
     HeldBy, Queued, InTodo
<1>4. CountInv'
  <2>1. c \in conn /\ sent[c] < FrameLen
    BY DEF CountInv, InTodo
  <2>2. CASE Send(c, 0) /\ mpc' = mpc
    <3>1. PICK n \in 0 .. FrameLen - sent[c] : sent' = [sent EXCEPT ![c] = @ + n]
      BY <2>2
    <3>2. /\ sent'[c] # FrameLen => Finished' = Finished
          /\ sent'[c] = FrameLen => Cardinality(Finished') = Cardinality(Finished) + 1
          /\ Finished # conn
      BY <2>1, <3>1, SendCounts
    <3> QED BY <2>1, <2>2, <3>1, <3>2, SMTT(60) DEF DispTypeOK,
               CountInv, WriterInv, OnePlace, HeldBy, Queued, InTodo
  <2>3. CASE mpc' = "stop"
    <3>1. Finished' = Finished
      BY <2>1, <2>3, SMTT(60) DEF DispTypeOK, Finished, IsOk
    <3> QED BY <2>1, <2>3, <3>1, SMTT(60) DEF DispTypeOK,
               CountInv, WriterInv, OnePlace, HeldBy, Queued, InTodo
  <2> QED BY <2>2, <2>3
<1> QED BY <1>1, <1>2, <1>3, <1>4

(* The loop is left for success when every socket has been counted.        *)
LEMMA LoopHeadInv ==
    ASSUME DispInv, LoopHead
    PROVE  DispInv'
<1> USE FrameLenType DEF DispInv, LoopHead, Return, Fault, NoFault, netVars, workVars
<1>1. DispTypeOK'
  BY SMTT(60) DEF DispTypeOK, MainPcs, WorkerPcs
<1>2. NoTaskStranded'
  BY DEF DispTypeOK, NoTaskStranded, WriterInv
<1>3. WriterInv'
  BY SMTT(60) DEF DispTypeOK, WriterInv, CountInv, OnePlace,
     HeldBy, Queued, InTodo
<1>4. CountInv'
  <2>1. Finished' = Finished
    BY DEF Finished, IsOk
  <2> QED BY <2>1, FinishedCount DEF DispTypeOK, WriterInv, CountInv, Queued,
             InTodo
<1> QED BY <1>1, <1>2, <1>3, <1>4

(* A reported socket is no longer watched: EPOLLONESHOT.                   *)
LEMMA WaitEventsInv ==
    ASSUME DispInv, WaitEvents
    PROVE  DispInv'
<1> USE FrameLenType DEF DispInv, WaitEvents, Return, Fault, NoFault, workVars
<1>1. DispTypeOK'
  BY SMTT(60) DEF DispTypeOK, MainPcs, WorkerPcs
<1>2. NoTaskStranded'
  BY DEF DispTypeOK, NoTaskStranded, WriterInv
<1>3. WriterInv'
  BY SMTT(60) DEF DispTypeOK, WriterInv, CountInv, OnePlace,
     HeldBy, Queued, InTodo
<1>4. CountInv'
  <2>1. Finished' = Finished
    BY DEF Finished, IsOk
  <2> QED BY <2>1, FinishedCount DEF DispTypeOK, WriterInv, CountInv, Queued,
             InTodo
<1> QED BY <1>1, <1>2, <1>3, <1>4

(* An event becomes one task.                                              *)
LEMMA PushTaskInv ==
    ASSUME DispInv, NEW c \in Clients, PushTask(c)
    PROVE  DispInv'
<1> USE FrameLenType DEF DispInv, PushTask, netVars, workVars
<1>1. DispTypeOK'
  BY SMTT(60) DEF DispTypeOK, MainPcs, WorkerPcs
<1>2. NoTaskStranded'
  BY DEF DispTypeOK, NoTaskStranded, WriterInv
<1>3. WriterInv'
  BY SMTT(60) DEF DispTypeOK, WriterInv, CountInv, OnePlace,
     HeldBy, Queued, InTodo
<1>4. CountInv'
  <2>1. Finished' = Finished
    BY DEF Finished, IsOk
  <2> QED BY <2>1, FinishedCount, SMTT(60) DEF DispTypeOK,
             WriterInv, CountInv, Queued, InTodo
<1> QED BY <1>1, <1>2, <1>3, <1>4

(* After the wake no worker sleeps and ready_ is set.                      *)
LEMMA WakeAfterPushInv ==
    ASSUME DispInv, WakeAfterPush
    PROVE  DispInv'
<1> USE FrameLenType DEF DispInv, WakeAfterPush, WakeWoker, netVars
<1>1. DispTypeOK'
  BY DEF DispTypeOK, MainPcs, WorkerPcs
<1>2. NoTaskStranded'
  BY DEF DispTypeOK, NoTaskStranded, WriterInv
<1>3. WriterInv'
  BY SMTT(60) DEF DispTypeOK, WriterInv, CountInv, OnePlace,
     HeldBy, Queued, InTodo
<1>4. CountInv'
  <2>1. Finished' = Finished
    BY DEF Finished, IsOk
  <2> QED BY <2>1, FinishedCount DEF DispTypeOK, WriterInv, CountInv, Queued,
             InTodo
<1> QED BY <1>1, <1>2, <1>3, <1>4

(* Closing the handle does not change what has been sent.                  *)
LEMMA CloseEpollFdInv ==
    ASSUME DispInv, CloseEpollFd
    PROVE  DispInv'
<1> USE FrameLenType DEF DispInv, CloseEpollFd, Return, Fault, NoFault, netVars,
        workVars
<1>1. DispTypeOK'
  <2>1. epollCreate' \in BOOLEAN
    BY DEF DispTypeOK
  <2> QED BY <2>1, SMTT(60) DEF DispTypeOK, MainPcs
<1>2. NoTaskStranded'
  BY DEF DispTypeOK, NoTaskStranded, WriterInv
<1>3. WriterInv'
  BY SMTT(60) DEF DispTypeOK, WriterInv, CountInv, OnePlace,
     HeldBy, Queued, InTodo
<1>4. CountInv'
  <2>1. Finished' = Finished
    BY DEF Finished, IsOk
  <2> QED BY <2>1, FinishedCount DEF DispTypeOK, WriterInv, CountInv, Queued,
             InTodo
<1> QED BY <1>1, <1>2, <1>3, <1>4

(* Raising stop_ does not touch the queue.                                 *)
LEMMA CleanStopInv ==
    ASSUME DispInv, CleanStop
    PROVE  DispInv'
<1> USE FrameLenType DEF DispInv, CleanStop, netVars, workVars
<1>1. DispTypeOK'
  BY DEF DispTypeOK, MainPcs, WorkerPcs
<1>2. NoTaskStranded'
  BY DEF DispTypeOK, NoTaskStranded, WriterInv
<1>3. WriterInv'
  BY SMTT(60) DEF DispTypeOK, WriterInv, CountInv, OnePlace,
     HeldBy, Queued, InTodo
<1>4. CountInv'
  <2>1. Finished' = Finished
    BY DEF Finished, IsOk
  <2> QED BY <2>1, FinishedCount DEF DispTypeOK, WriterInv, CountInv, Queued,
             InTodo
<1> QED BY <1>1, <1>2, <1>3, <1>4

(* The last wake leaves no worker asleep.                                  *)
LEMMA CleanWakeInv ==
    ASSUME DispInv, CleanWake
    PROVE  DispInv'
<1> USE FrameLenType DEF DispInv, CleanWake, WakeWoker, netVars
<1>1. DispTypeOK'
  BY DEF DispTypeOK, MainPcs, WorkerPcs
<1>2. NoTaskStranded'
  BY DEF DispTypeOK, NoTaskStranded, WriterInv
<1>3. WriterInv'
  BY SMTT(60) DEF DispTypeOK, WriterInv, CountInv, OnePlace,
     HeldBy, Queued, InTodo
<1>4. CountInv'
  <2>1. Finished' = Finished
    BY DEF Finished, IsOk
  <2> QED BY <2>1, FinishedCount DEF DispTypeOK, WriterInv, CountInv, Queued,
             InTodo
<1> QED BY <1>1, <1>2, <1>3, <1>4

(* The dispatcher is gone when its workers have ended.                     *)
LEMMA CleanJoinInv ==
    ASSUME DispInv, CleanJoin
    PROVE  DispInv'
<1> USE FrameLenType DEF DispInv, CleanJoin, netVars, workVars
<1>1. DispTypeOK'
  BY DEF DispTypeOK, MainPcs, WorkerPcs
<1>2. NoTaskStranded'
  BY DEF DispTypeOK, NoTaskStranded, WriterInv
<1>3. WriterInv'
  BY SMTT(60) DEF DispTypeOK, WriterInv, CountInv, OnePlace,
     HeldBy, Queued, InTodo
<1>4. CountInv'
  <2>1. Finished' = Finished
    BY DEF Finished, IsOk
  <2> QED BY <2>1, FinishedCount DEF DispTypeOK, WriterInv, CountInv, Queued,
             InTodo
<1> QED BY <1>1, <1>2, <1>3, <1>4

(* The head of the worker's loop keeps the invariant.                      *)
LEMMA WorkerLoopInv ==
    ASSUME DispInv, NEW w \in Workers, WorkerLoop(w)
    PROVE  DispInv'
<1> USE FrameLenType DEF DispInv, WorkerLoop, Goto, netVars, mainVars
<1>1. DispTypeOK'
  BY DEF DispTypeOK, MainPcs, WorkerPcs
<1>2. NoTaskStranded'
  BY DEF DispTypeOK, NoTaskStranded, WriterInv
<1>3. WriterInv'
  BY SMTT(60) DEF DispTypeOK, WriterInv, CountInv, OnePlace,
     HeldBy, Queued, InTodo
<1>4. CountInv'
  <2>1. Finished' = Finished
    BY DEF Finished, IsOk
  <2> QED BY <2>1, FinishedCount DEF DispTypeOK, WriterInv, CountInv, Queued,
             InTodo
<1> QED BY <1>1, <1>2, <1>3, <1>4

(* A worker goes to sleep only while ready_ is clear, and then the queue   *)
(* is empty or about to be announced.                                      *)
LEMMA WorkerWaitInv ==
    ASSUME DispInv, NEW w \in Workers, WorkerWait(w)
    PROVE  DispInv'
<1> USE FrameLenType DEF DispInv, WorkerWait, Goto, netVars, mainVars
<1>1. DispTypeOK'
  BY DEF DispTypeOK, MainPcs, WorkerPcs
<1>2. NoTaskStranded'
  BY DEF DispTypeOK, NoTaskStranded, WriterInv
<1>3. WriterInv'
  BY SMTT(60) DEF DispTypeOK, WriterInv, CountInv, OnePlace,
     HeldBy, Queued, InTodo
<1>4. CountInv'
  <2>1. Finished' = Finished
    BY DEF Finished, IsOk
  <2> QED BY <2>1, FinishedCount DEF DispTypeOK, WriterInv, CountInv, Queued,
             InTodo
<1> QED BY <1>1, <1>2, <1>3, <1>4

(* A task goes from the queue to one worker; ready_ is cleared with the    *)
(* queue empty.                                                            *)
LEMMA GetTaskInv ==
    ASSUME DispInv, NEW w \in Workers, GetTask(w)
    PROVE  DispInv'
<1> USE FrameLenType DEF DispInv, Goto, netVars, mainVars
<1>1. CASE taskQueue = <<>>
  <2> USE <1>1 DEF GetTask
  <2>1. DispTypeOK'
    BY DEF DispTypeOK, WorkerPcs
  <2>2. NoTaskStranded'
    BY DEF NoTaskStranded
  <2>3. WriterInv'
    BY SMTT(60) DEF DispTypeOK, WriterInv, OnePlace, HeldBy,
       Queued, InTodo
  <2>4. CountInv'
    BY SMTT(60) DEF DispTypeOK, CountInv, Finished, IsOk, Queued,
       InTodo
  <2> QED BY <2>1, <2>2, <2>3, <2>4
<1>2. CASE taskQueue # <<>>
  <2> DEFINE c == taskQueue[1]
  <2>1. c \in Clients /\ Queued(c) /\ Len(taskQueue) \in Nat
    BY <1>2 DEF DispTypeOK, Queued
  <2>2. /\ taskQueue' \in Seq(Clients) /\ Len(taskQueue') = Len(taskQueue) - 1
        /\ \A i \in 1 .. Len(taskQueue') : taskQueue'[i] = taskQueue[i + 1]
    <3>1. taskQueue' = Tail(taskQueue) /\ taskQueue \in Seq(Clients)
      BY <1>2 DEF DispTypeOK, GetTask
    <3> QED BY <1>2, <3>1, HeadTailProperties
  <2>3. /\ task' = [task EXCEPT ![w] = c] /\ wpc' = [wpc EXCEPT ![w] = "task"]
        /\ wpc[w] = "drain"
        /\ UNCHANGED <<ready, faults, dead, writable, sent, armed, conn, mpc, todo, ret,
                       epollCreate, stop, sendDoneCount>>
    BY <1>2, SMTT(60) DEF GetTask
  <2>4. DispTypeOK'
    BY <2>1, <2>2, <2>3 DEF DispTypeOK, WorkerPcs
  <2>5. NoTaskStranded'
    BY <1>2, <2>3 DEF DispTypeOK, NoTaskStranded
  <2>6. \A d \in Clients : Queued(d)' => Queued(d) /\ d # c
    <3> SUFFICES ASSUME NEW d \in Clients, Queued(d)' PROVE Queued(d) /\ d # c
      OBVIOUS
    <3>1. PICK i \in 1 .. Len(taskQueue') : taskQueue'[i] = d
      BY DEF Queued
    <3>2. i + 1 \in 1 .. Len(taskQueue) /\ taskQueue[i + 1] = d /\ i + 1 # 1
      BY <2>1, <2>2, <3>1
    <3>3. OnePlace(c) /\ 1 \in 1 .. Len(taskQueue)
      BY <2>1, <3>2, SMTT(60) DEF WriterInv
    <3> QED BY <3>2, <3>3 DEF Queued, OnePlace
  <2>7. WriterInv'
    <3>1. ASSUME NEW d \in Clients PROVE OnePlace(d)'
      <4>1. OnePlace(d)
        BY DEF WriterInv
      <4>2. ASSUME NEW v \in Workers, HeldBy(v, d)'
            PROVE  (v = w /\ d = c) \/ (v # w /\ HeldBy(v, d))
        BY <2>3, <4>2 DEF DispTypeOK, HeldBy
      <4>3. \A v, u \in Workers : HeldBy(v, d)' /\ HeldBy(u, d)' => v = u
        BY <2>1, <4>1, <4>2 DEF OnePlace
      <4>4. \A i, j \in 1 .. Len(taskQueue') :
               taskQueue'[i] = d /\ taskQueue'[j] = d => i = j
        <5> SUFFICES ASSUME NEW i \in 1 .. Len(taskQueue'), NEW j \in 1 .. Len(taskQueue'),
                            taskQueue'[i] = d, taskQueue'[j] = d
                     PROVE  i = j
          OBVIOUS
        <5>1. /\ i + 1 \in 1 .. Len(taskQueue) /\ taskQueue[i + 1] = d
              /\ j + 1 \in 1 .. Len(taskQueue) /\ taskQueue[j + 1] = d
          BY <2>1, <2>2
        <5> QED BY <4>1, <5>1 DEF OnePlace
      <4>5. /\ InTodo(d)' <=> InTodo(d)
            /\ armed' = armed
        BY <2>3 DEF InTodo
      <4> QED BY <2>1, <2>6, <4>1, <4>2, <4>3, <4>4, <4>5 DEF OnePlace
    <3> QED BY <1>2, <2>3, <3>1 DEF DispTypeOK, WriterInv
  <2>8. CountInv'
    BY <2>1, <2>3, <2>6 DEF DispTypeOK, CountInv, Finished, IsOk, InTodo
  <2> QED BY <2>4, <2>5, <2>7, <2>8
<1> QED BY <1>1, <1>2

(* The worker that holds the task of a socket is the only one that writes  *)
(* to it, so it counts the socket once.                                    *)
LEMMA SendEventInv ==
    ASSUME DispInv, NEW w \in Workers, SendEvent(w)
    PROVE  DispInv'
<1> USE FrameLenType DEF DispInv, SendEvent, Send, SendFails, Fault, NoFault, Goto,
        mainVars
<1>1. DispTypeOK'
  <2>1. task[w] \in Clients
    BY DEF DispTypeOK
  <2>2. sent' \in [Clients -> 0 .. FrameLen]
    <3>1. sent[task[w]] \in 0 .. FrameLen
      BY <2>1 DEF DispTypeOK
    <3>2. CASE Send(task[w], 1)
      <4>1. PICK n \in 1 .. FrameLen - sent[task[w]] :
                   sent' = [sent EXCEPT ![task[w]] = @ + n]
        BY <3>2
      <4>2. sent[task[w]] + n \in 0 .. FrameLen
        BY <3>1, SMTT(60)
      <4> QED BY <4>1, <4>2 DEF DispTypeOK
    <3>3. CASE SendFails(task[w])
      BY <3>3 DEF DispTypeOK
    <3> QED BY <3>2, <3>3
  <2>3. writable' \subseteq Clients /\ sendDoneCount' \in Nat /\ faults' \in Nat
    BY <2>1, SMTT(60) DEF DispTypeOK
  <2>4. wpc' \in [Workers -> WorkerPcs]
    BY DEF DispTypeOK, WorkerPcs
  <2>5. stop' \in BOOLEAN
    BY DEF DispTypeOK
  <2> QED BY <2>2, <2>3, <2>4, <2>5 DEF DispTypeOK
<1>2. NoTaskStranded'
  BY DEF DispTypeOK, NoTaskStranded, WriterInv
<1>3. WriterInv'
  BY SMTT(60) DEF DispTypeOK, WriterInv, CountInv, OnePlace,
     HeldBy, Queued, InTodo
<1>4. CountInv'
  <2> DEFINE c == task[w]
  <2>1. c \in Clients /\ c \in conn /\ sent[c] < FrameLen /\ HeldBy(w, c)
    BY DEF DispTypeOK, CountInv, HeldBy
  <2>2. CASE Send(c, 1) /\ wpc' = [wpc EXCEPT ![w] = "ctl"]
    <3>0. PICK m \in 1 .. FrameLen - sent[c] : sent' = [sent EXCEPT ![c] = @ + m]
      BY <2>2 DEF Send
    <3>1. PICK n \in 0 .. FrameLen - sent[c] : sent' = [sent EXCEPT ![c] = @ + n]
      <4>1. m \in 0 .. FrameLen - sent[c]
        BY <2>1, SMTT(60) DEF DispTypeOK
      <4> QED BY <3>0, <4>1
    <3>2. /\ sent'[c] # FrameLen => Finished' = Finished
          /\ sent'[c] = FrameLen => Cardinality(Finished') = Cardinality(Finished) + 1
          /\ Finished # conn
      BY <2>1, <3>1, SendCounts
    <3> QED BY <2>1, <2>2, <3>1, <3>2, SMTT(60) DEF DispTypeOK,
               CountInv, WriterInv, OnePlace, HeldBy, Queued, InTodo
  <2>3. CASE SendFails(c) /\ wpc' = [wpc EXCEPT ![w] = "drain"]
    BY <2>3 DEF DispTypeOK, CountInv, Finished, IsOk, Queued, InTodo
  <2> QED BY <2>2, <2>3
<1> QED BY <1>1, <1>2, <1>3, <1>4

(* A socket is watched again when its worker has let go of it.             *)
LEMMA CtlEventInv ==
    ASSUME DispInv, NEW w \in Workers, CtlEvent(w)
    PROVE  DispInv'
<1> USE FrameLenType DEF DispInv, CtlEvent, IsOk, Fault, NoFault, Goto, mainVars
<1>1. DispTypeOK'
  <2>1. armed' \subseteq Clients /\ faults' \in Nat
    BY DEF DispTypeOK
  <2>2. wpc' \in [Workers -> WorkerPcs]
    BY DEF DispTypeOK, WorkerPcs
  <2>3. stop' \in BOOLEAN
    BY DEF DispTypeOK
  <2> QED BY <2>1, <2>2, <2>3 DEF DispTypeOK
<1>2. NoTaskStranded'
  BY DEF DispTypeOK, NoTaskStranded, WriterInv
<1>3. WriterInv'
  BY SMTT(60) DEF DispTypeOK, WriterInv, CountInv, OnePlace,
     HeldBy, Queued, InTodo
<1>4. CountInv'
  <2>1. Finished' = Finished
    BY DEF Finished, IsOk
  <2> QED BY <2>1, FinishedCount, SMTT(60) DEF DispTypeOK,
             WriterInv, CountInv, Queued, InTodo
<1> QED BY <1>1, <1>2, <1>3, <1>4

(* The peer reads: only the room in the buffer changes.                    *)
LEMMA DrainInv ==
    ASSUME DispInv, NEW c \in Clients, Drain(c)
    PROVE  DispInv'
<1> USE FrameLenType DEF DispInv, Drain, mainVars, workVars
<1>1. DispTypeOK'
  BY DEF DispTypeOK, MainPcs, WorkerPcs
<1>2. NoTaskStranded'
  BY DEF DispTypeOK, NoTaskStranded, WriterInv
<1>3. WriterInv'
  BY SMTT(60) DEF DispTypeOK, WriterInv, CountInv, OnePlace,
     HeldBy, Queued, InTodo
<1>4. CountInv'
  <2>1. Finished' = Finished
    BY DEF Finished, IsOk
  <2> QED BY <2>1, FinishedCount DEF DispTypeOK, WriterInv, CountInv, Queued,
             InTodo
<1> QED BY <1>1, <1>2, <1>3, <1>4

(* Nothing outside the dispatcher touches its state but the death of a     *)
(* peer.                                                                   *)
LEMMA ElsewhereInv ==
    ASSUME DispInv, Elsewhere
    PROVE  DispInv'
<1> USE FrameLenType DEF DispInv, Elsewhere
<1>1. DispTypeOK'
  BY DEF DispTypeOK, MainPcs, WorkerPcs
<1>2. NoTaskStranded'
  BY DEF DispTypeOK, NoTaskStranded, WriterInv
<1>3. WriterInv'
  BY SMTT(60) DEF DispTypeOK, WriterInv, CountInv, OnePlace,
     HeldBy, Queued, InTodo
<1>4. CountInv'
  <2>1. Finished' = Finished
    BY DEF Finished, IsOk
  <2> QED BY <2>1, FinishedCount DEF DispTypeOK, WriterInv, CountInv, Queued,
             InTodo
<1> QED BY <1>1, <1>2, <1>3, <1>4

(* Every step keeps the invariant of the broadcast.                        *)
LEMMA DispNextInv == DispInv /\ DispNext => DispInv'
BY PrepareResourceInv, SendOnceInv, LoopHeadInv, WaitEventsInv, PushTaskInv,
   WakeAfterPushInv, CloseEpollFdInv, CleanStopInv, CleanWakeInv,
   CleanJoinInv, WorkerLoopInv, WorkerWaitInv, GetTaskInv, SendEventInv,
   CtlEventInv, DrainInv, ElsewhereInv DEF DispNext, Main, Worker

(* One place at a time for the next send of a socket: never two writers.   *)
LEMMA OneWriter == DispInv => OneWriterPerSocket
<1> SUFFICES ASSUME DispInv, NEW c \in Clients PROVE Copies(c) <= 1
  BY DEF OneWriterPerSocket
<1> DEFINE Q == {i \in DOMAIN taskQueue : taskQueue[i] = c}
<1>1. OnePlace(c) /\ DOMAIN taskQueue = 1 .. Len(taskQueue)
  BY SMTT(60) DEF DispInv, DispTypeOK, WriterInv
<1>2. Holders(c) = {} \/ \E w \in Workers : Holders(c) = {w} /\ HeldBy(w, c)
  <2>1. ASSUME NEW w \in Workers, HeldBy(w, c) PROVE Holders(c) = {w}
    <3>1. \A v \in Workers : HeldBy(v, c) <=> v = w
      BY <1>1, <2>1 DEF OnePlace
    <3> QED BY <3>1 DEF Holders, HeldBy
  <2>2. (\A w \in Workers : ~HeldBy(w, c)) => Holders(c) = {}
    BY DEF Holders, HeldBy
  <2> QED BY <2>1, <2>2
<1>3. Q = {} \/ \E i \in 1 .. Len(taskQueue) : Q = {i}
  BY <1>1 DEF OnePlace
<1>4. Q # {} => Queued(c)
  BY <1>1 DEF Queued
<1>5. /\ Cardinality(Holders(c)) = IF Holders(c) = {} THEN 0 ELSE 1
      /\ Cardinality(Q) = IF Q = {} THEN 0 ELSE 1
  BY <1>2, <1>3, FS_EmptySet, FS_Singleton
<1> QED BY <1>1, <1>2, <1>4, <1>5, SMTT(60) DEF Copies, OnePlace,
           InTodo

(* Success is returned with the whole message in every socket.             *)
LEMMA SuccessSent == DispInv => SuccessMeansSent
BY DEF DispInv, CountInv, Finished, SuccessMeansSent

=============================================================================
