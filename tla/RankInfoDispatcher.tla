------------------------ MODULE RankInfoDispatcher ------------------------
(***************************************************************************)
(* RankInfoDispatcher: the broadcast of the rank table to every connected  *)
(* rank.  The main thread (the detect service's) tries every socket once,  *)
(* registers the unfinished ones with epoll, and turns every event into a  *)
(* task for a pool of workers.  Sends are not blocking: one call moves     *)
(* some of the header and body that are left.                              *)
(*                                                                         *)
(* A socket is named by the client at its other end.  Nothing about the    *)
(* table matters here but its length, so a message is HeaderLen + BodyLen  *)
(* units and sent[c] says how many of them have entered the socket of c.   *)
(***************************************************************************)
EXTENDS Integers, Sequences, FiniteSets

CONSTANTS
    Clients,     \* the ranks that may connect
    Workers,     \* RunWorkerThread threads: 1 to 4, by the number of ranks
    HeaderLen,   \* units of the length header
    BodyLen      \* units of the serialised table

ASSUME ClientsAssumption == IsFiniteSet(Clients) /\ Clients # {}
ASSUME WorkersAssumption == Workers # {}
ASSUME LenAssumption == HeaderLen \in Nat \ {0} /\ BodyLen \in Nat \ {0}

VARIABLES
    faults,      \* bound: time-outs, crashes and failing calls still to come
    dead,        \* clients whose end of the socket is gone
    writable,    \* sockets whose send buffer has room
    conn,        \* connSockets_: the sockets of the broadcast
    sent,        \* txState.headerSent + txState.bodySent of every socket
    mpc,         \* where the main thread is
    todo,        \* the contexts SendOnce, or the events ProcessSend, has left
    ret,         \* what BroadcastRankTable returned
    wpc,         \* where every worker is
    task,        \* the socket whose task a worker runs
    taskQueue,   \* taskQueue_
    armed,       \* sockets epoll watches and has not reported yet
    epollCreate, \* epollCreate_: the epoll handle exists
    ready,       \* ready_
    stop,        \* stop_
    sendDoneCount

mainVars == <<mpc, todo, ret>>
workVars == <<wpc, task>>
netVars == <<dead, writable, sent, armed>>
dispVars == <<faults, dead, writable, conn, sent, mpc, todo, ret, wpc, task,
              taskQueue, armed, epollCreate, ready, stop, sendDoneCount>>

FrameLen == HeaderLen + BodyLen

Fault == faults > 0 /\ faults' = faults - 1

NoFault == UNCHANGED faults

(* SendState::IsOk.                                                        *)
IsOk(c) == sent[c] = FrameLen

DispInit ==
    /\ dead = {} /\ writable = Clients /\ conn = {}
    /\ sent = [c \in Clients |-> 0]
    /\ mpc = "none" /\ todo = {} /\ ret = "none"
    /\ wpc = [w \in Workers |-> "none"]
    /\ task = [w \in Workers |-> CHOOSE c \in Clients : TRUE]
    /\ taskQueue = <<>> /\ armed = {} /\ epollCreate = FALSE
    /\ ready = FALSE /\ stop = FALSE /\ sendDoneCount = 0

\* Mutant: SendHelper takes the length of the buffer for what is left of it.
Send_Whole(c, least) ==
    /\ \E n \in least .. FrameLen : sent' = [sent EXCEPT ![c] = @ + n]
    /\ writable' = IF sent'[c] = FrameLen THEN writable ELSE writable \ {c}
    /\ NoFault

(* SendState::Send: what is left of the header, then as much of the body   *)
(* as the buffer takes, at least a unit of it after an event.  A short     *)
(* write means the buffer is full.  A peer that is gone may still let the  *)
(* call pass.                                                              *)
Send(c, least) ==
    /\ \E n \in least .. FrameLen - sent[c] : sent' = [sent EXCEPT ![c] = @ + n]
    /\ writable' = IF sent'[c] = FrameLen THEN writable ELSE writable \ {c}
    /\ NoFault

SendFails(c) ==
    /\ IF c \in dead THEN NoFault ELSE Fault
    /\ UNCHANGED <<sent, writable>>

(* The peer reads and the buffer has room again.                           *)
Drain(c) ==
    /\ c \notin writable
    /\ writable' = writable \cup {c}
    /\ UNCHANGED <<faults, dead, conn, sent, mainVars, workVars, taskQueue,
                   armed, epollCreate, ready, stop, sendDoneCount>>

-----------------------------------------------------------------------------
(* The main thread.                                                        *)

Return(r) == ret' = r /\ mpc' = "stop" /\ todo' = {}

(* PrepareResource: the workers start before the epoll handle is made; if  *)
(* that fails the destructor still has to end them.                        *)
PrepareResource(sockets) ==
    /\ mpc = "none"
    /\ conn' = sockets
    /\ wpc' = [w \in Workers |-> "loop"]
    /\ \/ epollCreate' = TRUE /\ mpc' = "once" /\ todo' = sockets
          /\ NoFault /\ UNCHANGED ret
       \/ Fault /\ Return("failed") /\ UNCHANGED epollCreate
    /\ UNCHANGED <<dead, writable, sent, task, taskQueue, armed, ready, stop,
                   sendDoneCount>>

(* SendOnce for one socket of fdHandleToFdContextMap_, in any order.  An   *)
(* unfinished socket, its buffer full, is registered for one event         *)
(* (EPOLLONESHOT); the registration may fail too.                          *)
SendOnce(c) ==
    /\ mpc = "once" /\ c \in todo
    /\ \/ /\ Send(c, 0)
          /\ todo' = todo \ {c}
          /\ armed' = IF sent'[c] = FrameLen THEN armed ELSE armed \cup {c}
          /\ sendDoneCount' = IF sent'[c] = FrameLen THEN sendDoneCount + 1
                              ELSE sendDoneCount
          /\ UNCHANGED <<mpc, ret>>
       \/ SendFails(c) /\ Return("failed") /\ UNCHANGED <<armed, sendDoneCount>>
       \/ /\ Fault /\ Return("failed")
          /\ \E n \in sent[c] .. FrameLen - 1 : sent' = [sent EXCEPT ![c] = n]
          /\ writable' = writable \ {c}
          /\ UNCHANGED <<armed, sendDoneCount>>
    /\ UNCHANGED <<dead, conn, workVars, taskQueue, epollCreate, ready, stop>>

(* The head of ProcessSend's loop.                                         *)
LoopHead ==
    /\ mpc = "loop" \/ (mpc = "once" /\ todo = {})
    /\ \/ sendDoneCount = Cardinality(conn) /\ mpc' = "close" /\ NoFault
          /\ UNCHANGED <<todo, ret>>
       \/ sendDoneCount # Cardinality(conn) /\ stop /\ Return("failed") /\ NoFault
       \/ sendDoneCount # Cardinality(conn) /\ ~stop
          /\ \/ mpc' = "wait" /\ NoFault /\ UNCHANGED <<todo, ret>>
             \/ Fault /\ Return("failed")
    /\ UNCHANGED <<netVars, conn, workVars, taskQueue, epollCreate, ready, stop,
                   sendDoneCount>>

\* Mutant: the events are not one-shot.
WaitEvents_Level ==
    /\ mpc = "wait"
    /\ LET events == armed \cap (writable \cup dead)
       IN \/ /\ todo' = events
             /\ UNCHANGED armed
             /\ mpc' = IF events = {} /\ sendDoneCount = Cardinality(conn)
                       THEN "loop" ELSE "push"
             /\ NoFault /\ UNCHANGED ret
          \/ Fault /\ Return("failed") /\ UNCHANGED armed
    /\ UNCHANGED <<dead, writable, sent, conn, workVars, taskQueue, epollCreate,
                   ready, stop, sendDoneCount>>

(* HrtRaWaitEventHandle: every armed socket that has room, or whose peer   *)
(* is gone, is reported and disarmed; with none the wait times out.  An    *)
(* empty answer after the last send goes back to the head of the loop.     *)
WaitEvents ==
    /\ mpc = "wait"
    /\ LET events == armed \cap (writable \cup dead)
       IN \/ /\ todo' = events
             /\ armed' = armed \ events
             /\ mpc' = IF events = {} /\ sendDoneCount = Cardinality(conn)
                       THEN "loop" ELSE "push"
             /\ NoFault /\ UNCHANGED ret
          \/ Fault /\ Return("failed") /\ UNCHANGED armed
    /\ UNCHANGED <<dead, writable, sent, conn, workVars, taskQueue, epollCreate,
                   ready, stop, sendDoneCount>>

(* One pass of the loop that queues the events, under taskQueueMutex_.     *)
PushTask(c) ==
    /\ mpc = "push" /\ c \in todo
    /\ taskQueue' = Append(taskQueue, c)
    /\ todo' = todo \ {c}
    /\ UNCHANGED <<faults, netVars, conn, mpc, ret, workVars, epollCreate, ready,
                   stop, sendDoneCount>>

\* Mutant: ready_ is set and nobody notified.
WakeWoker_NoNotify ==
    /\ ready' = TRUE
    /\ UNCHANGED wpc

(* WakeWoker, under wakeMutex_: ready_ and notify_all.                     *)
WakeWoker ==
    /\ ready' = TRUE
    /\ wpc' = [w \in Workers |-> IF wpc[w] = "asleep" THEN "enter" ELSE wpc[w]]

WakeAfterPush ==
    /\ mpc = "push" /\ todo = {}
    /\ WakeWoker
    /\ mpc' = "loop"
    /\ UNCHANGED <<faults, netVars, conn, todo, ret, task, taskQueue,
                   epollCreate, stop, sendDoneCount>>

(* CloseEpollFd at the end of ProcessSend.                                 *)
CloseEpollFd ==
    /\ mpc = "close"
    /\ \/ epollCreate' = FALSE /\ Return("success") /\ NoFault
       \/ Fault /\ Return("failed") /\ UNCHANGED epollCreate
    /\ UNCHANGED <<netVars, conn, workVars, taskQueue, ready, stop, sendDoneCount>>

(* ~RankInfoDispatcher: CleanResource raises stop_, wakes everyone, joins  *)
(* the workers and drops the contexts; the epoll handle goes last.         *)
CleanStop ==
    /\ mpc = "stop"
    /\ stop' = TRUE /\ mpc' = "wake"
    /\ UNCHANGED <<faults, netVars, conn, todo, ret, workVars, taskQueue,
                   epollCreate, ready, sendDoneCount>>

CleanWake ==
    /\ mpc = "wake"
    /\ WakeWoker
    /\ mpc' = "join"
    /\ UNCHANGED <<faults, netVars, conn, todo, ret, task, taskQueue,
                   epollCreate, stop, sendDoneCount>>

\* Mutant: the workers are not joined.
CleanJoin_Detached ==
    /\ mpc = "join"
    /\ mpc' = "gone" /\ epollCreate' = FALSE
    /\ UNCHANGED <<faults, netVars, conn, todo, ret, workVars, taskQueue, ready,
                   stop, sendDoneCount>>

CleanJoin ==
    /\ mpc = "join"
    /\ \A w \in Workers : wpc[w] = "exit"
    /\ mpc' = "gone" /\ epollCreate' = FALSE
    /\ UNCHANGED <<faults, netVars, conn, todo, ret, workVars, taskQueue, ready,
                   stop, sendDoneCount>>

Main ==
    \/ \E c \in Clients : SendOnce(c) \/ PushTask(c)
    \/ LoopHead \/ WaitEvents \/ WakeAfterPush \/ CloseEpollFd
    \/ CleanStop \/ CleanWake \/ CleanJoin

-----------------------------------------------------------------------------
(* A worker.                                                               *)

Goto(w, pc) == wpc' = [wpc EXCEPT ![w] = pc]

\* Mutant: the loop does not look at stop_.
WorkerLoop_Forever(w) ==
    /\ wpc[w] = "loop"
    /\ Goto(w, "enter")
    /\ UNCHANGED <<faults, netVars, conn, mainVars, task, taskQueue, epollCreate,
                   ready, stop, sendDoneCount>>

(* The head of RunWorkerThread's loop.                                     *)
WorkerLoop(w) ==
    /\ wpc[w] = "loop"
    /\ Goto(w, IF stop THEN "exit" ELSE "enter")
    /\ UNCHANGED <<faults, netVars, conn, mainVars, task, taskQueue, epollCreate,
                   ready, stop, sendDoneCount>>

(* WorkerWait: with wakeMutex_ held, go on or sleep on wakeManager_.       *)
WorkerWait(w) ==
    /\ wpc[w] = "enter"
    /\ Goto(w, IF ready \/ stop THEN "drain" ELSE "asleep")
    /\ UNCHANGED <<faults, netVars, conn, mainVars, task, taskQueue, epollCreate,
                   ready, stop, sendDoneCount>>

(* GetTask, under taskQueueMutex_: an empty queue takes ready_ back.       *)
GetTask(w) ==
    /\ wpc[w] = "drain"
    /\ IF taskQueue = <<>>
       THEN /\ ready' = FALSE
            /\ Goto(w, "loop")
            /\ UNCHANGED <<task, taskQueue>>
       ELSE /\ task' = [task EXCEPT ![w] = Head(taskQueue)]
            /\ taskQueue' = Tail(taskQueue)
            /\ Goto(w, "task")
            /\ UNCHANGED ready
    /\ UNCHANGED <<faults, netVars, conn, mainVars, epollCreate, stop,
                   sendDoneCount>>

\* Mutant: every send event counts as a finished socket.
SendEvent_CountAll(w) ==
    /\ wpc[w] = "task"
    /\ \A v \in Workers : wpc[v] # "ctl"
    /\ LET c == task[w]
       IN \/ /\ Send(c, 1)
             /\ sendDoneCount' = sendDoneCount + 1
             /\ Goto(w, "ctl")
             /\ UNCHANGED stop
          \/ /\ SendFails(c)
             /\ stop' = TRUE
             /\ Goto(w, "drain")
             /\ UNCHANGED sendDoneCount
    /\ UNCHANGED <<dead, conn, mainVars, task, taskQueue, armed, epollCreate,
                   ready>>

(* ProcessOneSendEvent up to the count of finished sockets.  The worker    *)
(* holds fdHandleMapMutex_ from here to the end of CtlEvent.               *)
SendEvent(w) ==
    /\ wpc[w] = "task"
    /\ \A v \in Workers : wpc[v] # "ctl"
    /\ LET c == task[w]
       IN \/ /\ Send(c, 1)
             /\ sendDoneCount' = IF sent'[c] = FrameLen THEN sendDoneCount + 1
                                 ELSE sendDoneCount
             /\ Goto(w, "ctl")
             /\ UNCHANGED stop
          \/ /\ SendFails(c)
             /\ stop' = TRUE
             /\ Goto(w, "drain")
             /\ UNCHANGED sendDoneCount
    /\ UNCHANGED <<dead, conn, mainVars, task, taskQueue, armed, epollCreate,
                   ready>>

(* The rest of ProcessOneSendEvent: EPOLL_CTL_DEL of a finished socket,    *)
(* EPOLL_CTL_MOD, which arms it again, of another.  The main thread may    *)
(* have destroyed the handle since the count was raised.                   *)
CtlEvent(w) ==
    /\ wpc[w] = "ctl"
    /\ \/ /\ epollCreate
          /\ armed' = IF IsOk(task[w]) THEN armed ELSE armed \cup {task[w]}
          /\ NoFault /\ UNCHANGED stop
       \/ /\ IF epollCreate THEN Fault ELSE NoFault
          /\ stop' = TRUE
          /\ UNCHANGED armed
    /\ Goto(w, "drain")
    /\ UNCHANGED <<dead, writable, sent, conn, mainVars, task, taskQueue,
                   epollCreate, ready, sendDoneCount>>

Worker(w) ==
    WorkerLoop(w) \/ WorkerWait(w) \/ GetTask(w) \/ SendEvent(w) \/ CtlEvent(w)

-----------------------------------------------------------------------------
MainPcs == {"none", "once", "loop", "wait", "push", "close", "stop", "wake",
            "join", "gone"}

WorkerPcs == {"none", "loop", "enter", "asleep", "drain", "task", "ctl", "exit"}

(* The variables of the broadcast keep their types.                        *)
DispTypeOK ==
    /\ faults \in Nat
    /\ dead \subseteq Clients /\ writable \subseteq Clients
    /\ conn \subseteq Clients /\ todo \subseteq Clients /\ armed \subseteq Clients
    /\ sent \in [Clients -> 0 .. FrameLen]
    /\ mpc \in MainPcs /\ ret \in {"none", "success", "failed"}
    /\ wpc \in [Workers -> WorkerPcs] /\ task \in [Workers -> Clients]
    /\ taskQueue \in Seq(Clients)
    /\ epollCreate \in BOOLEAN /\ ready \in BOOLEAN /\ stop \in BOOLEAN
    /\ sendDoneCount \in Nat

(* A queued task is never left to sleeping workers: once the main thread   *)
(* is past WakeWoker, a task in taskQueue_ finds ready_ set and no worker  *)
(* asleep.  GetTask clears ready_ under another mutex than the one the     *)
(* workers sleep with, so this rests on the order of push and wake.        *)
NoTaskStranded ==
    taskQueue # <<>> /\ mpc # "push" =>
        ready /\ \A w \in Workers : wpc[w] # "asleep"

(* Where the next send of the socket c is in flight.                       *)
Holders(c) ==
    {w \in Workers : wpc[w] \in {"task", "ctl"} /\ task[w] = c}

Copies(c) ==
    Cardinality(Holders(c))
    + Cardinality({i \in DOMAIN taskQueue : taskQueue[i] = c})
    + (IF c \in armed THEN 1 ELSE 0)
    + (IF mpc \in {"once", "push"} /\ c \in todo THEN 1 ELSE 0)

(* What EPOLLONESHOT is there for: a socket is registered, reported,       *)
(* queued or being written by one worker, never two of these at once, so   *)
(* no two threads interleave their bytes in one message.                   *)
OneWriterPerSocket == \A c \in Clients : Copies(c) <= 1

(* The broadcast reports success only when the whole message has entered   *)
(* every socket: the count that ends ProcessSend's loop, raised by the     *)
(* main thread and by the workers, counts every socket once.               *)
SuccessMeansSent == ret = "success" => \A c \in conn : IsOk(c)

=============================================================================
