------------------------- MODULE OpRetryConnection -------------------------
(***************************************************************************)
(* OpRetryConnection: how the sockets between the retry server, in the     *)
(* root's process, and the agents, one in every process, come to be.  The  *)
(* root listens and a background thread accepts every rank, its own        *)
(* included; a rank connects, sends its id, and takes the root's answer    *)
(* for the end of its set-up.  A rank whose handshake breaks connects      *)
(* again, with a new socket.  OpRetryManager makes the connection before   *)
(* it counts itself initialized and releases it only if it is.             *)
(*                                                                         *)
(* <<r, n>> is the n-th socket that the rank r has made, with both ends.   *)
(***************************************************************************)
EXTENDS Integers, FiniteSets

CONSTANTS
    Ranks,
    Root,
    MaxInits,    \* bound: communicators of the group a process makes in turn
    MaxSockets,  \* bound: sockets a rank makes, one for each of them at least
    MaxFaults    \* bound: time-outs and broken connections, all together

ASSUME RootAssumption == Root \in Ranks
ASSUME RanksAssumption == IsFiniteSet(Ranks)
ASSUME BoundsAssumption ==
    /\ MaxInits \in Nat \ {0} /\ MaxSockets \in Nat \ {0} /\ MaxFaults \in Nat
    /\ MaxInits <= MaxSockets

VARIABLES
    pc,          \* where the Init of every rank is
    inits,       \* communicators every rank has begun to make
    instance,    \* ranks whose process has the group in instance_
    socket,      \* socket_ of every rank; 0: nullptr
    made,        \* sockets every rank has made
    meta,        \* sockets whose rank id has been sent
    ack,         \* sockets whose acknowledgement has been sent
    broken,      \* sockets reset, or closed at either end
    backlog,     \* sockets the listener has and nobody has accepted
    listening,   \* listenSocket_ exists
    connectionSockets, \* connectionSockets_: the socket of every rank, or 0
    bpc,         \* where the background thread is
    accepted,    \* the socket the background thread works on
    expectAcceptNum,
    joinable,    \* backgroudThread_ has been started and not been joined
    backgroudThreadStop,
    acceptFinished,
    aborted,     \* std::terminate in the process of the root
    faults

rankVars == <<pc, inits, instance>>
sockVars == <<socket, made, meta, ack, broken, backlog>>
rootVars == <<listening, connectionSockets, bpc, accepted, expectAcceptNum,
              joinable, backgroudThreadStop, acceptFinished, aborted>>
vars == <<rankVars, sockVars, rootVars, faults>>

NoSockets == [r \in Ranks |-> 0]

Init ==
    /\ pc = [r \in Ranks |-> "idle"] /\ inits = [r \in Ranks |-> 0]
    /\ instance = {} /\ socket = NoSockets /\ made = NoSockets
    /\ meta = {} /\ ack = {} /\ broken = {} /\ backlog = {}
    /\ listening = FALSE /\ connectionSockets = NoSockets
    /\ bpc = "none" /\ accepted = <<Root, 0>> /\ expectAcceptNum = 0
    /\ joinable = FALSE /\ backgroudThreadStop = FALSE /\ acceptFinished = FALSE
    /\ aborted = FALSE /\ faults = 0

Fault == faults < MaxFaults /\ faults' = faults + 1

NoFault == UNCHANGED faults

Alive(r) == ~(r = Root /\ aborted)

Goto(r, where) == pc' = [pc EXCEPT ![r] = where]

InInit(r) == pc[r] \in {"connect", "ack", "wait"}

Current(r) == <<r, socket[r]>>

Held(r) == IF socket[r] = 0 THEN {} ELSE {Current(r)}

AllConnections == {<<r, connectionSockets[r]>> :
                      r \in {q \in Ranks : connectionSockets[q] # 0}}

-----------------------------------------------------------------------------
(* The thread that makes and destroys the communicator.                    *)

(* GetInstance with forceNew: the new instance is emplaced, which leaves   *)
(* one that is there alone.                                                *)
GetInstance(r) == instance' = instance \cup {r}

\* Mutant: the root waits for one rank more than there are.
StartListen_OneMore ==
    IF joinable
    THEN /\ aborted' = TRUE /\ listening' = FALSE /\ bpc' = "none"
         /\ broken' = broken \cup backlog \cup AllConnections \cup Held(Root)
         /\ backlog' = {}
         /\ UNCHANGED <<connectionSockets, accepted, expectAcceptNum, joinable,
                        backgroudThreadStop, acceptFinished>>
    ELSE /\ listening' = TRUE /\ joinable' = TRUE
         /\ acceptFinished' = FALSE /\ backgroudThreadStop' = FALSE
         /\ bpc' = "accept" /\ expectAcceptNum' = Cardinality(Ranks) + 1
         /\ UNCHANGED <<connectionSockets, accepted, aborted, broken, backlog>>

(* StartListen.  Assigning over a thread that has not been joined ends the *)
(* process; its sockets go with it.                                        *)
StartListen ==
    IF joinable
    THEN /\ aborted' = TRUE /\ listening' = FALSE /\ bpc' = "none"
         /\ broken' = broken \cup backlog \cup AllConnections \cup Held(Root)
         /\ backlog' = {}
         /\ UNCHANGED <<connectionSockets, accepted, expectAcceptNum, joinable,
                        backgroudThreadStop, acceptFinished>>
    ELSE /\ listening' = TRUE /\ joinable' = TRUE
         /\ acceptFinished' = FALSE /\ backgroudThreadStop' = FALSE
         /\ bpc' = "accept" /\ expectAcceptNum' = Cardinality(Ranks)
         /\ UNCHANGED <<connectionSockets, accepted, aborted, broken, backlog>>

(* OpRetryConnection::Init up to the loop that connects.                   *)
StartInit(r) ==
    /\ pc[r] = "idle" /\ Alive(r)
    /\ inits[r] < MaxInits
    /\ inits' = [inits EXCEPT ![r] = @ + 1]
    /\ GetInstance(r)
    /\ Goto(r, "connect")
    /\ IF r = Root THEN StartListen ELSE UNCHANGED <<rootVars, broken, backlog>>
    /\ UNCHANGED <<socket, made, meta, ack, faults>>

(* Connect up to SendMetaInfo: the socket of an earlier try is closed, a   *)
(* new one made.  A failure to send the rank id is tried again.            *)
Connect(r) ==
    /\ pc[r] = "connect" /\ Alive(r)
    /\ listening /\ made[r] < MaxSockets
    /\ LET new == <<r, made[r] + 1>>
       IN  /\ socket' = [socket EXCEPT ![r] = made[r] + 1]
           /\ made' = [made EXCEPT ![r] = @ + 1]
           /\ backlog' = backlog \cup {new}
           /\ \/ meta' = meta \cup {new} /\ broken' = broken \cup Held(r)
                 /\ Goto(r, "ack") /\ NoFault
              \/ Fault /\ broken' = broken \cup Held(r) \cup {new}
                 /\ UNCHANGED <<meta, pc>>
    /\ UNCHANGED <<inits, instance, ack, rootVars>>

(* RecvAckInfo: a failure to receive is tried again.  The root goes on to  *)
(* wait for its background thread.                                         *)
RecvAckInfo(r) ==
    /\ pc[r] = "ack" /\ Alive(r)
    /\ \/ Current(r) \in ack /\ Goto(r, IF r = Root THEN "wait" ELSE "ok")
       \/ Current(r) \in broken /\ Goto(r, "connect")
    /\ UNCHANGED <<inits, instance, sockVars, rootVars, faults>>

(* WaitAcceptFinish, then GetServerSockets, which wants every rank.        *)
WaitAcceptFinish ==
    /\ pc[Root] = "wait" /\ Alive(Root)
    /\ \/ backgroudThreadStop /\ Goto(Root, "failed")
       \/ ~backgroudThreadStop /\ acceptFinished
          /\ Goto(Root, IF \A r \in Ranks : connectionSockets[r] # 0
                        THEN "ok" ELSE "failed")
    /\ UNCHANGED <<inits, instance, sockVars, rootVars, faults>>

(* No answer will come to r: the root will not listen for it any more, or  *)
(* nobody accepts.                                                         *)
NoAnswer(r) ==
    \/ pc[r] = "connect" /\ made[r] = MaxSockets
    \/ pc[r] = "connect" /\ ~listening
       /\ \/ r = Root \/ aborted
          \/ pc[Root] = "ok" /\ inits[r] <= inits[Root]
          \/ ~InInit(Root) /\ inits[Root] = MaxInits
    \/ pc[r] = "ack" /\ Current(r) \in backlog /\ bpc \in {"none", "done"}

(* A time-out of Init, Connect, a receive or WaitAcceptFinish.             *)
InitTimeout(r) ==
    /\ InInit(r) /\ Alive(r)
    /\ IF NoAnswer(r) THEN NoFault ELSE Fault
    /\ Goto(r, "failed")
    /\ UNCHANGED <<inits, instance, sockVars, rootVars>>

\* Mutant: the background thread is told to stop and not joined.
DeInit_Unjoined(r) ==
    /\ instance' = instance \ {r}
    /\ socket' = [socket EXCEPT ![r] = 0]
    /\ broken' = broken \cup Held(r) \cup (IF r = Root THEN AllConnections ELSE {})
    /\ IF r = Root
       THEN /\ UNCHANGED joinable /\ backgroudThreadStop' = TRUE
            /\ connectionSockets' = NoSockets /\ listening' = FALSE
            /\ UNCHANGED <<bpc, accepted, expectAcceptNum, acceptFinished, aborted>>
       ELSE UNCHANGED rootVars
    /\ UNCHANGED <<made, meta, ack, backlog>>

(* DeInit of the connection of r, from the destructor of its instance.     *)
DeInit(r) ==
    /\ instance' = instance \ {r}
    /\ socket' = [socket EXCEPT ![r] = 0]
    /\ broken' = broken \cup Held(r) \cup (IF r = Root THEN AllConnections ELSE {})
    /\ IF r = Root
       THEN /\ bpc = "done" /\ joinable' = FALSE /\ backgroudThreadStop' = TRUE
            /\ connectionSockets' = NoSockets /\ listening' = FALSE
            /\ UNCHANGED <<bpc, accepted, expectAcceptNum, acceptFinished, aborted>>
       ELSE UNCHANGED rootVars
    /\ UNCHANGED <<made, meta, ack, backlog>>

(* The rank q has been through the Init for its n-th communicator.         *)
Through(q, n) ==
    Alive(q) => inits[q] > n \/ (inits[q] = n /\ ~InInit(q))

(* UnRegisterOpRetryManager, from the destructor of the communicator: a    *)
(* manager that failed to register is not initialized and returns at once. *)
(* A communicator in use is destroyed when every rank has been through the *)
(* Init for it.                                                            *)
UnRegister(r) ==
    /\ Alive(r) /\ Goto(r, "idle")
    /\ \/ pc[r] = "failed" /\ UNCHANGED <<instance, sockVars, rootVars>>
       \/ pc[r] = "ok" /\ (\A q \in Ranks : Through(q, inits[r])) /\ DeInit(r)
    /\ UNCHANGED <<inits, faults>>

-----------------------------------------------------------------------------
(* The background thread of the root: RunAccept.                           *)

Thread(where) == bpc' = where

(* Accept returned an error; a socket accepted and not entered is closed   *)
(* with its last reference.                                                *)
AcceptFails(lost) ==
    /\ backgroudThreadStop' = TRUE /\ Thread("done")
    /\ broken' = broken \cup lost
    /\ UNCHANGED <<expectAcceptNum, connectionSockets, accepted>>

(* The rank r may still connect.                                           *)
Coming(r) ==
    \/ pc[r] \in {"connect", "ack"}
    \/ pc[r] \in {"idle", "failed"} /\ inits[r] < MaxInits
    \/ pc[r] = "ok" /\ inits[r] < inits[Root]

(* Accept finds the stop flag, or times out; it is bound to when nobody    *)
(* will connect any more.                                                  *)
AcceptStops ==
    /\ bpc = "accept" /\ expectAcceptNum > 0
    /\ \/ backgroudThreadStop /\ NoFault
       \/ ~backgroudThreadStop
          /\ IF backlog = {} /\ (\A r \in Ranks : ~Coming(r))
             THEN NoFault ELSE Fault
    /\ AcceptFails({})
    /\ UNCHANGED <<rankVars, socket, made, meta, ack, backlog, listening, joinable,
                   acceptFinished, aborted>>

(* A pass of Accept's loop that finds a connection, up to SendAckInfo.     *)
SendAckInfo(k) ==
    /\ bpc = "accept" /\ expectAcceptNum > 0 /\ ~backgroudThreadStop
    /\ k \in backlog /\ backlog' = backlog \ {k}
    /\ \/ /\ ack' = ack \cup {k}
          /\ accepted' = k /\ Thread("meta")
          /\ NoFault
          /\ UNCHANGED <<broken, expectAcceptNum, connectionSockets,
                         backgroudThreadStop>>
       \/ /\ IF k \in broken THEN NoFault ELSE Fault
          /\ AcceptFails({k})
          /\ UNCHANGED ack
    /\ UNCHANGED <<rankVars, socket, made, meta, listening, joinable,
                   acceptFinished, aborted>>

\* Mutant: a rank that is there already is skipped and not counted again.
RecvMetaInfo_Skip ==
    /\ bpc = "meta"
    /\ LET peer == accepted[1]
       IN \/ /\ accepted \in meta
             /\ connectionSockets' =
                  [connectionSockets EXCEPT ![peer] = IF @ = 0 THEN accepted[2] ELSE @]
             /\ expectAcceptNum' = IF connectionSockets[peer] = 0
                                   THEN expectAcceptNum - 1 ELSE expectAcceptNum
             /\ Thread("accept") /\ NoFault
             /\ UNCHANGED <<broken, accepted, backgroudThreadStop>>
          \/ /\ accepted \in broken /\ NoFault
             /\ AcceptFails({accepted})
    /\ UNCHANGED <<rankVars, socket, made, meta, ack, backlog, listening, joinable,
                   acceptFinished, aborted>>

(* RecvMetaInfo: a rank id that cannot be received, or that is there       *)
(* already, ends the thread.                                               *)
RecvMetaInfo ==
    /\ bpc = "meta"
    /\ LET peer == accepted[1]
       IN \/ /\ accepted \in meta /\ connectionSockets[peer] = 0
             /\ connectionSockets' = [connectionSockets EXCEPT ![peer] = accepted[2]]
             /\ expectAcceptNum' = expectAcceptNum - 1
             /\ Thread("accept") /\ NoFault
             /\ UNCHANGED <<broken, accepted, backgroudThreadStop>>
          \/ /\ accepted \in broken \/ connectionSockets[peer] # 0
             /\ AcceptFails({accepted}) /\ NoFault
    /\ UNCHANGED <<rankVars, socket, made, meta, ack, backlog, listening, joinable,
                   acceptFinished, aborted>>

(* StopListen when all have been accepted: what is left in the listener is *)
(* lost.                                                                   *)
StopListen ==
    /\ bpc = "accept" /\ expectAcceptNum = 0
    /\ listening' = FALSE /\ Thread("finish")
    /\ broken' = broken \cup backlog /\ backlog' = {}
    /\ UNCHANGED <<rankVars, socket, made, meta, ack, connectionSockets, accepted,
                   expectAcceptNum, joinable, backgroudThreadStop, acceptFinished,
                   aborted, faults>>

FinishAccept ==
    /\ bpc = "finish"
    /\ acceptFinished' = TRUE /\ Thread("done")
    /\ UNCHANGED <<rankVars, sockVars, listening, connectionSockets, accepted,
                   expectAcceptNum, joinable, backgroudThreadStop, aborted, faults>>

(* A connection breaks.                                                    *)
Break(k) ==
    /\ k \in (UNION {Held(r) : r \in Ranks}) \ broken
    /\ Fault
    /\ broken' = broken \cup {k}
    /\ UNCHANGED <<rankVars, socket, made, meta, ack, backlog, rootVars>>

(* Nothing is left to do.                                                  *)
Done ==
    /\ \A r \in Ranks : Alive(r) => pc[r] = "idle" /\ inits[r] = MaxInits
    /\ UNCHANGED vars

Next ==
    \/ \E r \in Ranks :
          StartInit(r) \/ Connect(r) \/ RecvAckInfo(r) \/ InitTimeout(r) \/ UnRegister(r)
    \/ WaitAcceptFinish \/ AcceptStops \/ RecvMetaInfo \/ StopListen \/ FinishAccept
    \/ \E k \in Ranks \X (1 .. MaxSockets) : SendAckInfo(k) \/ Break(k)
    \/ Done

Spec == Init /\ [][Next]_vars

-----------------------------------------------------------------------------
(* The variables keep their types.                                         *)
TypeOK ==
    /\ pc \in [Ranks -> {"idle", "connect", "ack", "wait", "ok", "failed"}]
    /\ inits \in [Ranks -> 0 .. MaxInits] /\ instance \subseteq Ranks
    /\ made \in [Ranks -> 0 .. MaxSockets]
    /\ socket \in [Ranks -> 0 .. MaxSockets]
    /\ connectionSockets \in [Ranks -> 0 .. MaxSockets]
    /\ meta \cup ack \cup broken \cup backlog \subseteq Ranks \X (1 .. MaxSockets)
    /\ bpc \in {"none", "accept", "meta", "finish", "done"}
    /\ accepted \in Ranks \X (0 .. MaxSockets)
    /\ expectAcceptNum \in 0 .. Cardinality(Ranks)
    /\ listening \in BOOLEAN /\ joinable \in BOOLEAN /\ aborted \in BOOLEAN
    /\ backgroudThreadStop \in BOOLEAN /\ acceptFinished \in BOOLEAN
    /\ faults \in 0 .. MaxFaults

(* When the set-up of the root and that of a rank have succeeded, the      *)
(* socket the server holds for the rank is the other end of the one its    *)
(* agent holds, however often the rank had to connect.  It rests on the    *)
(* refusal of a rank id that is there already.                             *)
SocketsMatched ==
    pc[Root] = "ok" =>
        \A r \in Ranks : pc[r] = "ok" /\ inits[r] = inits[Root] =>
                            connectionSockets[r] = socket[r]

(* With no time-out and no broken connection every set-up succeeds, in     *)
(* every order of the ranks and of the root's two threads, and a           *)
(* communicator that was destroyed can be made again.                      *)
CleanSetupSucceeds ==
    faults = 0 => ~aborted /\ \A r \in Ranks : pc[r] # "failed"

(* What the parameter forceNew of GetInstance is documented to do: an      *)
(* instance that exists is released and a new one made, so every Init      *)
(* starts with no sockets and no thread of an earlier one.                 *)
ForceNewReleases ==
    [][\A r \in Ranks : inits'[r] # inits[r] =>
          socket'[r] = 0 /\ (r = Root => connectionSockets' = NoSockets /\ ~aborted')]_vars

=============================================================================
