---------------------- MODULE OpRetryConnectionProofs ----------------------
(***************************************************************************)
(* The set-up of the retry sockets, for any number of ranks, sockets,      *)
(* communicators in turn and faults: the types, that the two ends of the   *)
(* set-up agree on their sockets, and that a set-up without a fault never  *)
(* fails.                                                                  *)
(***************************************************************************)
EXTENDS OpRetryConnection, FiniteSetTheorems, TLAPS

(* The provers a leaf is tried with that does not name one itself.         *)
USE ZenonT(40), SMTT(60)

(* Where the socket of an agent that has it acknowledged can be: entered   *)
(* by the server, or in the hands of the background thread; else the       *)
(* thread has failed, or the acknowledgement is from an earlier session    *)
(* and the server has nothing of the rank yet.                             *)
Acknowledged(r) ==
    \/ connectionSockets[r] = socket[r]
    \/ bpc = "meta" /\ accepted = Current(r)
    \/ backgroudThreadStop \/ aborted
    \/ /\ connectionSockets[r] = 0
       /\ \A k \in backlog : k[1] # r
       /\ ~(bpc = "meta" /\ accepted[1] = r)

(* Sockets of the agents.                                                  *)
AgentInv ==
    /\ \A r \in Ranks :
          /\ socket[r] \in {0, made[r]}
          /\ pc[r] \in {"ack", "wait", "ok"} => socket[r] # 0
          /\ pc[r] \in {"wait", "ok"} => Current(r) \in ack
          /\ socket[r] # 0 /\ Current(r) \in ack => Acknowledged(r)
    /\ \A k \in ack \cup backlog : k[2] <= made[k[1]]

(* The background thread and what it leaves behind.                        *)
ThreadInv ==
    /\ bpc = "meta" => accepted \in ack /\ expectAcceptNum > 0
    /\ acceptFinished => (bpc = "done" \/ aborted) /\ ~listening /\ backlog = {}
    /\ bpc = "finish" => ~listening /\ backlog = {}
    /\ ~joinable => /\ connectionSockets = NoSockets /\ backlog = {}
                    /\ ~listening /\ bpc \in {"none", "done"}

(* What the set-up of the root has seen when it is through.                *)
RootInv ==
    /\ pc[Root] = "ok" => /\ acceptFinished /\ ~backgroudThreadStop /\ ~aborted
                          /\ \A r \in Ranks : connectionSockets[r] # 0
    /\ aborted => pc[Root] = "connect"

IInv == TypeOK /\ AgentInv /\ ThreadInv /\ RootInv

(* The background thread has nothing of the rank r in this session.        *)
Absent(r) ==
    /\ connectionSockets[r] = 0
    /\ \A k \in backlog : k[1] # r
    /\ ~(bpc = "meta" /\ accepted[1] = r)

(* The background thread has accepted the socket of r.                     *)
Received(r) ==
    \/ bpc = "meta" /\ accepted = Current(r)
    \/ connectionSockets[r] = socket[r]

(* Where a rank can be while the root sets up its communicator, or uses    *)
(* it: still at the one before, connecting, waiting for the answer,        *)
(* through, or gone, which is possible only when the root is through.      *)
Place(r) ==
    \/ inits[r] = inits[Root] - 1 /\ pc[r] \in {"ok", "idle"} /\ Absent(r)
    \/ inits[r] = inits[Root] /\ pc[r] = "connect" /\ Absent(r)
    \/ /\ inits[r] = inits[Root] /\ pc[r] = "ack" /\ Current(r) \notin broken
       /\ Current(r) \in backlog \/ Received(r)
    \/ inits[r] = inits[Root] /\ pc[r] \in {"wait", "ok"} /\ Received(r)
    \/ /\ pc[Root] = "ok"
       /\ \/ inits[r] = inits[Root] /\ pc[r] = "idle"
          \/ inits[r] = inits[Root] + 1 /\ pc[r] = "connect"

Missing == {r \in Ranks : connectionSockets[r] = 0}

(* Every rank makes one socket for every communicator, and no more.        *)
CleanRanks ==
    /\ ~aborted /\ (joinable <=> pc[Root] # "idle")
    /\ \A r \in Ranks :
          /\ pc[r] # "failed" /\ (pc[r] = "wait" => r = Root)
          /\ made[r] = IF pc[r] = "connect" THEN inits[r] - 1 ELSE inits[r]
          /\ pc[r] \in {"idle", "connect"} => socket[r] = 0
          /\ connectionSockets[r] <= made[r]
    /\ \A k \in broken : k[2] <= made[k[1]]

(* No rank is lost, and none is entered twice: a socket is in the listener *)
(* before it is acknowledged and in the hands of the background thread     *)
(* after, and its rank has not been entered in either.                     *)
Waiting ==
    \A k \in backlog : /\ k = Current(k[1]) /\ pc[k[1]] = "ack"
                       /\ k \in meta \ ack
                       /\ connectionSockets[k[1]] = 0

InHand ==
    bpc = "meta" => LET peer == accepted[1]
                    IN  /\ accepted = Current(peer)
                        /\ inits[peer] = inits[Root]
                        /\ pc[peer] \in {"ack", "wait", "ok"}
                        /\ accepted \in meta \ broken
                        /\ connectionSockets[peer] = 0

(* The background thread counts the ranks that have not been entered.      *)
Counted ==
    /\ bpc \in {"accept", "meta"} =>
          listening /\ expectAcceptNum = Cardinality(Missing)
    /\ bpc \in {"finish", "done"} => Missing = {}

(* Between two communicators of the root.                                  *)
Between(r) ==
    \/ inits[r] = inits[Root] /\ pc[r] \in {"ok", "idle"}
    \/ inits[r] = inits[Root] + 1 /\ pc[r] = "connect"

CleanSession ==
    IF joinable
    THEN /\ ~backgroudThreadStop /\ bpc # "none"
         /\ (\A r \in Ranks : Place(r)) /\ Waiting /\ InHand /\ Counted
    ELSE \A r \in Ranks : Between(r)

CleanInv == faults = 0 => CleanRanks /\ CleanSession

-----------------------------------------------------------------------------
(* There are finitely many ranks.                                          *)
LEMMA CardRanks == Cardinality(Ranks) \in Nat
BY RanksAssumption, FS_CardinalityType

(* The count of the background thread is about few variables.              *)
LEMMA CountedKept ==
    ASSUME Counted, UNCHANGED <<bpc, listening, expectAcceptNum, connectionSockets>>
    PROVE  Counted'
BY DEF Counted, Missing

(* So is what the background thread has of a rank.                         *)
LEMMA ReceivedKept ==
    ASSUME NEW r \in Ranks,
           UNCHANGED <<bpc, accepted, connectionSockets, backlog, socket>>
    PROVE  (Absent(r)' <=> Absent(r)) /\ (Received(r)' <=> Received(r))
BY DEF Absent, Received, Current

(* The inductive invariant holds before the first communicator is made.    *)
LEMMA InitInv == Init => IInv
<1> SUFFICES ASSUME Init PROVE IInv
  OBVIOUS
<1> USE RootAssumption, BoundsAssumption, CardRanks DEF Init, NoSockets
<1>1. TypeOK
  <2>1. faults \in 0 .. MaxFaults /\ inits \in [Ranks -> 0 .. MaxInits]
    OBVIOUS
  <2>2. expectAcceptNum \in 0 .. Cardinality(Ranks)
    OBVIOUS
  <2>3. accepted \in Ranks \X (0 .. MaxSockets)
    OBVIOUS
  <2>4. meta \cup ack \cup broken \cup backlog \subseteq Ranks \X (1 .. MaxSockets)
    OBVIOUS
  <2>5. /\ made \in [Ranks -> 0 .. MaxSockets]
    /\ socket \in [Ranks -> 0 .. MaxSockets]
    /\ connectionSockets \in [Ranks -> 0 .. MaxSockets]
    OBVIOUS
  <2>6. pc \in [Ranks -> {"idle", "connect", "ack", "wait", "ok", "failed"}]
    OBVIOUS
  <2> QED BY <2>1, <2>2, <2>3, <2>4, <2>5, <2>6 DEF TypeOK
<1>2. AgentInv
  BY DEF AgentInv, Current, Acknowledged
<1>3. ThreadInv
  BY DEF ThreadInv
<1>4. RootInv
  BY DEF RootInv
<1> QED BY <1>1, <1>2, <1>3, <1>4 DEF IInv

(* What DeInit and the end of the root's process close are sockets.        *)
LEMMA ClosedSockets ==
    ASSUME TypeOK
    PROVE  /\ AllConnections \subseteq Ranks \X (1 .. MaxSockets)
           /\ \A r \in Ranks : Held(r) \subseteq Ranks \X (1 .. MaxSockets)
BY BoundsAssumption, SMTT(60) DEF TypeOK, AllConnections, Held,
   Current

(* The start of a communicator keeps it: a root that ends its process,     *)
(* because its thread has not been joined, leaves no set-up behind.        *)
LEMMA StartInitInv ==
    ASSUME IInv, NEW r \in Ranks, StartInit(r)
    PROVE  IInv'
<1> USE RootAssumption, BoundsAssumption, CardRanks DEF IInv, StartInit, StartListen,
        GetInstance, Goto, Alive, rootVars
<1>1. TypeOK'
  <2>1. /\ pc' \in [Ranks -> {"idle", "connect", "ack", "wait", "ok", "failed"}]
        /\ inits' \in [Ranks -> 0 .. MaxInits] /\ instance' \subseteq Ranks
    BY SMTT(60) DEF TypeOK
  <2>2. broken' \cup backlog' \subseteq Ranks \X (1 .. MaxSockets)
    BY ClosedSockets DEF TypeOK
  <2>3. /\ bpc' \in {"none", "accept", "meta", "finish", "done"}
        /\ expectAcceptNum' \in 0 .. Cardinality(Ranks)
        /\ UNCHANGED <<connectionSockets, accepted>>
    BY SMTT(60) DEF TypeOK
  <2>4. /\ listening' \in BOOLEAN /\ joinable' \in BOOLEAN /\ aborted' \in BOOLEAN
        /\ backgroudThreadStop' \in BOOLEAN /\ acceptFinished' \in BOOLEAN
    BY DEF TypeOK
  <2> QED BY <2>1, <2>2, <2>3, <2>4 DEF TypeOK
<1>2. AgentInv'
  <2>1. CASE r # Root
    BY <2>1, SMTT(60) DEF TypeOK, AgentInv, ThreadInv, Current,
       Acknowledged
  <2>2. CASE r = Root /\ joinable
    BY <2>2 DEF TypeOK, AgentInv, ThreadInv, Current, Acknowledged
  <2>3. CASE r = Root /\ ~joinable
    BY <2>3, SMTT(60) DEF TypeOK, AgentInv, ThreadInv, Current,
       Acknowledged, NoSockets
  <2> QED BY <2>1, <2>2, <2>3
<1>3. ThreadInv'
  BY DEF TypeOK, ThreadInv, RootInv, NoSockets
<1>4. RootInv'
  BY DEF TypeOK, RootInv, ThreadInv
<1> QED BY <1>1, <1>2, <1>3, <1>4

(* A new socket has not been acknowledged yet.                             *)
LEMMA ConnectInv ==
    ASSUME IInv, NEW r \in Ranks, Connect(r)
    PROVE  IInv'
<1> USE RootAssumption, BoundsAssumption, CardRanks DEF IInv, Connect, Goto, Held,
        Alive, rootVars, Fault, NoFault
<1>1. TypeOK'
  BY SMTT(60) DEF TypeOK, AgentInv, ThreadInv, Current
<1>2. AgentInv'
  BY SMTT(60) DEF TypeOK, AgentInv, ThreadInv, Current,
     Acknowledged
<1>3. ThreadInv'
  BY DEF TypeOK, ThreadInv, RootInv, NoSockets
<1>4. RootInv'
  BY DEF TypeOK, RootInv, ThreadInv
<1> QED BY <1>1, <1>2, <1>3, <1>4

(* A rank that takes the answer is acknowledged.                           *)
LEMMA RecvAckInfoInv ==
    ASSUME IInv, NEW r \in Ranks, RecvAckInfo(r)
    PROVE  IInv'
<1> USE RootAssumption, BoundsAssumption, CardRanks DEF IInv, RecvAckInfo, Goto, Alive,
        rootVars, sockVars
<1>1. TypeOK'
  BY SMTT(60) DEF TypeOK, AgentInv, ThreadInv, Current
<1>2. AgentInv'
  BY SMTT(60) DEF TypeOK, AgentInv, ThreadInv, Current,
     Acknowledged
<1>3. ThreadInv'
  BY DEF TypeOK, ThreadInv, RootInv, NoSockets
<1>4. RootInv'
  BY DEF TypeOK, RootInv, ThreadInv
<1> QED BY <1>1, <1>2, <1>3, <1>4

(* The root is through only with every rank entered.                       *)
LEMMA WaitAcceptFinishInv ==
    ASSUME IInv, WaitAcceptFinish
    PROVE  IInv'
<1> USE RootAssumption, BoundsAssumption, CardRanks DEF IInv, WaitAcceptFinish, Goto,
        Alive, rootVars, sockVars
<1>1. TypeOK'
  BY DEF TypeOK, AgentInv, ThreadInv, Current
<1>2. AgentInv'
  BY SMTT(60) DEF TypeOK, AgentInv, ThreadInv, Current,
     Acknowledged
<1>3. ThreadInv'
  BY DEF TypeOK, ThreadInv, RootInv, NoSockets
<1>4. RootInv'
  BY DEF TypeOK, RootInv, ThreadInv
<1> QED BY <1>1, <1>2, <1>3, <1>4

(* A time-out leaves the sockets as they are.                              *)
LEMMA InitTimeoutInv ==
    ASSUME IInv, NEW r \in Ranks, InitTimeout(r)
    PROVE  IInv'
<1> USE RootAssumption, BoundsAssumption, CardRanks DEF IInv, InitTimeout, InInit, Goto,
        Alive, rootVars, sockVars, Fault, NoFault
<1>1. TypeOK'
  BY SMTT(60) DEF TypeOK, AgentInv, ThreadInv, Current
<1>2. AgentInv'
  BY SMTT(60) DEF TypeOK, AgentInv, ThreadInv, Current,
     Acknowledged
<1>3. ThreadInv'
  BY DEF TypeOK, ThreadInv, RootInv, NoSockets
<1>4. RootInv'
  BY DEF TypeOK, RootInv, ThreadInv
<1> QED BY <1>1, <1>2, <1>3, <1>4

(* DeInit of the root leaves its map empty, that of another rank its       *)
(* socket.                                                                 *)
LEMMA UnRegisterInv ==
    ASSUME IInv, NEW r \in Ranks, UnRegister(r)
    PROVE  IInv'
<1> USE RootAssumption, BoundsAssumption, CardRanks DEF IInv, UnRegister, DeInit,
        NoSockets, Goto, Alive, rootVars, sockVars
<1>1. TypeOK'
  <2>1. /\ pc' \in [Ranks -> {"idle", "connect", "ack", "wait", "ok", "failed"}]
        /\ instance' \subseteq Ranks /\ socket' \in [Ranks -> 0 .. MaxSockets]
        /\ connectionSockets' \in [Ranks -> 0 .. MaxSockets]
    BY SMTT(60) DEF TypeOK
  <2>2. broken' \subseteq Ranks \X (1 .. MaxSockets)
    BY ClosedSockets DEF TypeOK
  <2>3. /\ listening' \in BOOLEAN /\ joinable' \in BOOLEAN
        /\ backgroudThreadStop' \in BOOLEAN
        /\ UNCHANGED <<inits, made, meta, ack, backlog, bpc, accepted,
                       expectAcceptNum, acceptFinished, aborted, faults>>
    BY DEF TypeOK
  <2> QED BY <2>1, <2>2, <2>3 DEF TypeOK
<1>2. AgentInv'
  BY SMTT(60) DEF TypeOK, AgentInv, ThreadInv, Current,
     Acknowledged
<1>3. ThreadInv'
  BY DEF TypeOK, ThreadInv, RootInv, NoSockets
<1>4. RootInv'
  BY DEF TypeOK, RootInv, ThreadInv
<1> QED BY <1>1, <1>2, <1>3, <1>4

(* A background thread that stops leaves its stop flag set.                *)
LEMMA AcceptStopsInv ==
    ASSUME IInv, AcceptStops
    PROVE  IInv'
<1> USE RootAssumption, BoundsAssumption, CardRanks DEF IInv, AcceptStops, AcceptFails,
        Thread, Fault, NoFault, rankVars
<1>1. TypeOK'
  BY SMTT(60) DEF TypeOK, AgentInv, ThreadInv, Current
<1>2. AgentInv'
  BY DEF TypeOK, AgentInv, ThreadInv, Current, Acknowledged
<1>3. ThreadInv'
  BY DEF TypeOK, ThreadInv, RootInv, NoSockets
<1>4. RootInv'
  BY DEF TypeOK, RootInv, ThreadInv
<1> QED BY <1>1, <1>2, <1>3, <1>4

(* The answer makes the socket the one in the hands of the thread.         *)
LEMMA SendAckInfoInv ==
    ASSUME IInv, NEW k \in Ranks \X (1 .. MaxSockets), SendAckInfo(k)
    PROVE  IInv'
<1> USE RootAssumption, BoundsAssumption, CardRanks DEF IInv, SendAckInfo, AcceptFails,
        Thread, Fault, NoFault, rankVars
<1>1. TypeOK'
  <2>1. /\ accepted' \in Ranks \X (0 .. MaxSockets)
        /\ ack' \cup broken' \cup backlog' \subseteq Ranks \X (1 .. MaxSockets)
    BY SMTT(60) DEF TypeOK
  <2>2. bpc' \in {"none", "accept", "meta", "finish", "done"} /\ faults' \in 0 .. MaxFaults
    BY SMTT(60) DEF TypeOK
  <2>3. backgroudThreadStop' \in BOOLEAN
    BY DEF TypeOK
  <2>4. UNCHANGED <<pc, inits, instance, socket, made, meta, connectionSockets,
                    expectAcceptNum, listening, joinable, acceptFinished, aborted>>
    OBVIOUS
  <2> QED BY <2>1, <2>2, <2>3, <2>4 DEF TypeOK
<1>2. AgentInv'
  BY SMTT(60) DEF TypeOK, AgentInv, ThreadInv, Current,
     Acknowledged
<1>3. ThreadInv'
  BY DEF TypeOK, ThreadInv, RootInv, NoSockets
<1>4. RootInv'
  BY DEF TypeOK, RootInv, ThreadInv
<1> QED BY <1>1, <1>2, <1>3, <1>4

(* A socket that leaves the hands of the thread has been entered, or the   *)
(* thread has failed: a rank that is there already is refused.             *)
LEMMA RecvMetaInfoInv ==
    ASSUME IInv, RecvMetaInfo
    PROVE  IInv'
<1> USE RootAssumption, BoundsAssumption, CardRanks DEF IInv, RecvMetaInfo, AcceptFails,
        Thread, NoFault, rankVars
<1>1. TypeOK'
  <2>1. connectionSockets' \in [Ranks -> 0 .. MaxSockets]
    BY DEF TypeOK
  <2>2. broken' \subseteq Ranks \X (1 .. MaxSockets)
    BY DEF TypeOK, ThreadInv
  <2>3. /\ bpc' \in {"none", "accept", "meta", "finish", "done"}
        /\ expectAcceptNum' \in 0 .. Cardinality(Ranks)
    BY SMTT(60) DEF TypeOK, ThreadInv
  <2>4. backgroudThreadStop' \in BOOLEAN
    BY DEF TypeOK
  <2>5. UNCHANGED <<pc, inits, instance, socket, made, meta, ack, backlog, accepted,
                    listening, joinable, acceptFinished, aborted, faults>>
    OBVIOUS
  <2> QED BY <2>1, <2>2, <2>3, <2>4, <2>5 DEF TypeOK
<1>2. AgentInv'
  BY SMTT(60) DEF TypeOK, AgentInv, ThreadInv, Current,
     Acknowledged
<1>3. ThreadInv'
  BY DEF TypeOK, ThreadInv, RootInv, NoSockets
<1>4. RootInv'
  BY DEF TypeOK, RootInv, ThreadInv
<1> QED BY <1>1, <1>2, <1>3, <1>4

(* What is left in the listener when it closes has no answer.              *)
LEMMA StopListenInv ==
    ASSUME IInv, StopListen
    PROVE  IInv'
<1> USE RootAssumption, BoundsAssumption, CardRanks DEF IInv, StopListen, Thread,
        rankVars
<1>1. TypeOK'
  BY DEF TypeOK, AgentInv, ThreadInv, Current
<1>2. AgentInv'
  BY DEF TypeOK, AgentInv, ThreadInv, Current, Acknowledged
<1>3. ThreadInv'
  BY DEF TypeOK, ThreadInv, RootInv, NoSockets
<1>4. RootInv'
  BY DEF TypeOK, RootInv, ThreadInv
<1> QED BY <1>1, <1>2, <1>3, <1>4

(* The flag the root waits for is set when the listener is closed.         *)
LEMMA FinishAcceptInv ==
    ASSUME IInv, FinishAccept
    PROVE  IInv'
<1> USE RootAssumption, BoundsAssumption, CardRanks DEF IInv, FinishAccept, Thread,
        rankVars, sockVars
<1>1. TypeOK'
  BY DEF TypeOK, AgentInv, ThreadInv, Current
<1>2. AgentInv'
  BY DEF TypeOK, AgentInv, ThreadInv, Current, Acknowledged
<1>3. ThreadInv'
  BY DEF TypeOK, ThreadInv, RootInv, NoSockets
<1>4. RootInv'
  BY DEF TypeOK, RootInv, ThreadInv
<1> QED BY <1>1, <1>2, <1>3, <1>4

(* A broken connection changes nothing the two ends have agreed on.        *)
LEMMA BreakInv ==
    ASSUME IInv, NEW k \in Ranks \X (1 .. MaxSockets), Break(k)
    PROVE  IInv'
<1> USE RootAssumption, BoundsAssumption, CardRanks DEF IInv, Break, Fault, Held,
        rankVars, rootVars
<1>1. TypeOK'
  BY SMTT(60) DEF TypeOK, AgentInv, ThreadInv, Current
<1>2. AgentInv'
  BY DEF TypeOK, AgentInv, ThreadInv, Current, Acknowledged
<1>3. ThreadInv'
  BY DEF TypeOK, ThreadInv, RootInv, NoSockets
<1>4. RootInv'
  BY DEF TypeOK, RootInv, ThreadInv
<1> QED BY <1>1, <1>2, <1>3, <1>4

(* Every step keeps the inductive invariant.                               *)
LEMMA NextInv == IInv /\ [Next]_vars => IInv'
<1> SUFFICES ASSUME IInv, [Next]_vars PROVE IInv'
  OBVIOUS
<1>1. CASE UNCHANGED vars
  BY <1>1, SMTT(60) DEF vars, rankVars, sockVars, rootVars, IInv,
     TypeOK, AgentInv, ThreadInv, RootInv, Current, Acknowledged
<1>2. ASSUME NEW r \in Ranks,
             StartInit(r) \/ Connect(r) \/ RecvAckInfo(r) \/ InitTimeout(r) \/ UnRegister(r)
      PROVE  IInv'
  BY <1>2, StartInitInv, ConnectInv, RecvAckInfoInv, InitTimeoutInv, UnRegisterInv
<1>3. CASE WaitAcceptFinish \/ AcceptStops \/ RecvMetaInfo \/ StopListen \/ FinishAccept
  BY <1>3, WaitAcceptFinishInv, AcceptStopsInv, RecvMetaInfoInv, StopListenInv,
     FinishAcceptInv
<1>4. ASSUME NEW k \in Ranks \X (1 .. MaxSockets), SendAckInfo(k) \/ Break(k)
      PROVE  IInv'
  BY <1>4, SendAckInfoInv, BreakInv
<1> QED BY <1>1, <1>2, <1>3, <1>4 DEF Next, Done

(* The variables of the set-up keep their types, for any number of ranks.  *)
THEOREM ConnectionTypes == Spec => []TypeOK
<1>1. IInv => TypeOK
  BY DEF IInv
<1> QED BY <1>1, InitInv, NextInv, PTL DEF Spec

(* When the Init of the root and that of a rank have succeeded, the entry  *)
(* of the rank in connectionSockets_ is the other end of its socket_, for  *)
(* any number of ranks, tries and faults.                                  *)
THEOREM SocketsMatch == Spec => []SocketsMatched
<1>1. IInv => SocketsMatched
  BY RootAssumption DEF IInv, TypeOK, AgentInv, ThreadInv, RootInv, Acknowledged,
     SocketsMatched
<1> QED BY <1>1, InitInv, NextInv, PTL DEF Spec

-----------------------------------------------------------------------------
(* Nothing has failed before the first communicator is made.               *)
LEMMA InitClean == Init => CleanInv
BY RootAssumption, SMTT(60) DEF Init, CleanInv, CleanRanks,
   CleanSession, Between, NoSockets

(* The ranks that have not been entered can be counted.                    *)
LEMMA MissingCount ==
    /\ IsFiniteSet(Missing)
    /\ Cardinality(Missing) \in Nat
    /\ Cardinality(Missing) = 0 <=> Missing = {}
<1>1. IsFiniteSet(Missing)
  BY RanksAssumption, FS_Subset DEF Missing
<1> QED BY <1>1, FS_CardinalityType, FS_EmptySet

(* Without a fault no rank waits in vain, and the background thread has    *)
(* somebody to wait for while it counts.                                   *)
LEMMA NothingLost ==
    ASSUME IInv, CleanRanks, CleanSession
    PROVE  /\ \A r \in Ranks : pc[r] = "ack" => Current(r) \notin broken
           /\ \A r \in Ranks : InInit(r) => ~NoAnswer(r)
           /\ bpc \in {"accept", "meta", "finish"} =>
                joinable /\ ~backgroudThreadStop /\ pc[Root] # "ok"
           /\ bpc = "accept" => \A r \in Missing : Coming(r)
<1> USE RootAssumption, BoundsAssumption DEF IInv, TypeOK, ThreadInv, RootInv,
        CleanRanks, CleanSession
<1>1. bpc \in {"accept", "meta", "finish"} =>
         joinable /\ ~backgroudThreadStop /\ pc[Root] # "ok"
  OBVIOUS
<1>2. ASSUME NEW r \in Ranks, pc[r] = "ack" PROVE Current(r) \notin broken
  BY <1>2 DEF Place, Between
<1>3. ASSUME NEW r \in Ranks, InInit(r) PROVE ~NoAnswer(r)
  <2>1. CASE pc[r] = "connect" /\ made[r] = MaxSockets
    BY <2>1, SMTT(60)
  <2>2. CASE pc[r] = "connect" /\ ~listening
             /\ \/ r = Root \/ aborted
                \/ pc[Root] = "ok" /\ inits[r] <= inits[Root]
                \/ ~InInit(Root) /\ inits[Root] = MaxInits
    BY <2>2, SMTT(60) DEF Place, Between, Absent, Counted,
       Missing, InInit
  <2>3. CASE pc[r] = "ack" /\ Current(r) \in backlog /\ bpc \in {"none", "done"}
    BY <2>3 DEF Current, Waiting, Counted, Missing
  <2> QED BY <2>1, <2>2, <2>3 DEF NoAnswer
<1>4. ASSUME bpc = "accept", NEW r \in Missing PROVE Coming(r)
  BY <1>4, <1>1, SMTT(60) DEF AgentInv, Missing, Place, Received,
     Coming
<1> QED BY <1>1, <1>2, <1>3, <1>4

(* The root opens a session in which every rank is still absent; another   *)
(* rank comes to the session that is open, or to the next.                 *)
LEMMA StartInitClean ==
    ASSUME IInv, CleanRanks, CleanSession, NEW r \in Ranks, StartInit(r), faults' = 0
    PROVE  CleanRanks' /\ CleanSession'
<1> USE RootAssumption, BoundsAssumption DEF IInv, StartInit, StartListen, GetInstance,
        Goto, Alive, rootVars
<1>1. CleanRanks'
  BY SMTT(60) DEF TypeOK, AgentInv, ThreadInv, RootInv,
     CleanRanks, CleanSession, Current
<1>2. CASE r = Root
  <2> USE <1>2
  <2>1. ~joinable /\ connectionSockets' = NoSockets /\ backlog' = {} /\ bpc' = "accept"
    BY DEF CleanRanks, ThreadInv
  <2>2. joinable' /\ ~backgroudThreadStop' /\ listening'
    BY <2>1
  <2>3. ASSUME NEW q \in Ranks PROVE Place(q)'
    <3>1. Absent(q)'
      BY <2>1 DEF Absent, NoSockets
    <3>2. Between(q)
      BY <2>1 DEF CleanSession
    <3> QED BY <3>1, <3>2, SMTT(60) DEF Between, Place, TypeOK
  <2>4. Waiting' /\ InHand'
    BY <2>1 DEF Waiting, InHand
  <2>5. Missing' = Ranks /\ expectAcceptNum' = Cardinality(Ranks)
    BY <2>1 DEF Missing, NoSockets
  <2>6. Counted'
    BY <2>1, <2>2, <2>5 DEF Counted
  <2> QED BY <1>1, <2>1, <2>2, <2>3, <2>4, <2>6 DEF CleanSession
<1>3. CASE r # Root
  <2> USE <1>3
  <2>1. UNCHANGED <<rootVars, broken, backlog, socket, made, meta, ack>>
    OBVIOUS
  <2>2. ASSUME joinable, NEW q \in Ranks PROVE Place(q)'
    BY <2>1, <2>2, SMTT(60) DEF CleanSession, Place, Absent,
       Received, Current, TypeOK
  <2>3. ASSUME joinable PROVE Waiting' /\ InHand'
    <3>1. Waiting'
      BY <2>1, <2>3 DEF CleanSession, Waiting, Current, TypeOK
    <3>2. InHand'
      BY <2>1, <2>3 DEF CleanSession, InHand, Current, TypeOK
    <3> QED BY <3>1, <3>2
  <2>4. ASSUME joinable PROVE Counted' /\ ~backgroudThreadStop' /\ bpc' # "none"
    BY <2>1, <2>4 DEF CleanSession, Counted, Missing
  <2>5. ASSUME ~joinable, NEW q \in Ranks PROVE Between(q)'
    BY <2>1, <2>5 DEF CleanSession, Between, TypeOK
  <2> QED BY <1>1, <2>1, <2>2, <2>3, <2>4, <2>5 DEF CleanSession
<1> QED BY <1>2, <1>3

(* A rank connects to the session of its communicator, with a socket       *)
(* nobody has seen.                                                        *)
LEMMA ConnectClean ==
    ASSUME IInv, CleanRanks, CleanSession, NEW r \in Ranks, Connect(r), faults' = 0
    PROVE  CleanRanks' /\ CleanSession'
<1> USE RootAssumption, BoundsAssumption DEF IInv, Connect, Goto, Held, Alive, rootVars,
        Fault, NoFault
<1> DEFINE new == <<r, made[r] + 1>>
<1>1. /\ joinable /\ bpc \in {"accept", "meta"} /\ pc[Root] # "ok"
      /\ inits[r] = inits[Root] /\ Absent(r)
  <2>1. joinable /\ pc[Root] # "ok"
    BY DEF ThreadInv, RootInv
  <2>2. inits[r] = inits[Root] /\ Absent(r)
    BY <2>1 DEF CleanSession, Place
  <2>3. bpc \notin {"none", "finish", "done"}
    BY <2>1, <2>2 DEF CleanSession, Absent, Counted, Missing
  <2> QED BY <2>1, <2>2, <2>3 DEF TypeOK
<1>2. /\ new \notin broken \cup ack /\ Held(r) = {}
      /\ pc' = [pc EXCEPT ![r] = "ack"] /\ meta' = meta \cup {new}
      /\ UNCHANGED <<broken, ack, inits, rootVars, connectionSockets>>
  <2>1. Held(r) = {}
    BY DEF CleanRanks
  <2>2. new \notin broken /\ new \notin ack
    BY SMTT(60) DEF TypeOK, CleanRanks, AgentInv
  <2>3. ~Fault
    BY SMTT(60) DEF TypeOK
  <2> QED BY <2>1, <2>2, <2>3
<1>3. CleanRanks'
  BY <1>2, SMTT(60) DEF TypeOK, CleanRanks
<1>4. ASSUME NEW q \in Ranks PROVE Place(q)'
  <2>1. CASE q = r
    BY <1>1, <1>2, <2>1 DEF TypeOK, Place, Current
  <2>2. CASE q # r
    BY <1>1, <1>2, <2>2, SMTT(60) DEF TypeOK, CleanSession, Place,
       Absent, Received, Current
  <2> QED BY <2>1, <2>2
<1>5. Waiting'
  BY <1>1, <1>2, SMTT(60) DEF TypeOK, CleanSession, Waiting,
     Current, Absent
<1>6. InHand'
  BY <1>1, <1>2 DEF TypeOK, CleanSession, InHand, Current
<1>7. Counted'
  <2>1. UNCHANGED <<bpc, listening, expectAcceptNum, connectionSockets>>
    BY <1>2
  <2> QED BY <1>1, <2>1, CountedKept DEF CleanSession
<1>8. joinable' /\ ~backgroudThreadStop' /\ bpc' # "none"
  <2>1. UNCHANGED <<joinable, backgroudThreadStop, bpc>>
    BY <1>2
  <2> HIDE DEF Connect
  <2> QED BY <1>1, <2>1 DEF CleanSession
<1> QED BY <1>3, <1>4, <1>5, <1>6, <1>7, <1>8 DEF CleanSession

(* A rank is through when the background thread has its socket.            *)
LEMMA RecvAckInfoClean ==
    ASSUME IInv, CleanRanks, CleanSession, NEW r \in Ranks, RecvAckInfo(r), faults' = 0
    PROVE  CleanRanks' /\ CleanSession'
<1> USE RootAssumption, BoundsAssumption DEF IInv, RecvAckInfo, Goto, Alive, rootVars,
        sockVars
<1>0. Current(r) \notin broken /\ Current(r) \in ack
      /\ pc' = [pc EXCEPT ![r] = IF r = Root THEN "wait" ELSE "ok"]
  BY NothingLost
<1>1. CleanRanks'
  BY <1>0 DEF TypeOK, AgentInv, ThreadInv, RootInv, CleanRanks, CleanSession,
     Current
<1>2. ASSUME joinable', NEW q \in Ranks PROVE Place(q)'
  BY <1>0, <1>2, SMTT(60) DEF TypeOK, AgentInv, ThreadInv,
     RootInv, CleanRanks, CleanSession, Place, Absent, Received, Current,
     Waiting, InHand, Between
<1>3. ASSUME joinable' PROVE Waiting'
  BY <1>0, <1>3, SMTT(60) DEF TypeOK, AgentInv, ThreadInv,
     RootInv, CleanRanks, CleanSession, Place, Absent, Received, Current,
     Waiting, InHand, Between
<1>4. ASSUME joinable' PROVE InHand'
  BY <1>4 DEF TypeOK, AgentInv, ThreadInv, RootInv, CleanRanks, CleanSession,
     Place, Absent, Received, Current, Waiting, InHand, Between
<1>5. ASSUME joinable' PROVE ~backgroudThreadStop' /\ bpc' # "none" /\ Counted'
  BY <1>5, MissingCount, SMTT(60) DEF TypeOK, AgentInv, ThreadInv,
     RootInv, CleanRanks, CleanSession, Counted, Missing
<1>6. ASSUME ~joinable', NEW q \in Ranks PROVE Between(q)'
  BY <1>6 DEF TypeOK, AgentInv, ThreadInv, RootInv, CleanRanks, CleanSession,
     Place, Absent, Received, Current, Waiting, InHand, Between
<1> QED BY <1>1, <1>2, <1>3, <1>4, <1>5, <1>6 DEF CleanSession

(* The root finds every rank entered.                                      *)
LEMMA WaitAcceptFinishClean ==
    ASSUME IInv, CleanRanks, CleanSession, WaitAcceptFinish, faults' = 0
    PROVE  CleanRanks' /\ CleanSession'
<1> USE RootAssumption, BoundsAssumption DEF IInv, WaitAcceptFinish, Goto, Alive,
        rootVars, sockVars
<1>1. joinable /\ bpc = "done" /\ Missing = {} /\ pc' = [pc EXCEPT ![Root] = "ok"]
  BY DEF CleanRanks, ThreadInv, CleanSession, Counted, Missing
<1>2. CleanRanks'
  BY <1>1 DEF TypeOK, CleanRanks
<1>3. ASSUME NEW q \in Ranks PROVE Place(q)'
  <2>1. pc'[q] = (IF q = Root THEN "ok" ELSE pc[q]) /\ pc[Root] = "wait"
    BY <1>1 DEF TypeOK
  <2>2. pc'[Root] = "ok" /\ Current(q)' = Current(q)
    BY <1>1 DEF TypeOK, Current
  <2>3. (Absent(q)' <=> Absent(q)) /\ (Received(q)' <=> Received(q))
    BY ReceivedKept
  <2>4. Place(q) /\ UNCHANGED <<inits, broken, backlog>>
    BY <1>1 DEF CleanSession
  <2> HIDE DEF IInv, WaitAcceptFinish, Goto, Alive
  <2>5. CASE q = Root
    BY <2>1, <2>2, <2>3, <2>4, <2>5 DEF Place
  <2>6. CASE q # Root
    BY <2>1, <2>2, <2>3, <2>4, <2>6 DEF Place
  <2> QED BY <2>5, <2>6
<1>4. Waiting'
  BY <1>1 DEF TypeOK, CleanSession, Waiting, Current
<1>5. InHand' /\ Counted'
  BY <1>1 DEF InHand, Counted, Missing
<1> QED BY <1>1, <1>2, <1>3, <1>4, <1>5 DEF CleanSession

(* There is no time-out without a fault.                                   *)
LEMMA InitTimeoutClean ==
    ASSUME IInv, CleanRanks, CleanSession, NEW r \in Ranks, InitTimeout(r), faults' = 0
    PROVE  CleanRanks' /\ CleanSession'
<1> USE RootAssumption, BoundsAssumption DEF IInv, InitTimeout, Fault
<1>1. NoAnswer(r)
  BY SMTT(60) DEF TypeOK
<1> QED BY <1>1, NothingLost

(* The root leaves when every rank has been through, and the others when   *)
(* the root has.                                                           *)
LEMMA UnRegisterClean ==
    ASSUME IInv, CleanRanks, CleanSession, NEW r \in Ranks, UnRegister(r), faults' = 0
    PROVE  CleanRanks' /\ CleanSession'
<1> USE RootAssumption, BoundsAssumption DEF IInv, UnRegister, Goto, Alive, rootVars
<1>1. /\ pc[r] = "ok" /\ (\A q \in Ranks : Through(q, inits[r])) /\ DeInit(r)
      /\ pc' = [pc EXCEPT ![r] = "idle"] /\ UNCHANGED inits
  BY DEF CleanRanks
<1>2. CleanRanks'
  <2>1. ~aborted' /\ (joinable' <=> pc'[Root] # "idle")
    BY <1>1 DEF DeInit, TypeOK, CleanRanks
  <2>2. UNCHANGED made /\ connectionSockets' \in {connectionSockets, NoSockets}
    BY <1>1 DEF DeInit
  <2>3. ASSUME NEW q \in Ranks
        PROVE  /\ pc'[q] # "failed" /\ (pc'[q] = "wait" => q = Root)
               /\ made'[q] = IF pc'[q] = "connect" THEN inits'[q] - 1 ELSE inits'[q]
    BY <1>1, <2>2 DEF TypeOK, CleanRanks
  <2>4. ASSUME NEW q \in Ranks
        PROVE  /\ pc'[q] \in {"idle", "connect"} => socket'[q] = 0
               /\ connectionSockets'[q] <= made'[q]
    BY <1>1, <2>2, SMTT(60) DEF DeInit, TypeOK, CleanRanks,
       NoSockets
  <2>5. ASSUME NEW k \in broken' PROVE k[2] <= made'[k[1]]
    <3>1. \/ k \in broken
          \/ k = Current(r) /\ socket[r] = made[r]
          \/ \E q \in Ranks : k = <<q, connectionSockets[q]>>
      BY <1>1 DEF DeInit, Held, AllConnections, AgentInv
    <3>2. \A q \in Ranks : made[q] \in Nat /\ connectionSockets[q] <= made[q]
      BY SMTT(60) DEF TypeOK, CleanRanks
    <3>3. \A q \in broken : q[2] <= made[q[1]]
      BY DEF CleanRanks
    <3> HIDE DEF IInv, UnRegister, Goto, Alive, rootVars
    <3> QED BY <2>2, <3>1, <3>2, <3>3 DEF Current
  <2> QED BY <2>1, <2>3, <2>4, <2>5 DEF CleanRanks
<1>3. CASE r = Root
  <2>1. joinable /\ ~joinable'
    BY <1>1, <1>3 DEF DeInit, CleanRanks
  <2>2. ASSUME NEW q \in Ranks PROVE Between(q)'
    BY <1>1, <1>3, <2>1, <2>2, SMTT(60) DEF Through, InInit,
       TypeOK, CleanRanks, CleanSession, Place, Between
  <2> QED BY <1>2, <2>1, <2>2 DEF CleanSession
<1>4. CASE r # Root
  <2>1. /\ socket' = [socket EXCEPT ![r] = 0] /\ broken' = broken \cup {Current(r)}
        /\ UNCHANGED <<rootVars, made, meta, ack, backlog>>
    BY <1>1, <1>4 DEF DeInit, Held, AgentInv
  <2>2. joinable /\ inits[r] = inits[Root] => pc[Root] = "ok"
    BY <1>1, SMTT(60) DEF Through, InInit, TypeOK, CleanRanks
  <2>3. ASSUME joinable, NEW q \in Ranks PROVE Place(q)'
    <3>1. CASE q = r
      BY <1>1, <1>4, <2>1, <2>2, <2>3, <3>1 DEF TypeOK, CleanSession, Place,
         Absent
    <3>2. CASE q # r
      BY <1>1, <1>4, <2>1, <2>3, <3>2, SMTT(60) DEF TypeOK,
         CleanSession, Place, Absent, Received, Current
    <3> QED BY <3>1, <3>2
  <2>4. ASSUME joinable PROVE Waiting'
    BY <1>1, <2>1, <2>4 DEF TypeOK, CleanSession, Waiting, Current
  <2>5. ASSUME joinable PROVE InHand'
    BY <1>1, <1>4, <2>1, <2>2, <2>5, NothingLost, SMTT(60) DEF
       TypeOK, CleanSession, InHand, Current
  <2>6. ASSUME joinable PROVE Counted' /\ ~backgroudThreadStop' /\ bpc' # "none"
    BY <2>1, <2>6, CountedKept DEF CleanSession
  <2>7. ASSUME ~joinable, NEW q \in Ranks PROVE Between(q)'
    BY <1>1, <1>4, <2>7 DEF TypeOK, CleanSession, Between
  <2> QED BY <1>2, <2>1, <2>3, <2>4, <2>5, <2>6, <2>7 DEF CleanSession
<1> QED BY <1>3, <1>4

(* Accept does not time out while a rank is missing: it is on its way.     *)
LEMMA AcceptStopsClean ==
    ASSUME IInv, CleanRanks, CleanSession, AcceptStops, faults' = 0
    PROVE  CleanRanks' /\ CleanSession'
<1> USE RootAssumption, BoundsAssumption DEF IInv, AcceptStops, Fault
<1>1. /\ bpc = "accept" /\ ~backgroudThreadStop /\ backlog = {}
      /\ \A r \in Ranks : ~Coming(r)
  <2>1. ~Fault
    BY SMTT(60) DEF TypeOK
  <2> HIDE DEF Fault
  <2> QED BY <2>1, NothingLost
<1>2. joinable /\ expectAcceptNum = Cardinality(Missing)
  BY NothingLost DEF CleanSession, Counted
<1> HIDE DEF AcceptStops
<1>3. Missing # {}
  BY <1>2, MissingCount DEF AcceptStops
<1> QED BY <1>1, <1>3, NothingLost DEF Missing

(* The socket taken from the listener is that of a rank not yet entered.   *)
LEMMA SendAckInfoClean ==
    ASSUME IInv, CleanRanks, CleanSession, NEW k \in Ranks \X (1 .. MaxSockets), SendAckInfo(k), faults' = 0
    PROVE  CleanRanks' /\ CleanSession'
<1> USE RootAssumption, BoundsAssumption DEF IInv, SendAckInfo, AcceptFails, Thread,
        Fault, NoFault, rankVars
<1>1. joinable /\ ~backgroudThreadStop /\ k = Current(k[1]) /\ k \in meta \ broken
  BY NothingLost DEF TypeOK, CleanSession, Waiting
<1>2. /\ ack' = ack \cup {k} /\ accepted' = k /\ bpc' = "meta"
      /\ UNCHANGED <<broken, expectAcceptNum, connectionSockets, backgroudThreadStop>>
  BY <1>1, SMTT(60) DEF TypeOK
<1>3. CleanRanks'
  BY <1>2 DEF CleanRanks
<1>4. ASSUME NEW q \in Ranks PROVE Place(q)'
  BY <1>1, <1>2, <1>4, SMTT(60) DEF TypeOK, CleanSession, Waiting, Place, Absent,
     Received, Current
<1>5. Waiting'
  BY <1>1, <1>2 DEF CleanSession, Waiting, Current
<1>6. InHand'
  BY <1>1, <1>2 DEF TypeOK, CleanSession, Waiting, Place, InHand, Current
<1>7. Counted'
  BY <1>1, <1>2 DEF CleanSession, Counted, Missing
<1> QED BY <1>1, <1>2, <1>3, <1>4, <1>5, <1>6, <1>7 DEF CleanSession

(* The rank is entered, and one less is missing.                           *)
LEMMA RecvMetaInfoClean ==
    ASSUME IInv, CleanRanks, CleanSession, RecvMetaInfo, faults' = 0
    PROVE  CleanRanks' /\ CleanSession'
<1> USE RootAssumption, BoundsAssumption DEF IInv, RecvMetaInfo, AcceptFails, Thread,
        NoFault, rankVars
<1> DEFINE peer == accepted[1]
<1>1. /\ joinable /\ ~backgroudThreadStop /\ peer \in Missing /\ accepted = Current(peer)
      /\ expectAcceptNum = Cardinality(Missing) /\ listening
  BY NothingLost DEF TypeOK, CleanSession, InHand, Missing, Counted
<1>2. /\ connectionSockets' = [connectionSockets EXCEPT ![peer] = socket[peer]]
      /\ expectAcceptNum' = expectAcceptNum - 1 /\ bpc' = "accept"
      /\ UNCHANGED <<broken, accepted, backgroudThreadStop>>
  BY <1>1, SMTT(60) DEF Missing, CleanSession, InHand, Current
<1>3. CleanRanks'
  BY <1>1, <1>2, SMTT(60) DEF TypeOK, AgentInv, CleanRanks
<1>4. ASSUME NEW q \in Ranks PROVE Place(q)'
  BY <1>1, <1>2, <1>4, SMTT(60) DEF TypeOK, CleanSession, InHand, Missing, Place,
     Absent, Received, Current
<1>5. Waiting'
  BY <1>1, <1>2, SMTT(60) DEF TypeOK, CleanSession, Waiting,
     InHand, AgentInv, ThreadInv, Current
<1>6. InHand'
  BY <1>2 DEF InHand
<1>7. Counted'
  <2>1. Missing' = Missing \ {peer}
    BY <1>1, <1>2 DEF TypeOK, Missing, AgentInv, CleanSession, InHand
  <2>2. Cardinality(Missing \ {peer}) = Cardinality(Missing) - 1
    BY <1>1, MissingCount, FS_RemoveElement
  <2> QED BY <1>1, <1>2, <2>1, <2>2 DEF Counted
<1> QED BY <1>1, <1>2, <1>3, <1>4, <1>5, <1>6, <1>7 DEF CleanSession

(* Nothing is left in the listener when all have been entered.             *)
LEMMA StopListenClean ==
    ASSUME IInv, CleanRanks, CleanSession, StopListen, faults' = 0
    PROVE  CleanRanks' /\ CleanSession'
<1> USE RootAssumption, BoundsAssumption DEF IInv, StopListen, Thread, rankVars
<1>1. joinable /\ ~backgroudThreadStop /\ Missing = {}
  BY NothingLost, MissingCount DEF CleanSession, Counted
<1>2. backlog = {} /\ UNCHANGED <<broken, backlog>>
  BY <1>1, SMTT(60) DEF TypeOK, CleanSession, Waiting, Missing
<1>3. CleanRanks'
  BY <1>2 DEF CleanRanks
<1>4. ASSUME NEW q \in Ranks PROVE Place(q)'
  BY <1>1, <1>2, <1>4 DEF CleanSession, Place, Absent, Received, Current
<1>5. Waiting' /\ InHand' /\ Counted'
  BY <1>1, <1>2 DEF Waiting, InHand, Counted, Missing
<1> QED BY <1>1, <1>3, <1>4, <1>5 DEF CleanSession

(* The end of the thread changes nothing of the session.                   *)
LEMMA FinishAcceptClean ==
    ASSUME IInv, CleanRanks, CleanSession, FinishAccept, faults' = 0
    PROVE  CleanRanks' /\ CleanSession'
<1> USE RootAssumption, BoundsAssumption DEF IInv, FinishAccept, Thread, rankVars,
        sockVars
<1>1. CleanRanks'
  BY DEF TypeOK, AgentInv, ThreadInv, RootInv, CleanRanks, CleanSession,
     Current
<1>2. ASSUME joinable', NEW q \in Ranks PROVE Place(q)'
  BY <1>2 DEF TypeOK, AgentInv, ThreadInv, RootInv, CleanRanks, CleanSession,
     Place, Absent, Received, Current, Waiting, InHand, Between
<1>3. ASSUME joinable' PROVE Waiting'
  BY <1>3 DEF TypeOK, AgentInv, ThreadInv, RootInv, CleanRanks, CleanSession,
     Place, Absent, Received, Current, Waiting, InHand, Between
<1>4. ASSUME joinable' PROVE InHand'
  BY <1>4 DEF TypeOK, AgentInv, ThreadInv, RootInv, CleanRanks, CleanSession,
     Place, Absent, Received, Current, Waiting, InHand, Between
<1>5. ASSUME joinable' PROVE ~backgroudThreadStop' /\ bpc' # "none" /\ Counted'
  BY <1>5, MissingCount DEF TypeOK, AgentInv, ThreadInv, RootInv, CleanRanks,
     CleanSession, Counted, Missing
<1>6. ASSUME ~joinable', NEW q \in Ranks PROVE Between(q)'
  BY <1>6 DEF TypeOK, AgentInv, ThreadInv, RootInv, CleanRanks, CleanSession,
     Place, Absent, Received, Current, Waiting, InHand, Between
<1> QED BY <1>1, <1>2, <1>3, <1>4, <1>5, <1>6 DEF CleanSession

(* Every step without a fault keeps the session clean.                     *)
LEMMA NextClean == IInv /\ CleanInv /\ [Next]_vars => CleanInv'
<1> SUFFICES ASSUME IInv, CleanInv, [Next]_vars, faults' = 0 PROVE CleanRanks' /\ CleanSession'
  BY DEF CleanInv
<1>1. CASE UNCHANGED vars
  <2> USE <1>1 DEF vars, rankVars, sockVars, rootVars
  <2>0. CleanRanks /\ CleanSession
    BY DEF CleanInv
  <2>1. CleanRanks'
    BY <2>0 DEF CleanRanks
  <2>2. ASSUME NEW q \in Ranks PROVE (Place(q)' <=> Place(q)) /\ (Between(q)' <=> Between(q))
    BY ReceivedKept DEF Place, Between, Current
  <2>3. (Waiting => Waiting') /\ (InHand => InHand')
    BY DEF Waiting, InHand, Current
  <2>4. Counted => Counted'
    BY CountedKept
  <2> QED BY <2>0, <2>1, <2>2, <2>3, <2>4 DEF CleanSession
<1>2. CASE Next
  <2>1. faults = 0
    <3>1. ASSUME NEW r \in Ranks,
                 StartInit(r) \/ Connect(r) \/ RecvAckInfo(r) \/ InitTimeout(r) \/ UnRegister(r)
          PROVE  Fault \/ NoFault
      BY <3>1 DEF StartInit, Connect, RecvAckInfo, InitTimeout, UnRegister,
         NoFault
    <3>2. ASSUME \/ WaitAcceptFinish \/ AcceptStops \/ RecvMetaInfo \/ StopListen
                 \/ FinishAccept
          PROVE  Fault \/ NoFault
      BY <3>2 DEF WaitAcceptFinish, AcceptStops, RecvMetaInfo, StopListen,
         FinishAccept, NoFault
    <3>3. ASSUME NEW k \in Ranks \X (1 .. MaxSockets), SendAckInfo(k) \/ Break(k)
          PROVE  Fault \/ NoFault
      BY <3>3 DEF SendAckInfo, Break
    <3>4. Fault \/ NoFault
      BY <1>2, <3>1, <3>2, <3>3 DEF Next, Done, vars, NoFault
    <3>5. faults \in 0 .. MaxFaults /\ MaxFaults \in Nat
      BY BoundsAssumption DEF IInv, TypeOK
    <3> QED BY <3>4, <3>5 DEF Fault, NoFault
  <2>2. CleanRanks /\ CleanSession
    BY <2>1 DEF CleanInv
  <2>3. ASSUME NEW r \in Ranks,
               StartInit(r) \/ Connect(r) \/ RecvAckInfo(r) \/ InitTimeout(r) \/ UnRegister(r)
        PROVE  CleanRanks' /\ CleanSession'
    BY <2>1, <2>2, <2>3, StartInitClean, ConnectClean, RecvAckInfoClean,
       InitTimeoutClean, UnRegisterClean
  <2>4. CASE WaitAcceptFinish \/ AcceptStops \/ RecvMetaInfo \/ StopListen \/ FinishAccept
    BY <2>1, <2>2, <2>4, WaitAcceptFinishClean, AcceptStopsClean,
       RecvMetaInfoClean, StopListenClean, FinishAcceptClean
  <2>5. ASSUME NEW k \in Ranks \X (1 .. MaxSockets), SendAckInfo(k) PROVE CleanRanks' /\ CleanSession'
    BY <2>1, <2>2, <2>5, SendAckInfoClean
  <2>6. ASSUME NEW k \in Ranks \X (1 .. MaxSockets), Break(k) PROVE FALSE
    BY <2>1, <2>6, SMTT(60) DEF Break, Fault
  <2> QED BY <1>1, <1>2, <2>3, <2>4, <2>5, <2>6 DEF Next, Done
<1> QED BY <1>1, <1>2

(* With no time-out and no broken connection no Init fails and the process *)
(* of the root is never ended, for any number of ranks and of              *)
(* communicators in turn.                                                  *)
THEOREM CleanSetups == Spec => []CleanSetupSucceeds
<1>1. CleanInv => CleanSetupSucceeds
  BY DEF CleanInv, CleanRanks, CleanSetupSucceeds
<1> QED BY <1>1, InitInv, NextInv, InitClean, NextClean, PTL DEF Spec

=============================================================================
