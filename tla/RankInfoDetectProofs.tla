------------------------ MODULE RankInfoDetectProofs ------------------------
(***************************************************************************)
(* The rank table exchange, for any number of ranks, of workers and of     *)
(* faults and any configuration: what the service and the clients keep     *)
(* between them, step by step.  The facts about finite sets and sequences, *)
(* and about the threads of the broadcast, that a step needs are           *)
(* hypotheses of its lemma; RankInfoExchangeProofs proves them and puts    *)
(* the steps together.                                                     *)
(***************************************************************************)
EXTENDS RankInfoDetect, TLAPS

(* The provers a leaf is tried with that does not name one itself.         *)
USE ZenonT(40), SMTT(60)

(* The service is gathering, or has not come so far.                       *)
Gathering == spc \in {"start", "accept", "agentId", "rankSize", "gather"}

(* Which steps of the service go with which of the broadcast.              *)
PhaseInv ==
    /\ Gathering => mpc = "none"
    /\ spc = "broadcast" => mpc # "none"
    /\ spc \in {"idle", "destroy"} => mpc = "gone" /\ ret = "success"
    /\ spc \in {"error", "teardown", "end"} => mpc \in {"none", "gone"}

(* A socket is in the listener, with the service, or closed; the table is  *)
(* gathered from the sockets the service has, and sent to the same.        *)
SocketInv ==
    /\ backlog \cap connSockets = {} /\ closed \cap (backlog \cup connSockets) = {}
    /\ \A c \in backlog \cup closed \cup connSockets : cpc[c] # "start"
    /\ spc = "agentId" => /\ cur \notin backlog \cup connSockets \cup closed
                          /\ cpc[cur] # "start"
    /\ spc = "rankSize" => cur \in connSockets
    /\ spc \in {"start", "accept", "agentId", "rankSize"} => rankTable = {}
    /\ spc = "gather" => /\ rankTable \cup gather = connSockets
                         /\ rankTable \cap gather = {}
    /\ mpc # "none" => conn = rankTable /\ (spc # "end" => conn = connSockets)

(* The root's client has checked the table before it waits.                *)
ClientInv ==
    \A c \in Clients :
       cpc[c] = "wait" => c = Root /\ IsOk(c) /\ VerifyRankTable(c)

(* What the service reads next from a socket.                              *)
MessageInv ==
    /\ \A c \in Clients : cpc[c] \in {"start", "connected"} => up[c] = <<>>
    /\ \A c \in Clients \ (connSockets \cup closed) :
          Len(up[c]) > 1 => up[c][2] = "rankSize"
    /\ spc = "rankSize" \/ (spc = "gather" /\ previous = 0) =>
          up[cur] = <<>> \/ up[cur][1] # "rankTable"

(* How many connections the service still waits for.                       *)
ExpectInv ==
    /\ spc \in {"agentId", "rankSize"} => expected > 0
    /\ spc \in {"start", "accept", "agentId"} =>
          IF previous = 0 THEN connSockets = {} /\ expected = 1
          ELSE expected = previous - Cardinality(connSockets)
    /\ spc = "rankSize" =>
          IF previous = 0 THEN connSockets = {cur} /\ expected = 1
          ELSE expected = previous - Cardinality(connSockets) + 1
    /\ spc = "gather" /\ previous = 0 => cur \in gather
    /\ previous # 0 => \E c \in Clients : previous = cfg.size[c]

(* The ids of the ranks that are missing have been found.                  *)
LastWordsInv ==
    WellConfigured /\ ((spc = "gather" /\ previous # 0) \/ mpc # "none") =>
        failedIds = (0 .. cfg.size[Root] - 1)
                        \ AgentIds(IF mpc = "none" THEN connSockets ELSE rankTable)

DetectInv ==
    /\ TypeOK /\ PhaseInv /\ SocketInv /\ ClientInv /\ MessageInv /\ ExpectInv
    /\ LastWordsInv

-----------------------------------------------------------------------------
Msg == {"agentId", "rankSize", "rankTable"}

(* How a receive of the service changes the messages of c.                 *)
Taken(c) ==
    /\ up' \in [Clients -> Seq(Msg)] /\ up[c] # <<>>
    /\ \A d \in Clients \ {c} : up'[d] = up[d]
    /\ up'[c] = <<>> \/ (Len(up[c]) > 1 /\ up'[c][1] = up[c][2])

(* How sets of ranks are counted.                                          *)
Counting ==
    /\ \A c \in Clients : Cardinality({c}) = 1
    /\ \A S \in SUBSET Clients :
          /\ Cardinality(S) \in Nat
          /\ \A c \in Clients \ S : Cardinality(S \cup {c}) = Cardinality(S) + 1
          /\ Cardinality(S) = Cardinality(Clients) <=> S = Clients

(* Ranks of which there are as many as the size have all the ids.          *)
Pigeonhole ==
    \A S \in SUBSET Clients : WellConfigured /\ Cardinality(S) = cfg.size[Root] =>
        AgentIds(S) = 0 .. cfg.size[Root] - 1

(* What the threads of the broadcast promise the service and the clients.  *)
BroadcastInv ==
    /\ \A c \in Clients : IsOk(c) => mpc # "none" /\ c \in conn
    /\ mpc = "none" => ~stop
    /\ SuccessMeansSent

(* What a client finds out about the table depends on the table only.      *)
LEMMA VerifyKept ==
    ASSUME UNCHANGED <<cfg, rankTable>>, NEW c
    PROVE  VerifyRankTable(c)' <=> VerifyRankTable(c)
BY SMTT(60) DEF VerifyRankTable, Check, VerifyTlsConsistency,
   AgentIds

(* The root's client keeps waiting for a table it has checked.             *)
LEMMA ClientKept ==
    ASSUME ClientInv, UNCHANGED <<cfg, rankTable, sent, cpc>>
    PROVE  ClientInv'
BY VerifyKept DEF ClientInv, IsOk

(* The missing ids stay right while the sockets they were found from do.   *)
LEMMA LastWordsKept ==
    ASSUME LastWordsInv, UNCHANGED <<cfg, mpc, failedIds>>,
           mpc = "none" \/ UNCHANGED rankTable,
           spc' # "gather" \/ UNCHANGED <<spc, previous, connSockets>>
    PROVE  LastWordsInv'
BY SMTT(60) DEF LastWordsInv, WellConfigured, AgentIds

(* The parts of a configuration.                                           *)
LEMMA CfgType ==
    ASSUME TypeOK
    PROVE  /\ cfg.id \in [Clients -> Nat] /\ cfg.size \in [Clients -> Nat \ {0}]
           /\ cfg.listed \subseteq Clients /\ cfg.faults \in Nat
BY ConfigsAssumption DEF TypeOK, Config

(* Before the broadcast no client has a table.                             *)
LEMMA NobodyWaits ==
    ASSUME BroadcastInv, ClientInv, mpc = "none"
    PROVE  \A c \in Clients : ~IsOk(c) /\ cpc[c] # "wait"
BY DEF BroadcastInv, ClientInv

(* FailedConnectionAgentIdString, at the end of GetConnections, finds      *)
(* exactly the missing ids of well configured ranks.                       *)
LEMMA LastWordsFound ==
    ASSUME TypeOK, ExpectInv, Counting, Pigeonhole, EndConnections, mpc = "none",
           spc \in {"accept", "agentId", "rankSize"},
           UNCHANGED <<cfg, mpc, connSockets, expected, previous>>
    PROVE  LastWordsInv'
<1> SUFFICES ASSUME WellConfigured, previous # 0, connSockets # {}
             PROVE  failedIds' = (0 .. cfg.size[Root] - 1) \ AgentIds(connSockets)
  BY SMTT(60) DEF LastWordsInv, EndConnections, WellConfigured,
     AgentIds
<1>1. previous = cfg.size[Root] /\ \A c \in Clients : cfg.id[c] < previous
  BY CfgType, RootAssumption, SMTT(60) DEF ExpectInv,
     WellConfigured
<1>2. CASE expected > 0
  <2>1. failedIds' = FailedConnectionAgentIds(connSockets, previous)
    BY <1>2 DEF EndConnections, FailedConnectionAgentIds, AgentIds
  <2> QED BY <1>1, <2>1 DEF FailedConnectionAgentIds, TypeOK
<1>3. CASE ~(expected > 0)
  <2>1. failedIds' = {}
    BY <1>3 DEF EndConnections
  <2>2. Cardinality(connSockets) = cfg.size[Root]
    <3>1. /\ Cardinality(connSockets) \in Nat /\ expected \in Nat /\ previous \in Nat
          /\ Cardinality({cur}) = 1
      BY DEF TypeOK, Counting
    <3> QED BY <1>1, <1>3, <3>1 DEF ExpectInv
  <2> QED BY <2>1, <2>2 DEF TypeOK, Pigeonhole
<1> QED BY <1>2, <1>3

(* Steps of the service that change its place and the status only.         *)
LEMMA PhaseStepDetect ==
    ASSUME DispTypeOK', DetectInv, listening' \in BOOLEAN,
           status' \in {"absent", "running", "idle", "error"},
           UNCHANGED <<cfg, cpc, up, conn, sent, mpc, ret, backlog, closed, cur,
                       connSockets, expected, previous, failedIds, gather, rankTable>>,
           \/ spc = "start" /\ spc' = "accept"
           \/ /\ ~Gathering /\ spc # "end" /\ PhaseInv'
              /\ spc' \in {"idle", "destroy", "error", "teardown"}
    PROVE  DetectInv'
<1> USE DEF DetectInv
<1>1. TypeOK'
  BY DEF TypeOK
<1>2. PhaseInv'
  BY DEF PhaseInv, Gathering
<1>3. SocketInv'
  BY DEF SocketInv
<1>4. ClientInv' /\ LastWordsInv'
  BY ClientKept, LastWordsKept
<1>5. MessageInv' /\ ExpectInv'
  BY DEF MessageInv, ExpectInv
<1> QED BY <1>1, <1>2, <1>3, <1>4, <1>5

(* Steps of a client: a rank that connects is in the listener and nowhere  *)
(* else; it sends its messages in order, or a prefix of them if it ends;   *)
(* the root's client waits only with the whole, checked table.             *)
LEMMA ClientStepDetect ==
    ASSUME DispTypeOK', DetectInv, NEW c \in Clients,
           NEW pc \in {"connected", "recv", "wait", "ok", "failed"}, ClientGoto(c, pc),
           UNCHANGED <<cfg, conn, sent, mpc, ret, spc, gather, rankTable, status, closed,
                       listening, cur, connSockets, expected, previous, failedIds>>,
           UNCHANGED backlog \/ (cpc[c] = "start" /\ backlog' = backlog \cup {c}),
           pc = "connected" => cpc[c] = "start",
           pc = "wait" => c = Root /\ IsOk(c) /\ VerifyRankTable(c),
           up' \in [Clients -> Seq(Msg)], \A d \in Clients \ {c} : up'[d] = up[d],
           \/ up'[c] = up[c]
           \/ /\ pc # "connected" /\ up'[c][1] = "agentId"
              /\ Len(up'[c]) > 1 => up'[c][2] = "rankSize"
    PROVE  DetectInv'
<1> USE DEF DetectInv
<1>0. /\ cpc'[c] = pc /\ \A d \in Clients \ {c} : cpc'[d] = cpc[d]
      /\ cpc' \in [Clients -> {"start", "connected", "recv", "wait", "ok", "failed"}]
  BY DEF ClientGoto, TypeOK
<1>1. TypeOK'
  BY <1>0 DEF TypeOK, Msg
<1>2. PhaseInv'
  BY DEF PhaseInv, Gathering
<1>3. SocketInv'
  BY <1>0, SMTT(60) DEF SocketInv, TypeOK
<1>4. ClientInv'
  BY <1>0, VerifyKept DEF ClientInv, IsOk
<1>5. MessageInv'
  <2>1. \A d \in Clients : cpc'[d] \in {"start", "connected"} => up'[d] = <<>>
    BY <1>0 DEF MessageInv
  <2>2. \A d \in Clients \ (connSockets \cup closed) :
           Len(up'[d]) > 1 => up'[d][2] = "rankSize"
    BY SMTT(60) DEF MessageInv
  <2>3. spc = "rankSize" \/ (spc = "gather" /\ previous = 0) =>
           up'[cur] = <<>> \/ up'[cur][1] # "rankTable"
    BY DEF MessageInv, TypeOK
  <2> QED BY <2>1, <2>2, <2>3 DEF MessageInv
<1>6. ExpectInv'
  BY DEF ExpectInv
<1>7. LastWordsInv'
  BY LastWordsKept
<1> QED BY <1>1, <1>2, <1>3, <1>4, <1>5, <1>6, <1>7

(* The end of GetConnections: with every rank there, or with some missing  *)
(* after a time-out, a failing receive or a bad id or size.                *)
LEMMA EndConnectionsDetect ==
    ASSUME DispTypeOK', DetectInv, EndConnections, spc \in {"accept", "agentId", "rankSize"},
           UNCHANGED <<cfg, cpc, conn, sent, mpc, ret, backlog, cur, connSockets, expected,
                       previous>>,
           UNCHANGED closed \/ (spc = "agentId" /\ closed' = closed \cup {cur}),
           up' \in [Clients -> Seq(Msg)],
           \/ UNCHANGED up
           \/ /\ spc = "agentId" \/ (spc = "rankSize" /\ previous # 0)
              /\ spc = "agentId" => closed' = closed \cup {cur}
              /\ up[cur] # <<>> /\ \A d \in Clients \ {cur} : up'[d] = up[d],
           LastWordsInv'
    PROVE  DetectInv'
<1> USE DEF DetectInv
<1>p. mpc = "none" /\ mpc' = "none" /\ cur \in Clients
  BY DEF PhaseInv, Gathering, TypeOK
<1>e. /\ spc' = (IF connSockets = {} THEN "error" ELSE "gather") /\ gather' = connSockets
      /\ UNCHANGED <<listening, rankTable, status>>
  BY DEF EndConnections
<1>1. TypeOK'
  <2>1. failedIds' \subseteq Nat
    BY SMTT(60) DEF TypeOK, EndConnections,
       FailedConnectionAgentIds
  <2>2. closed' \subseteq Clients
    BY DEF TypeOK
  <2> QED BY <1>e, <2>1, <2>2 DEF TypeOK, Msg
<1>2. PhaseInv'
  BY <1>p, <1>e DEF PhaseInv, Gathering
<1>3. SocketInv'
  BY <1>p, <1>e DEF SocketInv
<1>4. ClientInv'
  BY <1>e, ClientKept
<1>5. MessageInv'
  <2>1. \A d \in Clients : cpc[d] \in {"start", "connected"} => up'[d] = <<>>
    BY DEF MessageInv
  <2>2. \A d \in Clients \ (connSockets \cup closed') :
           Len(up'[d]) > 1 => up'[d][2] = "rankSize"
    BY SMTT(60) DEF MessageInv, SocketInv
  <2>3. spc' = "gather" /\ previous = 0 => up'[cur] = <<>> \/ up'[cur][1] # "rankTable"
    BY <1>e DEF MessageInv, ExpectInv
  <2> QED BY <1>e, <2>1, <2>2, <2>3 DEF MessageInv
<1>6. ExpectInv'
  BY <1>e DEF ExpectInv
<1> QED BY <1>1, <1>2, <1>3, <1>4, <1>5, <1>6

(* A connection moves from the listener to the service or is closed.       *)
LEMMA AcceptDetect ==
    ASSUME DispTypeOK', DetectInv, NEW c \in Clients, Accept(c)
    PROVE  DetectInv'
<1> USE DEF DetectInv, Accept, dispVars, clientVars
<1>1. TypeOK'
  BY DEF TypeOK
<1>2. PhaseInv'
  BY DEF PhaseInv, Gathering
<1>3. SocketInv'
  <2>1. CASE c \in cfg.listed
    BY <2>1 DEF TypeOK, SocketInv
  <2>2. CASE c \notin cfg.listed
    BY <2>2, SMTT(60) DEF TypeOK, SocketInv
  <2> QED BY <2>1, <2>2
<1>4. ClientInv'
  BY ClientKept
<1>5. MessageInv'
  BY DEF MessageInv, SocketInv
<1>6. ExpectInv'
  BY DEF ExpectInv
<1>7. LastWordsInv'
  BY LastWordsKept
<1> QED BY <1>1, <1>2, <1>3, <1>4, <1>5, <1>6, <1>7

(* A socket enters connSockets_ once its id is known, or is closed.        *)
LEMMA RecvAgentIdDetect ==
    ASSUME DispTypeOK', DetectInv, RecvAgentId, Counting, Recv(cur) => Taken(cur),
           EndConnections /\ UNCHANGED <<connSockets, expected, previous>> => LastWordsInv'
    PROVE  DetectInv'
<1> USE DEF DetectInv
<1>0. cur \in Clients /\ mpc = "none" /\ spc = "agentId" /\ cur \notin connSockets
  BY DEF TypeOK, SocketInv, PhaseInv, Gathering, RecvAgentId
<1>q. UNCHANGED <<conn, sent, mpc, ret, cfg, cpc, backlog, cur>>
  BY DEF RecvAgentId, dispButDead
<1>1. ASSUME connSockets' = connSockets \cup {cur}, spc' = "rankSize", Recv(cur),
             UNCHANGED <<closed, expected, previous, failedIds, gather, listening,
                         rankTable, status>>
      PROVE  DetectInv'
  <2> USE <1>0, <1>q, <1>1
  <2>u. /\ up' \in [Clients -> Seq(Msg)] /\ up[cur] # <<>>
        /\ \A d \in Clients \ {cur} : up'[d] = up[d]
        /\ up'[cur] = <<>> \/ (Len(up[cur]) > 1 /\ up'[cur][1] = up[cur][2])
    BY DEF Taken
  <2>1. TypeOK'
    BY <2>u DEF TypeOK, Msg
  <2>2. PhaseInv' /\ LastWordsInv'
    BY DEF PhaseInv, Gathering, LastWordsInv
  <2>3. SocketInv'
    BY DEF SocketInv
  <2>4. ClientInv'
    BY ClientKept
  <2>5. MessageInv'
    BY <2>u DEF MessageInv, SocketInv
  <2>6. ExpectInv'
    <3>1. /\ Cardinality(connSockets \cup {cur}) = Cardinality(connSockets) + 1
          /\ Cardinality(connSockets) \in Nat /\ previous \in Nat
      BY DEF Counting, TypeOK
    <3> QED BY <3>1 DEF ExpectInv
  <2> QED BY <2>1, <2>2, <2>3, <2>4, <2>5, <2>6
<1>2. ASSUME RecvFails(cur) \/ Recv(cur), closed' = closed \cup {cur}, EndConnections,
             UNCHANGED <<connSockets, expected, previous>>
      PROVE  DetectInv'
  <2>1. /\ up' \in [Clients -> Seq(Msg)]
        /\ \/ UNCHANGED up
           \/ up[cur] # <<>> /\ \A d \in Clients \ {cur} : up'[d] = up[d]
    BY <1>0, <1>2 DEF Taken, RecvFails, TypeOK, Msg
  <2> QED BY <1>0, <1>q, <1>2, <2>1, EndConnectionsDetect
<1> QED BY <1>1, <1>2 DEF RecvAgentId

(* The first size received becomes the number to wait for; every socket    *)
(* received is counted once.                                               *)
LEMMA RecvRankSizeDetect ==
    ASSUME DispTypeOK', DetectInv, RecvRankSize, Counting, Recv(cur) => Taken(cur),
           EndConnections /\ UNCHANGED <<connSockets, expected, previous>> => LastWordsInv'
    PROVE  DetectInv'
<1> USE DEF DetectInv
<1>0. cur \in Clients /\ mpc = "none" /\ spc = "rankSize" /\ cur \in connSockets
  BY DEF TypeOK, SocketInv, PhaseInv, Gathering, RecvRankSize
<1>q. UNCHANGED <<conn, sent, mpc, ret, cfg, cpc, backlog, closed, cur>>
  BY DEF RecvRankSize, dispButDead
<1>1. ASSUME previous \in {0, cfg.size[cur]}, spc' = "accept", Recv(cur),
             expected' = (IF previous = 0 THEN cfg.size[cur] ELSE expected) - 1,
             previous' = cfg.size[cur],
             UNCHANGED <<connSockets, failedIds, gather, listening, rankTable, status>>
      PROVE  DetectInv'
  <2> USE <1>0, <1>q, <1>1
  <2>u. /\ up' \in [Clients -> Seq(Msg)] /\ up[cur] # <<>>
        /\ \A d \in Clients \ {cur} : up'[d] = up[d]
    BY DEF Taken
  <2>s. cfg.size[cur] \in Nat \ {0} /\ expected > 0 /\ expected \in Nat
    BY CfgType DEF TypeOK, ExpectInv
  <2>1. TypeOK'
    <3>1. expected' \in Nat /\ previous' \in Nat
      BY <2>s
    <3> QED BY <2>u, <3>1 DEF TypeOK, Msg
  <2>2. PhaseInv' /\ LastWordsInv'
    BY DEF PhaseInv, Gathering, LastWordsInv
  <2>3. SocketInv'
    BY DEF SocketInv
  <2>4. ClientInv'
    BY ClientKept
  <2>5. MessageInv'
    BY <2>u DEF MessageInv
  <2>6. ExpectInv'
    <3>1. Cardinality(connSockets) \in Nat
      BY DEF Counting, TypeOK
    <3>2. expected' = previous' - Cardinality(connSockets)
      <4>1. CASE previous = 0
        <5>1. connSockets = {cur} /\ Cardinality({cur}) = 1
          BY <4>1 DEF ExpectInv, Counting
        <5> QED BY <2>s, <4>1, <5>1
      <4>2. CASE previous # 0
        BY <2>s, <3>1, <4>2 DEF ExpectInv
      <4> QED BY <4>1, <4>2
    <3> QED BY <2>s, <3>2 DEF ExpectInv
  <2> QED BY <2>1, <2>2, <2>3, <2>4, <2>5, <2>6
<1>2. ASSUME RecvFails(cur) \/ (Recv(cur) /\ previous # 0), EndConnections,
             UNCHANGED <<connSockets, expected, previous>>
      PROVE  DetectInv'
  <2>1. /\ up' \in [Clients -> Seq(Msg)]
        /\ \/ UNCHANGED up
           \/ previous # 0 /\ up[cur] # <<>> /\ \A d \in Clients \ {cur} : up'[d] = up[d]
    BY <1>0, <1>2 DEF Taken, RecvFails, TypeOK, Msg
  <2> QED BY <1>0, <1>q, <1>2, <2>1, EndConnectionsDetect
<1> QED BY <1>1, <1>2 DEF RecvRankSize

(* GetRankTable moves a socket from those to read to the table.            *)
LEMMA RecvRankInfoDetect ==
    ASSUME DispTypeOK', DetectInv, NEW c \in Clients, RecvRankInfo(c), Recv(c) => Taken(c),
           \A d \in Clients : cpc[d] # "wait"
    PROVE  DetectInv'
<1> USE DEF DetectInv
<1>p. /\ mpc = "none" /\ spc = "gather" /\ c \in gather /\ spc' \in {"gather", "error"}
      /\ UNCHANGED <<conn, sent, mpc, ret, cfg, cpc, status, backlog, closed, listening,
                     cur, connSockets, expected, previous, failedIds>>
  BY DEF PhaseInv, Gathering, RecvRankInfo, dispButDead, connVars
<1>g. \/ /\ spc' = "gather" /\ rankTable' = rankTable \cup {c} /\ gather' = gather \ {c}
         /\ Recv(c) /\ Head(up[c]) = "rankTable"
      \/ spc' = "error" /\ UNCHANGED <<rankTable, gather>>
  BY <1>p DEF RecvRankInfo
<1>u. /\ up' \in [Clients -> Seq(Msg)]
      /\ \/ UNCHANGED up
         \/ up[c] # <<>> /\ \A d \in Clients \ {c} : up'[d] = up[d]
  BY DEF Taken, TypeOK, RecvFails, Msg, RecvRankInfo
<1>h. spc' = "gather" /\ previous = 0 => c # cur
  <2>1. up[c] # <<>> /\ Head(up[c]) = "rankTable" => up[c][1] = "rankTable"
    BY DEF TypeOK
  <2> QED BY <1>p, <1>g, <2>1 DEF MessageInv, Recv
<1>1. TypeOK'
  <2>1. rankTable' \subseteq Clients /\ gather' \subseteq Clients
    BY <1>g DEF TypeOK
  <2> QED BY <1>p, <1>u, <2>1 DEF TypeOK, Msg
<1>2. PhaseInv'
  BY <1>p DEF PhaseInv, Gathering
<1>3. SocketInv'
  <2>1. spc' = "gather" => rankTable' \cup gather' = connSockets /\ rankTable' \cap gather' = {}
    BY <1>p, <1>g DEF SocketInv
  <2> QED BY <1>p, <2>1 DEF SocketInv
<1>4. ClientInv'
  BY <1>p DEF ClientInv
<1>5. MessageInv'
  <2>1. c \in connSockets /\ cur \in Clients
    BY <1>p DEF SocketInv, TypeOK
  <2>2. \A d \in Clients : cpc[d] \in {"start", "connected"} => up'[d] = <<>>
    BY <1>u DEF MessageInv
  <2>3. \A d \in Clients \ (connSockets \cup closed) : up'[d] = up[d]
    BY <1>u, <2>1
  <2>4. spc' = "gather" /\ previous = 0 => up'[cur] = up[cur]
    BY <1>u, <1>h, <2>1
  <2> QED BY <1>p, <2>1, <2>2, <2>3, <2>4 DEF MessageInv
<1>6. ExpectInv'
  BY <1>p, <1>g, <1>h DEF ExpectInv
<1>7. LastWordsInv'
  BY <1>p, LastWordsKept
<1> QED BY <1>1, <1>2, <1>3, <1>4, <1>5, <1>6, <1>7

(* The broadcast goes to exactly the ranks in the table.                   *)
LEMMA BroadcastRankTableDetect ==
    ASSUME DispTypeOK', DetectInv, BroadcastRankTable
    PROVE  DetectInv'
<1> USE DEF DetectInv, BroadcastRankTable, clientVars, connVars
<1>a. mpc' # "none" /\ conn' = connSockets /\ UNCHANGED sent
  BY DEF PrepareResource, Return
<1>b. rankTable = connSockets /\ previous # 0 /\ mpc = "none"
  BY DEF SocketInv, ExpectInv, PhaseInv, Gathering
<1>1. TypeOK'
  BY DEF TypeOK
<1>2. PhaseInv'
  BY <1>a DEF PhaseInv, Gathering
<1>3. SocketInv'
  BY <1>a, <1>b DEF SocketInv
<1>4. ClientInv'
  BY <1>a, ClientKept
<1>5. MessageInv'
  BY DEF MessageInv
<1>6. ExpectInv'
  BY DEF ExpectInv
<1>7. LastWordsInv'
  <2>1. WellConfigured' <=> WellConfigured
    BY DEF WellConfigured
  <2>2. AgentIds(rankTable)' = AgentIds(connSockets)
    BY <1>b DEF AgentIds
  <2> QED BY <1>a, <1>b, <2>1, <2>2 DEF LastWordsInv
<1> QED BY <1>1, <1>2, <1>3, <1>4, <1>5, <1>6, <1>7

(* The sockets are closed when no broadcast is running.                    *)
LEMMA TearDownDetect ==
    ASSUME DispTypeOK', DetectInv, TearDown
    PROVE  DetectInv'
<1> USE DEF DetectInv, TearDown, dispVars, clientVars
<1>1. TypeOK'
  BY DEF TypeOK
<1>2. PhaseInv'
  BY DEF PhaseInv, Gathering
<1>3. SocketInv'
  BY DEF SocketInv, PhaseInv
<1>4. ClientInv'
  BY ClientKept
<1>5. MessageInv'
  BY DEF MessageInv
<1>6. ExpectInv'
  BY DEF ExpectInv
<1>7. LastWordsInv'
  BY LastWordsKept
<1> QED BY <1>1, <1>2, <1>3, <1>4, <1>5, <1>6, <1>7

(* How a client that ends between two messages changes what it has sent.  *)
BrokenOff(c) ==
    /\ up' \in [Clients -> Seq(Msg)]
    /\ \A d \in Clients \ {c} : up'[d] = up[d]
    /\ \/ up'[c] = up[c]
       \/ up'[c][1] = "agentId" /\ (Len(up'[c]) > 1 => up'[c][2] = "rankSize")

(* Every step of a client keeps the invariant.                             *)
LEMMA ClientDetect ==
    ASSUME DispTypeOK', DetectInv, NEW c \in Clients, Client(c) \/ ClientBreaks(c),
           ClientBreaks(c) => BrokenOff(c)
    PROVE  DetectInv'
<1>0. up \in [Clients -> Seq(Msg)]
  BY DEF DetectInv, TypeOK, Msg
<1>u. UNCHANGED <<cfg, conn, sent, mpc, ret, spc, gather, rankTable, status, closed,
                  listening, cur, connSockets, expected, previous, failedIds>>
  BY DEF Client, Connect, SendLocalRankTable, RecvRankTable, WaitComplete,
     ClientCutOff, ClientBreaks, dispVars, dispButDead, svcVars, connVars
<1>k. ASSUME NEW pc \in {"recv", "wait", "ok", "failed"}, ClientGoto(c, pc),
             UNCHANGED <<up, backlog>>,
             pc = "wait" => c = Root /\ IsOk(c) /\ VerifyRankTable(c)
      PROVE  DetectInv'
  BY <1>0, <1>u, <1>k, ClientStepDetect
<1>1. CASE Connect(c)
  <2>1. /\ ClientGoto(c, "connected") /\ cpc[c] = "start" /\ UNCHANGED up
        /\ backlog' = backlog \cup {c}
    BY <1>1 DEF Connect
  <2> QED BY <1>0, <1>u, <2>1, ClientStepDetect
<1>2. CASE SendLocalRankTable(c)
  <2>1. /\ ClientGoto(c, "recv") /\ UNCHANGED backlog
        /\ up' = [up EXCEPT ![c] = Messages]
    BY <1>2 DEF SendLocalRankTable, svcVars, connVars
  <2>2. up' \in [Clients -> Seq(Msg)] /\ up'[c] = Messages
    BY <1>0, <2>1, SMTT(60) DEF Messages, Msg
  <2>3. \A d \in Clients \ {c} : up'[d] = up[d]
    BY <1>0, <2>1
  <2>4. up'[c][1] = "agentId" /\ up'[c][2] = "rankSize"
    BY <2>2 DEF Messages
  <2> QED BY <1>u, <2>1, <2>2, <2>3, <2>4, ClientStepDetect
<1>3. CASE RecvRankTable(c)
  <2>1. IsOk(c) /\ UNCHANGED <<up, backlog>>
    BY <1>3 DEF RecvRankTable, svcVars, connVars
  <2>2. \/ ClientGoto(c, "failed") \/ ClientGoto(c, "ok")
        \/ ClientGoto(c, "wait") /\ c = Root /\ VerifyRankTable(c)
    BY <1>3 DEF RecvRankTable, ClientFails
  <2> QED BY <1>k, <2>1, <2>2
<1>4. CASE \/ c = Root /\ WaitComplete
           \/ ClientCutOff(c)
  <2>1. (ClientGoto(c, "ok") \/ ClientGoto(c, "failed")) /\ UNCHANGED <<up, backlog>>
    BY <1>4 DEF WaitComplete, ClientCutOff, ClientFails, svcVars, connVars
  <2> QED BY <1>k, <2>1
<1>5. CASE ClientBreaks(c)
  <2>1. ClientGoto(c, "failed") /\ UNCHANGED backlog
    BY <1>5 DEF ClientBreaks, ClientFails, svcVars, connVars
  <2> QED BY <1>u, <1>5, <2>1, ClientStepDetect DEF BrokenOff
<1> QED BY <1>1, <1>2, <1>3, <1>4, <1>5 DEF Client

(* Every step of the service outside the broadcast keeps the invariant.    *)
LEMMA ServiceDetect ==
    ASSUME DispTypeOK', DetectInv, Service \/ AcceptTimeout, Counting,
           Pigeonhole, BroadcastInv, \A c \in Clients : Recv(c) => Taken(c)
    PROVE  DetectInv'
<1>0. /\ Gathering => mpc = "none"
      /\ cur \in Clients /\ up \in [Clients -> Seq(Msg)]
  BY DEF DetectInv, PhaseInv, TypeOK, Msg
<1>w. mpc = "none" => \A c \in Clients : cpc[c] # "wait"
  BY NobodyWaits DEF DetectInv
<1>l. ASSUME EndConnections, spc \in {"accept", "agentId", "rankSize"},
             UNCHANGED <<cfg, mpc, connSockets, expected, previous>>
      PROVE  LastWordsInv'
  BY <1>0, <1>l, LastWordsFound DEF DetectInv, Gathering
<1>1. CASE ServiceStart \/ BroadcastEnds \/ PublishIdle \/ DestroyServerSocket \/ PublishError
  <2>1. /\ UNCHANGED <<cfg, cpc, up, conn, sent, mpc, ret, backlog, closed, cur,
                       connSockets, expected, previous, failedIds, gather, rankTable>>
        /\ UNCHANGED listening \/ listening' = FALSE
        /\ UNCHANGED status \/ status' \in {"running", "idle", "error"}
    BY <1>1 DEF ServiceStart, BroadcastEnds, PublishIdle, DestroyServerSocket,
       PublishError, dispVars, dispButDead, clientVars, connVars
  <2>2. \/ spc = "start" /\ spc' = "accept"
        \/ /\ spc = "broadcast" /\ mpc = "gone"
           /\ spc' = IF ret = "success" THEN "idle" ELSE "error"
        \/ spc = "idle" /\ spc' = "destroy"
        \/ spc = "destroy" /\ spc' \in {"teardown", "error"}
        \/ spc = "error" /\ spc' = "teardown"
    BY <1>1 DEF ServiceStart, BroadcastEnds, PublishIdle, DestroyServerSocket,
       PublishError
  <2>3. listening' \in BOOLEAN /\ status' \in {"absent", "running", "idle", "error"}
    BY <2>1 DEF DetectInv, TypeOK
  <2>4. \/ spc = "start" /\ spc' = "accept"
        \/ /\ ~Gathering /\ spc # "end" /\ PhaseInv'
           /\ spc' \in {"idle", "destroy", "error", "teardown"}
    BY <2>1, <2>2 DEF DetectInv, PhaseInv, Gathering
  <2> QED BY <2>1, <2>3, <2>4, PhaseStepDetect
<1>2. CASE AllAccepted \/ AcceptTimeout
  <2>1. /\ EndConnections /\ spc = "accept"
        /\ UNCHANGED <<cfg, cpc, up, conn, sent, mpc, ret, backlog, closed, cur,
                       connSockets, expected, previous>>
    BY <1>2 DEF AllAccepted, AcceptTimeout, dispVars, dispButDead, clientVars
  <2> QED BY <1>0, <1>l, <2>1, EndConnectionsDetect
<1>3. CASE RecvAgentId \/ RecvRankSize
  <2>1. spc \in {"agentId", "rankSize"} /\ UNCHANGED <<cfg, mpc>>
    BY <1>3 DEF RecvAgentId, RecvRankSize, dispButDead
  <2> QED BY <1>0, <1>l, <1>3, <2>1, RecvAgentIdDetect, RecvRankSizeDetect
<1>4. ASSUME NEW c \in Clients, Accept(c) \/ RecvRankInfo(c)
      PROVE  DetectInv'
  <2>1. spc \in {"accept", "gather"}
    BY <1>4 DEF Accept, RecvRankInfo
  <2> QED BY <1>0, <1>w, <1>4, <2>1, AcceptDetect, RecvRankInfoDetect DEF Gathering
<1> QED BY <1>1, <1>2, <1>3, <1>4, BroadcastRankTableDetect, TearDownDetect DEF Service

(* What a thread of the broadcast leaves alone: whose sockets it works on, *)
(* that it has begun, its result once it has ended, and what has been sent *)
(* in full.                                                                *)
LEMMA BroadcastStep ==
    ASSUME DispTypeOK, Main \/ (\E w \in Workers : Worker(w)) \/ (\E c \in Clients : Drain(c))
    PROVE  /\ UNCHANGED <<dead, conn>> /\ (Fault \/ NoFault)
           /\ mpc = "none" <=> mpc' = "none"
           /\ mpc = "gone" => mpc' = "gone" /\ ret' = ret
           /\ \A c \in Clients : IsOk(c) => IsOk(c)'
<1>s. ASSUME NEW c \in Clients, SendFails(c) \/ Send(c, 0) \/ Send(c, 1)
      PROVE  \A d \in Clients : IsOk(d) => IsOk(d)'
  <2>1. FrameLen \in Nat /\ sent \in [Clients -> Nat]
    BY LenAssumption, SMTT(60) DEF DispTypeOK, FrameLen
  <2> QED BY <1>s, <2>1, SMTT(60) DEF Send, SendFails, IsOk
<1>f. ASSUME NEW c \in Clients, NEW n \in sent[c] .. FrameLen - 1,
             sent' = [sent EXCEPT ![c] = n]
      PROVE  \A d \in Clients : IsOk(d) => IsOk(d)'
  <2>1. FrameLen \in Nat /\ sent \in [Clients -> Nat]
    BY LenAssumption, SMTT(60) DEF DispTypeOK, FrameLen
  <2> QED BY <1>f, <2>1 DEF IsOk
<1>1. ASSUME NEW c \in Clients, SendOnce(c)
      PROVE  /\ UNCHANGED <<dead, conn>> /\ (Fault \/ NoFault)
             /\ mpc = "once" /\ mpc' \in {"once", "stop"}
             /\ \A d \in Clients : IsOk(d) => IsOk(d)'
  <2>1. \A d \in Clients : IsOk(d) => IsOk(d)'
    BY <1>1, <1>s, <1>f DEF SendOnce
  <2> QED BY <1>1, <2>1 DEF SendOnce, Send, SendFails, Return
<1>2. ASSUME NEW w \in Workers, SendEvent(w)
      PROVE  /\ UNCHANGED <<dead, conn, mpc, ret>> /\ (Fault \/ NoFault)
             /\ \A d \in Clients : IsOk(d) => IsOk(d)'
  <2>1. task[w] \in Clients
    BY DEF DispTypeOK
  <2>2. \A d \in Clients : IsOk(d) => IsOk(d)'
    BY <1>2, <1>s, <2>1 DEF SendEvent
  <2> QED BY <1>2, <2>2 DEF SendEvent, Send, SendFails, mainVars
<1>3. ASSUME \/ LoopHead \/ WaitEvents \/ WakeAfterPush \/ CloseEpollFd \/ CleanStop
             \/ CleanWake \/ CleanJoin
             \/ \E c \in Clients : PushTask(c)
      PROVE  /\ UNCHANGED <<dead, conn, sent>> /\ (Fault \/ NoFault)
             /\ mpc \notin {"none", "gone"} /\ mpc' # "none"
  BY <1>3 DEF LoopHead, WaitEvents, WakeAfterPush, CloseEpollFd, CleanStop,
     CleanWake, CleanJoin, PushTask, Return, NoFault, netVars
<1>4. ASSUME \/ \E w \in Workers : WorkerLoop(w) \/ WorkerWait(w) \/ GetTask(w) \/ CtlEvent(w)
             \/ \E c \in Clients : Drain(c)
      PROVE  UNCHANGED <<dead, conn, sent, mpc, ret>> /\ (Fault \/ NoFault)
  BY <1>4 DEF WorkerLoop, WorkerWait, GetTask, CtlEvent, Drain, netVars,
     mainVars, NoFault
<1> QED BY <1>1, <1>2, <1>3, <1>4 DEF Main, Worker, IsOk

(* The threads of the broadcast keep what the service relies on.           *)
LEMMA BroadcastDetect ==
    ASSUME DispTypeOK', DetectInv, UNCHANGED <<cfg, clientVars, svcVars, conn>>,
           mpc = "none" <=> mpc' = "none",
           mpc = "gone" => mpc' = "gone" /\ ret' = ret,
           \A c \in Clients : IsOk(c) => IsOk(c)'
    PROVE  DetectInv'
<1> USE DEF DetectInv, clientVars, svcVars, connVars
<1>1. TypeOK'
  BY DEF TypeOK
<1>2. PhaseInv' /\ SocketInv'
  BY DEF PhaseInv, Gathering, SocketInv
<1>3. ClientInv'
  BY VerifyKept DEF ClientInv
<1>4. MessageInv' /\ ExpectInv'
  BY DEF MessageInv, ExpectInv
<1>5. LastWordsInv'
  <2>1. (mpc = "none") = (mpc' = "none")
    OBVIOUS
  <2>2. /\ WellConfigured' <=> WellConfigured
        /\ AgentIds(rankTable)' = AgentIds(rankTable)
        /\ AgentIds(connSockets)' = AgentIds(connSockets)
    BY DEF WellConfigured, AgentIds
  <2> QED BY <2>1, <2>2 DEF LastWordsInv
<1> QED BY <1>1, <1>2, <1>3, <1>4, <1>5

(* Outside the broadcast its threads are left alone.                       *)
LEMMA OutsideBroadcast ==
    ASSUME TypeOK,
           \/ AcceptTimeout \/ (Service /\ ~BroadcastRankTable)
           \/ \E c \in Clients : Client(c) \/ ClientBreaks(c)
    PROVE  /\ UNCHANGED <<cfg, dispButDead>> /\ dead' \subseteq Clients
           /\ (Fault \/ NoFault) /\ faults' \in Nat
<1>0. dead \subseteq Clients /\ faults \in Nat
  BY DEF TypeOK, DispTypeOK
<1>f. (Fault => faults' \in Nat) /\ (NoFault => faults' \in Nat)
  BY <1>0 DEF Fault, NoFault
<1>1. ASSUME NEW c \in Clients, Client(c) \/ ClientBreaks(c)
      PROVE  /\ UNCHANGED <<cfg, dispButDead>> /\ (Fault \/ NoFault)
             /\ UNCHANGED dead \/ dead' = dead \cup {c}
  BY <1>1 DEF Client, Connect, SendLocalRankTable, RecvRankTable,
     WaitComplete, ClientCutOff, ClientBreaks, ClientFails, dispVars,
     dispButDead, NoFault
<1>2. CASE AcceptTimeout \/ (Service /\ ~BroadcastRankTable)
  <2>1. UNCHANGED <<cfg, dead, dispButDead>>
    BY <1>2 DEF Service, ServiceStart, AllAccepted, AcceptTimeout,
       RecvAgentId, RecvRankSize, Accept, RecvRankInfo, BroadcastEnds,
       PublishIdle, DestroyServerSocket, PublishError, TearDown, dispVars,
       dispButDead
  <2>2. Fault \/ NoFault
    BY <1>2 DEF Service, ServiceStart, AllAccepted, AcceptTimeout,
       RecvAgentId, RecvRankSize, Accept, RecvRankInfo, BroadcastEnds,
       PublishIdle, DestroyServerSocket, PublishError, TearDown, dispVars,
       Recv, RecvFails, NoFault
  <2> QED BY <1>0, <1>f, <2>1, <2>2
<1>3. \A c \in Clients : dead \cup {c} \subseteq Clients
  BY <1>0
<1> QED BY <1>0, <1>f, <1>1, <1>2, <1>3

-----------------------------------------------------------------------------
(* The refinement mapping of Exchange.                                     *)
Table == IF mpc = "none" THEN {} ELSE rankTable

Outcome == [c \in Clients |-> IF Pending(c) THEN "pending" ELSE cpc[c]]

(* What VerifyRankTable checks of the merged table is what the abstract    *)
(* exchange promises, the rank's own entry included: the table is sent to  *)
(* the ranks in it only.                                                   *)
LEMMA ChecksMapped ==
    ASSUME BroadcastInv, DetectInv, NEW c \in Clients, IsOk(c), VerifyRankTable(c)
    PROVE  c \in Table /\ Exchange!Complete(c, Table) /\ Exchange!TlsConsistent(Table)
<1>1. mpc # "none" /\ c \in conn /\ Table = rankTable /\ conn = rankTable
  BY DEF BroadcastInv, DetectInv, SocketInv, Table
<1>2. cfg.id \in [Clients -> Nat] /\ cfg.size[c] \in Nat /\ rankTable \subseteq Clients
  BY CfgType DEF DetectInv, TypeOK
<1>3. Exchange!Complete(c, rankTable)
  BY <1>2, SMTT(60) DEF VerifyRankTable, Check, AgentIds,
     Exchange!Complete, Exchange!DistinctIds, Exchange!IdsOf
<1>4. Exchange!TlsConsistent(rankTable)
  BY DEF VerifyRankTable, VerifyTlsConsistency, Exchange!TlsConsistent
<1> QED BY <1>1, <1>3, <1>4

(* The outcomes depend on where the clients are.                           *)
LEMMA OutcomeKept ==
    ASSUME UNCHANGED cpc
    PROVE  UNCHANGED Outcome
BY DEF Outcome, Pending

(* A client that ends gets its outcome.                                    *)
LEMMA OutcomeStep ==
    ASSUME TypeOK, NEW c \in Clients, Pending(c), NEW pc \in {"ok", "failed"}, ClientGoto(c, pc)
    PROVE  Outcome[c] = "pending" /\ Outcome' = [Outcome EXCEPT ![c] = pc]
BY DEF TypeOK, ClientGoto, Pending, Outcome

(* A client that goes on has none.                                         *)
LEMMA OutcomeWaits ==
    ASSUME TypeOK, NEW c \in Clients, Pending(c), NEW pc \in {"connected", "recv", "wait"},
           ClientGoto(c, pc)
    PROVE  UNCHANGED Outcome
BY DEF TypeOK, ClientGoto, Pending, Outcome

(* A client that fails does so in the abstract exchange.                   *)
LEMMA FailMapped ==
    ASSUME TypeOK, NEW c \in Clients, Pending(c), ClientGoto(c, "failed"), UNCHANGED <<cfg, Table>>
    PROVE  Exchange!Fail(c)
<1>1. Outcome[c] = "pending" /\ Outcome' = [Outcome EXCEPT ![c] = "failed"]
  BY OutcomeStep
<1> QED BY <1>1 DEF Exchange!Fail, Outcome, Table

(* A client that succeeds does so in the abstract exchange.                *)
LEMMA SucceedMapped ==
    ASSUME BroadcastInv, DetectInv, NEW c \in Clients, Pending(c), IsOk(c), VerifyRankTable(c),
           ClientGoto(c, "ok"), UNCHANGED <<cfg, Table>>
    PROVE  Exchange!Succeed(c)
<1>1. Outcome[c] = "pending" /\ Outcome' = [Outcome EXCEPT ![c] = "ok"]
  BY OutcomeStep DEF DetectInv
<1>2. c \in Table /\ Exchange!Complete(c, Table) /\ Exchange!TlsConsistent(Table)
  BY ChecksMapped
<1> QED BY <1>1, <1>2 DEF Exchange!Succeed, Outcome, Table

(* The exchange starts in a state of the abstract one.                     *)
LEMMA InitMapped == Init => Exchange!Init
BY DEF Init, DispInit, Exchange!Init, Pending

(* Every step of the exchange is one of the abstract exchange, or leaves   *)
(* its variables alone: the start of the broadcast fixes the table.        *)
LEMMA StepMapped == BroadcastInv /\ DetectInv /\ [Next]_vars => [Exchange!Next]_(Exchange!vars)
<1> SUFFICES ASSUME BroadcastInv, DetectInv, [Next]_vars PROVE [Exchange!Next]_(Exchange!vars)
  OBVIOUS
<1> USE DEF Dispatcher
<1>0. TypeOK
  BY DEF DetectInv
<1>a. ASSUME UNCHANGED <<cfg, Table, Outcome>> PROVE UNCHANGED Exchange!vars
  BY <1>a DEF Exchange!vars, Table, Outcome
<1>1. CASE UNCHANGED vars
  <2>1. UNCHANGED <<cfg, cpc, Table>>
    BY <1>1 DEF vars, dispVars, clientVars, svcVars, Table
  <2> QED BY <1>a, <2>1, OutcomeKept
<1>2. ASSUME NEW c \in Clients, Client(c) \/ ClientBreaks(c)
      PROVE  [Exchange!Next]_(Exchange!vars)
  <2>1. UNCHANGED <<cfg, Table>>
    BY <1>2 DEF Client, Connect, SendLocalRankTable, RecvRankTable,
       WaitComplete, ClientCutOff, ClientBreaks, dispVars, dispButDead,
       svcVars, Table
  <2>2. CASE Connect(c) \/ SendLocalRankTable(c)
    <3>1. UNCHANGED Outcome
      BY <1>0, <2>2, OutcomeWaits DEF Connect, SendLocalRankTable, Pending
    <3> QED BY <1>a, <2>1, <3>1
  <2>3. CASE RecvRankTable(c)
    <3>1. Pending(c) /\ IsOk(c)
      BY <2>3 DEF RecvRankTable, Pending
    <3>2. CASE ClientGoto(c, "failed")
      BY <1>0, <2>1, <3>1, <3>2, FailMapped DEF Exchange!Next
    <3>3. CASE VerifyRankTable(c) /\ ClientGoto(c, "ok")
      BY <2>1, <3>1, <3>3, SucceedMapped DEF Exchange!Next
    <3>4. CASE ClientGoto(c, "wait")
      <4>1. UNCHANGED Outcome
        BY <1>0, <3>1, <3>4, OutcomeWaits
      <4> QED BY <1>a, <2>1, <4>1
    <3> QED BY <2>3, <3>2, <3>3, <3>4 DEF RecvRankTable, ClientFails
  <2>4. CASE c = Root /\ WaitComplete
    <3>1. Pending(c) /\ IsOk(c) /\ VerifyRankTable(c)
      BY <2>4 DEF WaitComplete, Pending, DetectInv, ClientInv
    <3>2. CASE ClientGoto(c, "failed")
      BY <1>0, <2>1, <3>1, <3>2, FailMapped DEF Exchange!Next
    <3>3. CASE ClientGoto(c, "ok")
      BY <2>1, <3>1, <3>3, SucceedMapped DEF Exchange!Next
    <3> QED BY <2>4, <3>2, <3>3 DEF WaitComplete, ClientFails
  <2>5. CASE ClientCutOff(c) \/ ClientBreaks(c)
    <3>1. Pending(c) /\ ClientGoto(c, "failed")
      BY <2>5 DEF ClientCutOff, ClientBreaks, ClientFails, Pending
    <3> QED BY <1>0, <2>1, <3>1, FailMapped DEF Exchange!Next
  <2> QED BY <1>2, <2>2, <2>3, <2>4, <2>5 DEF Client
<1>3. ASSUME NEW c \in Clients, Accept(c) \/ RecvRankInfo(c)
      PROVE  [Exchange!Next]_(Exchange!vars)
  <2>1. UNCHANGED <<cfg, cpc, mpc>> /\ (mpc = "none" \/ UNCHANGED rankTable)
    BY <1>3 DEF Accept, RecvRankInfo, dispVars, dispButDead, clientVars,
       DetectInv, PhaseInv, Gathering
  <2> QED BY <1>a, <2>1, OutcomeKept DEF Table
<1>4. CASE \/ ServiceStart \/ AllAccepted \/ AcceptTimeout \/ RecvAgentId \/ RecvRankSize
           \/ BroadcastEnds \/ PublishIdle \/ DestroyServerSocket \/ PublishError \/ TearDown
  <2>1. UNCHANGED <<cfg, cpc, mpc, rankTable>>
    BY <1>4 DEF ServiceStart, AllAccepted, AcceptTimeout, RecvAgentId,
       RecvRankSize, BroadcastEnds, PublishIdle, DestroyServerSocket,
       PublishError, TearDown, EndConnections, dispVars, dispButDead,
       clientVars, connVars
  <2> QED BY <1>a, <2>1, OutcomeKept DEF Table
<1>5. CASE BroadcastRankTable
  <2>1. UNCHANGED <<cfg, cpc, rankTable>> /\ mpc = "none" /\ rankTable \subseteq Clients
    BY <1>0, <1>5 DEF BroadcastRankTable, PrepareResource, clientVars, TypeOK
  <2>2. UNCHANGED <<cfg, Outcome>> /\ Table = {} /\ Table' \in SUBSET Clients
    BY <2>1, OutcomeKept DEF Table
  <2>3. Exchange!Decide
    BY <2>2 DEF Exchange!Decide, Table, Outcome
  <2> QED BY <2>3 DEF Exchange!Next
<1>6. CASE \/ Dispatcher(Main) \/ (\E w \in Workers : Dispatcher(Worker(w)))
           \/ (\E c \in Clients : Dispatcher(Drain(c)))
  <2>1. UNCHANGED <<cfg, cpc, rankTable>>
    BY <1>6 DEF clientVars, svcVars
  <2>2. mpc = "none" <=> mpc' = "none"
    BY <1>0, <1>6, BroadcastStep DEF TypeOK
  <2> QED BY <1>a, <2>1, <2>2, OutcomeKept DEF Table
<1> QED BY <1>1, <1>2, <1>3, <1>4, <1>5, <1>6 DEF Next, Service, Done

-----------------------------------------------------------------------------
(* The antecedent of CleanExchangeSucceeds.                                *)
Clean ==
    /\ faults = cfg.faults
    /\ WellConfigured /\ Cardinality(Clients) = cfg.size[Root]
    /\ VerifyTlsConsistency(Clients) /\ cfg.listed = Clients

(* Every rank has been accepted.                                           *)
Late == spc \in {"gather", "broadcast", "idle", "destroy", "teardown", "end"}

(* Nobody raises stop_ before the main thread is done with the sockets:    *)
(* while it works the epoll handle is there.                               *)
CleanBroadcast ==
    /\ dead = {} /\ ret # "failed"
    /\ mpc \in {"once", "loop", "wait", "push", "close"} => epollCreate /\ ~stop
    /\ mpc \in {"stop", "wake", "join", "gone"} => ret = "success"

CleanService ==
    /\ spc # "error" /\ status # "error"
    /\ ~listening => spc \in {"teardown", "end"}
    /\ closed # {} => spc = "end"
    /\ Late => backlog = {} /\ (spc # "end" => connSockets = Clients)
    /\ Late /\ spc # "gather" => rankTable = Clients /\ mpc # "none"
    /\ spc \in {"idle", "destroy", "teardown", "end"} => ret = "success"

(* A rank that has connected is not lost, and what it has sent and the     *)
(* service has not read is the rest of its messages.                       *)
CleanClient(c) ==
    /\ cpc[c] # "failed"
    /\ cpc[c] # "start" => \/ c \in backlog \cup connSockets \/ spc = "end"
                           \/ spc = "agentId" /\ c = cur
    /\ c \in connSockets \/ Late => cpc[c] \notin {"start", "connected"}
    /\ cpc[c] \notin {"start", "connected"} /\ c \notin connSockets /\ ~Late =>
          up[c] = Messages
    /\ spc = "rankSize" /\ c = cur => up[c] = <<"rankSize", "rankTable">>
    /\ c \in connSockets /\ ~Late /\ (spc # "rankSize" \/ c # cur) =>
          up[c] = <<"rankTable">>
    /\ spc = "gather" /\ c \in gather => up[c] = <<"rankTable">>

CleanSteps == CleanBroadcast /\ CleanService /\ \A c \in Clients : CleanClient(c)

CleanInv == faults <= cfg.faults /\ (Clean => CleanSteps)

(* What goes wrong is never taken back, so a run that is clean after a     *)
(* step was clean before it, and the step had no fault.                    *)
LEMMA CleanBefore ==
    ASSUME DetectInv, CleanInv, [Next]_vars
    PROVE  /\ UNCHANGED cfg /\ faults' <= cfg.faults
           /\ Clean' => Clean /\ UNCHANGED faults
<1>0. TypeOK /\ faults \in Nat /\ cfg.faults \in Nat /\ faults <= cfg.faults
  BY CfgType DEF TypeOK, DispTypeOK, DetectInv, CleanInv
<1>1. UNCHANGED cfg /\ (Fault \/ NoFault)
  <2>1. CASE UNCHANGED vars
    BY <2>1 DEF vars, dispVars, NoFault
  <2>2. CASE \/ AcceptTimeout \/ (Service /\ ~BroadcastRankTable)
             \/ \E c \in Clients : Client(c) \/ ClientBreaks(c)
    BY <1>0, <2>2, OutsideBroadcast
  <2>3. CASE BroadcastRankTable
    BY <2>3 DEF BroadcastRankTable, PrepareResource
  <2>4. CASE \/ Dispatcher(Main) \/ (\E w \in Workers : Dispatcher(Worker(w)))
             \/ (\E c \in Clients : Dispatcher(Drain(c)))
    BY <1>0, <2>4, BroadcastStep DEF Dispatcher, TypeOK
  <2> QED BY <2>1, <2>2, <2>3, <2>4 DEF Next, Done
<1>2. faults' \in Nat /\ faults' <= faults
  BY <1>0, <1>1 DEF Fault, NoFault
<1>3. /\ faults' = cfg.faults => UNCHANGED faults /\ faults = cfg.faults
      /\ faults' <= cfg.faults
  BY <1>0, <1>2
<1> QED BY <1>1, <1>3 DEF Clean, WellConfigured, VerifyTlsConsistency

(* In a clean run a table that arrives passes VerifyRankTable.             *)
LEMMA CleanTable ==
    ASSUME BroadcastInv, Pigeonhole, DetectInv, Clean, CleanService, NEW c \in Clients, IsOk(c)
    PROVE  VerifyRankTable(c)
<1>1. mpc # "none"
  BY DEF BroadcastInv
<1>2. rankTable = Clients
  BY <1>1 DEF DetectInv, TypeOK, PhaseInv, Gathering, CleanService, Late
<1>3. AgentIds(Clients) = 0 .. cfg.size[Root] - 1
  BY DEF Clean, Pigeonhole
<1>4. Cardinality(Clients) = cfg.size[c]
  BY RootAssumption DEF Clean, WellConfigured
<1>5. Check(Clients)
  <2>1. \A d \in Clients : cfg.id[d] < Cardinality(Clients)
    BY RootAssumption, SMTT(60) DEF Clean, WellConfigured
  <2>2. \A i \in 0 .. Cardinality(Clients) - 1 : i \in AgentIds(Clients)
    BY <1>3 DEF Clean
  <2> QED BY <2>1, <2>2 DEF Check, Clean, WellConfigured
<1> QED BY <1>2, <1>4, <1>5 DEF VerifyRankTable, Clean

(* In a clean run every rank has its table when the service tears its      *)
(* sockets down.                                                           *)
LEMMA CleanEnd ==
    ASSUME BroadcastInv, DetectInv, CleanSteps, spc \in {"teardown", "end"}
    PROVE  \A c \in Clients : IsOk(c) /\ c \notin backlog /\ cpc[c] \notin {"start", "connected"}
<1>1. ret = "success" /\ rankTable = Clients /\ mpc # "none" /\ Late
  BY DEF CleanSteps, CleanService, Late
<1>2. \A c \in conn : IsOk(c)
  BY <1>1 DEF BroadcastInv, SuccessMeansSent
<1>3. conn = Clients
  BY <1>1 DEF DetectInv, SocketInv
<1> QED BY <1>1, <1>2, <1>3 DEF CleanSteps, CleanService, CleanClient

(* A step that leaves the count of faults has none.                        *)
LEMMA NoneFails ==
    ASSUME DetectInv, UNCHANGED faults
    PROVE  TypeOK /\ ~Fault
BY DEF DetectInv, TypeOK, DispTypeOK, Fault

(* What a clean run has in the threads of the broadcast, between two steps *)
(* of theirs.                                                              *)
LEMMA BroadcastKept ==
    ASSUME CleanSteps, UNCHANGED <<dead, mpc, ret, epollCreate, stop>>
    PROVE  CleanBroadcast'
BY DEF CleanSteps, CleanBroadcast

(* In a clean run no step of a client fails.                               *)
LEMMA CleanClientStep ==
    ASSUME DetectInv, Clean, CleanSteps, UNCHANGED faults, NEW c \in Clients,
           Client(c) \/ ClientBreaks(c), IsOk(c) => VerifyRankTable(c),
           spc \in {"teardown", "end"} =>
              IsOk(c) /\ c \notin backlog /\ cpc[c] \notin {"start", "connected"}
    PROVE  CleanSteps'
<1>0. TypeOK /\ ~Fault
  BY NoneFails
<1>1. ~ClientBreaks(c)
  BY <1>0 DEF ClientBreaks
<1>2. ~ClientCutOff(c)
  <2> SUFFICES ASSUME ClientCutOff(c) PROVE FALSE
    OBVIOUS
  <2>1. spc \in {"teardown", "end"}
    BY DEF ClientCutOff, Abandoned, CleanSteps, CleanService
  <2> QED BY <2>1 DEF ClientCutOff
<1>3. UNCHANGED <<dead, dispButDead, svcVars>> \/ Connect(c)
  <2>1. CASE RecvRankTable(c)
    BY <2>1 DEF RecvRankTable, CleanSteps
  <2>2. CASE WaitComplete
    BY <2>2 DEF WaitComplete, CleanSteps, CleanService
  <2>3. CASE SendLocalRankTable(c)
    BY <2>3 DEF SendLocalRankTable, dispVars, dispButDead
  <2> QED BY <1>1, <1>2, <2>1, <2>2, <2>3 DEF Client
<1>4. CleanBroadcast'
  <2>1. UNCHANGED <<dead, mpc, ret, epollCreate, stop>>
    BY <1>3 DEF dispButDead, dispVars, Connect
  <2> QED BY <2>1, BroadcastKept
<1>5. CleanService'
  BY <1>3 DEF dispButDead, dispVars, svcVars, connVars, Connect, CleanSteps,
     CleanService, CleanClient, Late
<1>6. \A d \in Clients : CleanClient(d)'
  <2> SUFFICES ASSUME NEW d \in Clients PROVE CleanClient(d)'
    OBVIOUS
  <2> USE DEF TypeOK, ClientGoto, Late
  <2>0. CleanClient(d) /\ CleanClient(c)
    BY DEF CleanSteps
  <2>1. CASE Connect(c)
    BY <1>0, <2>0, <2>1 DEF Connect, CleanClient, DetectInv, SocketInv
  <2>2. CASE SendLocalRankTable(c)
    <3>1. c \notin connSockets /\ ~Late /\ ~(spc = "rankSize" /\ c = cur)
      BY <2>0, <2>2 DEF SendLocalRankTable, CleanClient, DetectInv, SocketInv
    <3>2. CASE d = c
      BY <1>0, <2>0, <2>2, <3>1, <3>2 DEF SendLocalRankTable, CleanClient,
         svcVars, connVars
    <3>3. CASE d # c
      BY <1>0, <2>0, <2>2, <3>3 DEF SendLocalRankTable, CleanClient, svcVars,
         connVars
    <3> QED BY <3>2, <3>3
  <2>3. CASE RecvRankTable(c)
    BY <1>0, <2>0, <2>3 DEF RecvRankTable, CleanSteps, CleanClient, svcVars,
       connVars
  <2>4. CASE c = Root /\ WaitComplete
    BY <1>0, <2>0, <2>4 DEF WaitComplete, CleanSteps, CleanService,
       CleanClient, svcVars, connVars
  <2> QED BY <1>1, <1>2, <2>1, <2>2, <2>3, <2>4 DEF Client
<1> QED BY <1>4, <1>5, <1>6 DEF CleanSteps

(* In a clean run the service goes from one phase to the next.             *)
LEMMA CleanSimpleStep ==
    ASSUME DetectInv, Clean, CleanSteps, UNCHANGED faults,
           \/ ServiceStart \/ BroadcastEnds \/ PublishIdle \/ DestroyServerSocket
           \/ PublishError \/ TearDown
    PROVE  CleanSteps'
<1>0. TypeOK /\ ~Fault
  BY NoneFails
<1>1. ~PublishError
  BY DEF PublishError, CleanSteps, CleanService
<1>2. CleanBroadcast'
  <2>1. UNCHANGED <<dead, mpc, ret, epollCreate, stop>>
    BY DEF ServiceStart, BroadcastEnds, PublishIdle, DestroyServerSocket,
       PublishError, TearDown, dispVars, dispButDead
  <2> QED BY <2>1, BroadcastKept
<1>3. CleanService'
  <2> USE DEF CleanSteps, CleanService, Late
  <2>1. CASE ServiceStart
    BY <2>1 DEF ServiceStart, dispVars, connVars
  <2>2. CASE BroadcastEnds
    BY <2>2 DEF BroadcastEnds, dispVars, connVars, CleanBroadcast
  <2>3. CASE PublishIdle
    BY <2>3 DEF PublishIdle, dispVars, connVars
  <2>4. CASE DestroyServerSocket
    BY <1>0, <2>4 DEF DestroyServerSocket, dispButDead
  <2>5. CASE TearDown
    BY <2>5 DEF TearDown, dispVars
  <2> QED BY <1>1, <2>1, <2>2, <2>3, <2>4, <2>5
<1>4. ASSUME NEW c \in Clients PROVE CleanClient(c)'
  <2>0. CleanClient(c)
    BY DEF CleanSteps
  <2> USE DEF CleanClient, Late, clientVars
  <2>1. CASE ServiceStart
    BY <2>0, <2>1 DEF ServiceStart, connVars
  <2>2. CASE BroadcastEnds
    BY <2>0, <2>2 DEF BroadcastEnds, dispVars, connVars, CleanSteps,
       CleanBroadcast
  <2>3. CASE PublishIdle
    BY <2>0, <2>3 DEF PublishIdle, connVars
  <2>4. CASE DestroyServerSocket
    BY <1>0, <2>0, <2>4 DEF DestroyServerSocket
  <2>5. CASE TearDown
    BY <2>0, <2>5 DEF TearDown
  <2> QED BY <1>1, <2>1, <2>2, <2>3, <2>4, <2>5
<1> QED BY <1>2, <1>3, <1>4 DEF CleanSteps

(* In a clean run every rank is accepted.                                  *)
LEMMA CleanAcceptStep ==
    ASSUME DetectInv, Clean, CleanSteps, UNCHANGED faults,
           spc = "accept" => (expected = 0 <=> connSockets = Clients),
           AllAccepted \/ AcceptTimeout \/ \E c \in Clients : Accept(c)
    PROVE  CleanSteps'
<1>0. TypeOK /\ ~Fault
  BY NoneFails
<1>1. CleanBroadcast'
  <2>1. UNCHANGED <<dead, mpc, ret, epollCreate, stop>>
    BY DEF AllAccepted, AcceptTimeout, Accept, dispVars, dispButDead
  <2> QED BY <2>1, BroadcastKept
<1>2. ASSUME NEW c \in Clients, Accept(c)
      PROVE  CleanSteps'
  <2>1. CleanService'
    BY <1>2 DEF Accept, dispVars, Clean, CleanSteps, CleanService, Late
  <2>2. ASSUME NEW d \in Clients PROVE CleanClient(d)'
    BY <1>2 DEF Accept, clientVars, Clean, CleanSteps, CleanClient, Late
  <2> QED BY <1>1, <2>1, <2>2 DEF CleanSteps
<1>3. CASE AllAccepted \/ AcceptTimeout
  <2>1. spc = "accept" /\ connSockets = Clients
    <3>1. CASE AllAccepted
      BY <3>1 DEF AllAccepted
    <3>2. CASE AcceptTimeout
      <4>1. spc = "accept" /\ backlog \subseteq dead /\ \A c \in Clients : cpc[c] # "start"
        BY <1>0, <3>2 DEF AcceptTimeout
      <4>2. Clients \subseteq connSockets
        BY <4>1 DEF CleanSteps, CleanBroadcast, CleanClient
      <4> QED BY <1>0, <4>1, <4>2 DEF TypeOK
    <3> QED BY <1>3, <3>1, <3>2
  <2>2. backlog = {}
    BY <1>0, <2>1 DEF DetectInv, SocketInv, TypeOK
  <2>3. /\ UNCHANGED <<backlog, closed, connSockets, cpc, up, listening, status>>
        /\ spc' = "gather"
    BY <1>3, <2>1, ClientsAssumption DEF AllAccepted, AcceptTimeout,
       EndConnections, clientVars
  <2>4. CleanService'
    BY <2>1, <2>2, <2>3 DEF CleanSteps, CleanService, Late
  <2>5. ASSUME NEW d \in Clients PROVE CleanClient(d)'
    BY <2>1, <2>2, <2>3 DEF CleanSteps, CleanClient, Late
  <2> QED BY <1>1, <2>4, <2>5 DEF CleanSteps
<1> QED BY <1>2, <1>3

(* The messages of a client, one after the other.                          *)
LEMMA MessageTails ==
    /\ Messages # <<>> /\ Tail(Messages) = <<"rankSize", "rankTable">>
    /\ Tail(<<"rankSize", "rankTable">>) = <<"rankTable">>
    /\ Head(<<"rankTable">>) = "rankTable"
BY DEF Messages

(* In a clean run a receive does not fail.                                 *)
LEMMA CleanRecv ==
    ASSUME DetectInv, CleanBroadcast, UNCHANGED faults, NEW c \in Clients
    PROVE  ~RecvFails(c)
BY NoneFails DEF CleanBroadcast, RecvFails

(* In a clean run an id is not taken.                                      *)
LEMMA CleanRecvAgentId ==
    ASSUME DetectInv, Clean, CleanSteps, UNCHANGED faults, RecvAgentId
    PROVE  CleanSteps'
<1>0. TypeOK /\ cur \in Clients /\ spc = "agentId" /\ cur \notin backlog \cup connSockets
  BY DEF DetectInv, TypeOK, SocketInv, RecvAgentId
<1>1. cfg.id[cur] \notin AgentIds(connSockets)
  <2>1. \A d \in connSockets : d \in Clients /\ d # cur
    BY <1>0 DEF TypeOK
  <2>2. \A d \in connSockets : cfg.id[d] # cfg.id[cur]
    BY <1>0, <2>1 DEF Clean, WellConfigured
  <2> QED BY <2>2 DEF AgentIds
<1>2. /\ Recv(cur) /\ connSockets' = connSockets \cup {cur} /\ spc' = "rankSize"
      /\ UNCHANGED <<closed, expected, previous, failedIds, gather, listening, rankTable, status,
                     dead, dispButDead, cfg, cpc, backlog, cur>>
  BY <1>0, <1>1, CleanRecv DEF RecvAgentId, CleanSteps
<1>3. CleanBroadcast' /\ CleanService'
  BY <1>0, <1>2 DEF dispButDead, CleanSteps, CleanBroadcast, CleanService,
     Late
<1>4. up[cur] # <<>> /\ up' = [up EXCEPT ![cur] = Tail(up[cur])]
  BY <1>2 DEF Recv
<1>5. cpc[cur] \notin {"start", "connected"}
  BY <1>0, <1>4 DEF DetectInv, MessageInv
<1>6. up[cur] = Messages
  BY <1>0, <1>5 DEF CleanSteps, CleanClient, Late
<1>7. up'[cur] = <<"rankSize", "rankTable">>
  BY <1>0, <1>4, <1>6, MessageTails DEF TypeOK
<1>8. ASSUME NEW d \in Clients PROVE CleanClient(d)'
  <2>0. CleanClient(d)
    BY DEF CleanSteps
  <2>1. CASE d = cur
    BY <1>0, <1>2, <1>5, <1>7, <2>0, <2>1 DEF CleanClient, Late
  <2>2. CASE d # cur
    <3>1. up'[d] = up[d]
      BY <1>0, <1>4, <2>2 DEF TypeOK
    <3> QED BY <1>0, <1>2, <2>0, <2>2, <3>1 DEF CleanClient, Late
  <2> QED BY <2>1, <2>2
<1> QED BY <1>3, <1>8 DEF CleanSteps

(* In a clean run the sizes agree.                                         *)
LEMMA CleanRecvRankSize ==
    ASSUME DetectInv, Clean, CleanSteps, UNCHANGED faults, RecvRankSize
    PROVE  CleanSteps'
<1>0. TypeOK /\ cur \in Clients /\ spc = "rankSize" /\ cur \in connSockets
  BY DEF DetectInv, TypeOK, SocketInv, RecvRankSize
<1>1. previous \in {0, cfg.size[cur]}
  BY <1>0 DEF Clean, WellConfigured, DetectInv, ExpectInv
<1>2. /\ Recv(cur) /\ spc' = "accept"
      /\ UNCHANGED <<connSockets, failedIds, gather, listening, rankTable, status,
                     dead, dispButDead, cfg, cpc, backlog, closed, cur>>
  BY <1>0, <1>1, CleanRecv DEF RecvRankSize, CleanSteps
<1>3. CleanBroadcast' /\ CleanService'
  BY <1>0, <1>2 DEF dispButDead, CleanSteps, CleanBroadcast, CleanService,
     Late
<1>4. up' = [up EXCEPT ![cur] = Tail(up[cur])]
  BY <1>2 DEF Recv
<1>5. up[cur] = <<"rankSize", "rankTable">>
  BY <1>0 DEF CleanSteps, CleanClient
<1>6. up'[cur] = <<"rankTable">>
  BY <1>0, <1>4, <1>5, MessageTails DEF TypeOK
<1>7. ASSUME NEW d \in Clients PROVE CleanClient(d)'
  <2>0. CleanClient(d)
    BY DEF CleanSteps
  <2>1. CASE d = cur
    BY <1>0, <1>2, <1>6, <2>0, <2>1 DEF CleanClient, Late
  <2>2. CASE d # cur
    <3>1. up'[d] = up[d]
      BY <1>0, <1>4, <2>2 DEF TypeOK
    <3> QED BY <1>0, <1>2, <2>0, <2>2, <3>1 DEF CleanClient, Late
  <2> QED BY <2>1, <2>2
<1> QED BY <1>3, <1>7 DEF CleanSteps

(* In a clean run the message GetRankTable reads is the table.             *)
LEMMA CleanRecvRankInfo ==
    ASSUME DetectInv, Clean, CleanSteps, UNCHANGED faults,
           NEW c \in Clients, RecvRankInfo(c)
    PROVE  CleanSteps'
<1>0. TypeOK /\ spc = "gather" /\ c \in gather
  BY DEF DetectInv, RecvRankInfo
<1>1. up[c] = <<"rankTable">> /\ Head(up[c]) = "rankTable"
  BY <1>0, MessageTails DEF CleanSteps, CleanClient
<1>2. /\ Recv(c) /\ gather' = gather \ {c}
      /\ UNCHANGED <<spc, dead, dispButDead, cfg, cpc, connVars, status>>
  BY <1>0, <1>1, CleanRecv DEF RecvRankInfo, CleanSteps
<1>3. CleanBroadcast' /\ CleanService'
  BY <1>0, <1>2 DEF dispButDead, connVars, CleanSteps, CleanBroadcast,
     CleanService, Late
<1>4. \A d \in Clients \ {c} : up'[d] = up[d]
  BY <1>0, <1>2 DEF Recv, TypeOK
<1>5. ASSUME NEW d \in Clients PROVE CleanClient(d)'
  <2>0. CleanClient(d)
    BY DEF CleanSteps
  <2> QED BY <1>0, <1>2, <1>4, <2>0 DEF CleanClient, Late, connVars
<1> QED BY <1>3, <1>5 DEF CleanSteps

(* In a clean run the dispatcher gets its epoll handle.                    *)
LEMMA CleanBroadcastRankTable ==
    ASSUME DetectInv, Clean, CleanSteps, UNCHANGED faults, BroadcastRankTable, ~stop
    PROVE  CleanSteps'
<1>0. TypeOK /\ ~Fault /\ spc = "gather" /\ gather = {}
  BY NoneFails DEF BroadcastRankTable
<1>1. epollCreate' = TRUE /\ mpc' = "once" /\ UNCHANGED <<ret, dead, stop>>
  BY <1>0 DEF BroadcastRankTable, PrepareResource
<1>2. CleanBroadcast'
  BY <1>0, <1>1 DEF CleanSteps, CleanBroadcast
<1>3. CleanService'
  BY <1>0, <1>1 DEF BroadcastRankTable, connVars, CleanSteps, CleanService,
     Late, DetectInv, SocketInv
<1>4. ASSUME NEW d \in Clients PROVE CleanClient(d)'
  BY <1>0 DEF BroadcastRankTable, connVars, clientVars, CleanSteps,
     CleanClient, Late
<1> QED BY <1>2, <1>3, <1>4 DEF CleanSteps

(* In a clean run no thread of the broadcast fails; a worker that finds    *)
(* the epoll handle gone raises stop_ after the main thread has its        *)
(* result.                                                                 *)
LEMMA CleanBroadcastStep ==
    ASSUME DetectInv, Clean, CleanSteps, UNCHANGED faults,
           Main \/ (\E w \in Workers : Worker(w)) \/ (\E c \in Clients : Drain(c)),
           UNCHANGED <<cfg, clientVars, svcVars>>,
           mpc = "none" <=> mpc' = "none", mpc = "gone" => ret' = ret
    PROVE  CleanSteps'
<1>0. ~Fault /\ dead = {} /\ CleanBroadcast
  BY NoneFails DEF CleanSteps, CleanBroadcast
<1>1. CleanBroadcast'
  <2> DEFINE Moved ==
          \/ /\ mpc \in {"once", "loop", "wait", "push"}
             /\ mpc' \in {"once", "loop", "wait", "push", "close"}
             /\ UNCHANGED <<ret, epollCreate, stop>>
          \/ mpc = "close" /\ mpc' = "stop" /\ ret' = "success"
          \/ mpc \in {"stop", "wake", "join"} /\ mpc' \in {"wake", "join", "gone"} /\ UNCHANGED ret
          \/ UNCHANGED <<mpc, ret, epollCreate>> /\ (UNCHANGED stop \/ ~epollCreate)
  <2>0. mpc \in {"once", "loop"} => ~stop
    BY <1>0 DEF CleanBroadcast
  <2>1. ASSUME Main PROVE Moved
    BY <1>0, <2>0, <2>1 DEF Main, SendOnce, SendFails, LoopHead, WaitEvents,
       PushTask, WakeAfterPush, CloseEpollFd, CleanStop, CleanWake, CleanJoin,
       Return, workVars
  <2>2. ASSUME NEW w \in Workers, Worker(w) PROVE Moved
    BY <1>0, <2>2 DEF Worker, WorkerLoop, WorkerWait, GetTask, SendEvent,
       CtlEvent, SendFails, mainVars
  <2>3. ASSUME NEW c \in Clients, Drain(c) PROVE Moved
    BY <2>3 DEF Drain, mainVars
  <2>4. UNCHANGED dead
    BY BroadcastStep DEF DetectInv, TypeOK
  <2>5. Moved
    BY <2>1, <2>2, <2>3
  <2> QED BY <1>0, <2>4, <2>5 DEF CleanBroadcast
<1>2. CleanService'
  BY DEF svcVars, connVars, CleanSteps, CleanService, Late, DetectInv,
     PhaseInv
<1>3. ASSUME NEW c \in Clients PROVE CleanClient(c)'
  BY DEF clientVars, svcVars, connVars, CleanSteps, CleanClient, Late
<1> QED BY <1>1, <1>2, <1>3 DEF CleanSteps

(* In a clean run the count of GetConnections is down to zero exactly when *)
(* every rank is there, so its time-out is never certain.                  *)
LEMMA CleanAllAccepted ==
    ASSUME Counting, DetectInv, Clean, spc = "accept"
    PROVE  expected = 0 <=> connSockets = Clients
<1>1. /\ Cardinality(connSockets) \in Nat /\ cfg.size[Root] \in Nat /\ previous \in Nat
      /\ Cardinality(connSockets) = Cardinality(Clients) <=> connSockets = Clients
  BY CfgType, RootAssumption DEF Counting, DetectInv, TypeOK
<1>2. previous # 0 => previous = Cardinality(Clients) /\ previous = cfg.size[Root]
  BY RootAssumption DEF DetectInv, ExpectInv, Clean, WellConfigured
<1>3. CASE previous = 0
  BY <1>3, ClientsAssumption DEF DetectInv, ExpectInv
<1>4. CASE previous # 0
  <2>1. expected = previous - Cardinality(connSockets)
    BY <1>4 DEF DetectInv, ExpectInv
  <2> QED BY <1>1, <1>2, <1>4, <2>1
<1> QED BY <1>3, <1>4

(* Every step keeps the clean-run invariant.                               *)
LEMMA CleanNext ==
    ASSUME BroadcastInv, DetectInv, Counting, Pigeonhole, CleanInv, [Next]_vars
    PROVE  CleanInv'
<1>1. UNCHANGED cfg /\ faults' <= cfg.faults
  BY CleanBefore
<1>2. ASSUME Clean' PROVE CleanSteps'
  <2>0. Clean /\ CleanSteps /\ UNCHANGED faults
    BY <1>2, CleanBefore DEF CleanInv
  <2>1. CASE UNCHANGED vars
    <3>1. CleanBroadcast'
      BY <2>0, <2>1, BroadcastKept DEF vars, dispVars
    <3>2. CleanService' /\ \A c \in Clients : CleanClient(c)'
      BY <2>0, <2>1 DEF vars, dispVars, clientVars, svcVars, connVars,
         CleanSteps, CleanService, CleanClient, Late
    <3> QED BY <3>1, <3>2 DEF CleanSteps
  <2>2. CASE \E c \in Clients : Client(c) \/ ClientBreaks(c)
    <3>1. PICK c \in Clients : Client(c) \/ ClientBreaks(c)
      BY <2>2
    <3>2. IsOk(c) => VerifyRankTable(c)
      BY <2>0, CleanTable DEF CleanSteps
    <3>3. spc \in {"teardown", "end"} =>
             IsOk(c) /\ c \notin backlog /\ cpc[c] \notin {"start", "connected"}
      BY <2>0, CleanEnd
    <3> QED BY <2>0, <3>1, <3>2, <3>3, CleanClientStep
  <2>3. CASE Service \/ AcceptTimeout
    <3>1. BroadcastRankTable => ~stop
      BY DEF BroadcastRankTable, PrepareResource, BroadcastInv
    <3>2. spc = "accept" => (expected = 0 <=> connSockets = Clients)
      BY <2>0, CleanAllAccepted
    <3> QED BY <2>0, <2>3, <3>1, <3>2, CleanSimpleStep, CleanAcceptStep,
               CleanRecvAgentId, CleanRecvRankSize, CleanRecvRankInfo,
               CleanBroadcastRankTable DEF Service
  <2>4. CASE \/ Dispatcher(Main) \/ (\E w \in Workers : Dispatcher(Worker(w)))
             \/ (\E c \in Clients : Dispatcher(Drain(c)))
    <3>1. /\ UNCHANGED <<cfg, clientVars, svcVars>>
          /\ Main \/ (\E w \in Workers : Worker(w)) \/ (\E c \in Clients : Drain(c))
      BY <2>4 DEF Dispatcher
    <3>2. (mpc = "none" <=> mpc' = "none") /\ (mpc = "gone" => ret' = ret)
      BY <3>1, BroadcastStep DEF DetectInv, TypeOK
    <3> QED BY <2>0, <3>1, <3>2, CleanBroadcastStep
  <2> QED BY <2>1, <2>2, <2>3, <2>4 DEF Next, Done
<1> QED BY <1>1, <1>2 DEF CleanInv

(* A run starts clean.                                                     *)
LEMMA InitClean == Init => CleanInv
<1> SUFFICES ASSUME Init PROVE CleanInv
  OBVIOUS
<1>1. cfg.faults \in Nat
  BY ConfigsAssumption DEF Init, Config
<1>2. CleanBroadcast /\ CleanService
  BY DEF Init, DispInit, CleanBroadcast, CleanService, Late
<1>3. \A c \in Clients : CleanClient(c)
  BY DEF Init, CleanClient, Late
<1> QED BY <1>1, <1>2, <1>3 DEF Init, CleanInv, CleanSteps

(* The clean-run invariant is what CleanExchangeSucceeds needs.            *)
LEMMA CleanSucceeds == CleanInv => CleanExchangeSucceeds
BY DEF CleanInv, Clean, CleanSteps, CleanService, CleanClient,
   CleanExchangeSucceeds

=============================================================================
