-------------------------- MODULE RankInfoDetect --------------------------
(***************************************************************************)
(* The rank table exchange: RankInfoDetectService, a thread of the root's  *)
(* process, accepts the ranks, gathers their local tables and broadcasts   *)
(* the merged one (RankInfoDispatcher); RankInfoDetectClient, one in every *)
(* rank's process, sends its entry and checks the table it gets back.      *)
(* RankInfoDetect ties the two together in the root's process by a status  *)
(* per listening port that the root's own client waits for.                *)
(***************************************************************************)
EXTENDS RankInfoDispatcher

CONSTANTS
    Configs,   \* what the application may pass to the ranks
    Root       \* the client in the process of the service

(* id: the rank id, size: the communicator size, tls: the state of the     *)
(* rank's TLS switch, of every process; listed: the processes whose        *)
(* address is in the root's white list; faults: a bound on what goes wrong *)
(* besides.                                                                *)
Config == [id : [Clients -> Nat], size : [Clients -> Nat \ {0}],
           tls : [Clients -> {"enable", "disable", "unknown"}],
           listed : SUBSET Clients, faults : Nat]

ASSUME ConfigsAssumption == Configs \subseteq Config
ASSUME RootAssumption == Root \in Clients

VARIABLES
    cfg,         \* what this run was configured with: see Config
    cpc,         \* where every client is
    up,          \* messages a client has sent and the service has not read
    backlog,     \* connections the service has not taken from the listener
    closed,      \* clients whose socket the service has closed
    listening,   \* the server socket exists
    spc,         \* where the service thread is
    cur,         \* the client whose id and size are being received
    connSockets, \* connSockets_, by client
    expected,    \* expectedSocketNum
    previous,    \* previousRankNum: 0 until a size has been received
    failedIds,   \* failedAgentIdList_
    gather,      \* clients GetRankTable has still to read
    rankTable,   \* rankTable_: the clients whose entries are in it
    status       \* g_detectServerStatus_ of the port, in the root's process

clientVars == <<cpc, up>>
connVars == <<backlog, closed, listening, cur, connSockets, expected, previous,
              failedIds>>
svcVars == <<connVars, spc, gather, rankTable, status>>
vars == <<dispVars, cfg, clientVars, svcVars>>

Init ==
    /\ cfg \in Configs
    /\ DispInit /\ faults = cfg.faults
    /\ cpc = [c \in Clients |-> "start"]
    /\ up = [c \in Clients |-> <<>>]
    /\ backlog = {} /\ closed = {} /\ listening = TRUE
    /\ spc = "start" /\ cur = Root
    /\ connSockets = {} /\ expected = 1 /\ previous = 0 /\ failedIds = {}
    /\ gather = {} /\ rankTable = {} /\ status = "absent"

(* What a client sends, in order.                                          *)
Messages == <<"agentId", "rankSize", "rankTable">>

AgentIds(S) == {cfg.id[c] : c \in S}

-----------------------------------------------------------------------------
(* The client.  A client that returns an error is destroyed and closes its *)
(* socket; one that succeeds is kept until the communicator is set up.     *)

Pending(c) == cpc[c] \notin {"ok", "failed"}

ClientGoto(c, pc) == cpc' = [cpc EXCEPT ![c] = pc]

ClientFails(c) == ClientGoto(c, "failed") /\ dead' = dead \cup {c}

dispButDead == <<writable, conn, sent, mpc, todo, ret, wpc, task, taskQueue,
                 armed, epollCreate, ready, stop, sendDoneCount>>

(* Nobody will answer on the socket of c any more.                         *)
Abandoned(c) == c \in closed \/ (c \in backlog /\ ~listening)

(* Connect and CheckStatus.                                                *)
Connect(c) ==
    /\ cpc[c] = "start" /\ listening
    /\ ClientGoto(c, "connected")
    /\ backlog' = backlog \cup {c}
    /\ UNCHANGED <<dispVars, cfg, up, closed, listening, cur, connSockets, expected,
                   previous, failedIds, spc, gather, rankTable, status>>

(* SendAgentIdAndRankSize and SendLocalRankTable.                          *)
SendLocalRankTable(c) ==
    /\ cpc[c] = "connected" /\ ~Abandoned(c)
    /\ up' = [up EXCEPT ![c] = Messages]
    /\ ClientGoto(c, "recv")
    /\ UNCHANGED <<dispVars, cfg, svcVars>>

\* Mutant: the largest id is refused.
Check_OffByOne(t) ==
    /\ \A d \in t : cfg.id[d] < Cardinality(t) - 1
    /\ \A d, e \in t : cfg.id[d] = cfg.id[e] => d = e
    /\ \A i \in 0 .. Cardinality(t) - 1 : i \in AgentIds(t)

(* RankTableInfo::Check: ids are below the count, none repeated, none      *)
(* missing.                                                                *)
Check(t) ==
    /\ \A d \in t : cfg.id[d] < Cardinality(t)
    /\ \A d, e \in t : cfg.id[d] = cfg.id[e] => d = e
    /\ \A i \in 0 .. Cardinality(t) - 1 : i \in AgentIds(t)

(* VerifyTlsConsistencyByTlsType: an unknown state only warns.             *)
VerifyTlsConsistency(t) ==
    \/ \A d \in t : cfg.tls[d] # "enable"
    \/ \A d \in t : cfg.tls[d] # "disable"

\* Mutant: the number of ranks is not compared with the size.
VerifyRankTable_AnyCount(c) ==
    /\ Check(rankTable)
    /\ VerifyTlsConsistency(rankTable)

VerifyRankTable(c) ==
    /\ Cardinality(rankTable) = cfg.size[c]
    /\ Check(rankTable)
    /\ VerifyTlsConsistency(rankTable)

(* RecvRankTable of a whole message.  WaitComplete looks the port up in    *)
(* the process of the client: outside the root's process it finds no       *)
(* status and returns at once.                                             *)
RecvRankTable(c) ==
    /\ cpc[c] = "recv" /\ IsOk(c)
    /\ IF VerifyRankTable(c)
       THEN ClientGoto(c, IF c = Root THEN "wait" ELSE "ok") /\ UNCHANGED dead
       ELSE ClientFails(c)
    /\ UNCHANGED <<faults, dispButDead, cfg, up, svcVars>>

(* WaitComplete in the root's process.                                     *)
WaitComplete ==
    /\ cpc[Root] = "wait"
    /\ \/ status = "idle" /\ ClientGoto(Root, "ok") /\ UNCHANGED dead
       \/ status = "error" /\ ClientFails(Root)
    /\ UNCHANGED <<faults, dispButDead, cfg, up, svcVars>>

(* The socket fails under the client.                                      *)
ClientCutOff(c) ==
    /\ \/ cpc[c] = "connected" /\ Abandoned(c)
       \/ cpc[c] = "recv" /\ Abandoned(c) /\ ~IsOk(c)
       \/ cpc[c] = "start" /\ ~listening
    /\ ClientFails(c)
    /\ UNCHANGED <<faults, dispButDead, cfg, up, svcVars>>

(* A time-out of the client, or the end of its process, which may come     *)
(* between two of its messages.                                            *)
ClientBreaks(c) ==
    /\ Pending(c) /\ Fault
    /\ ClientFails(c)
    /\ \E n \in IF cpc[c] = "connected" THEN 0 .. Len(Messages) - 1 ELSE {0} :
          up' = [up EXCEPT ![c] = @ \o SubSeq(Messages, 1, n)]
    /\ UNCHANGED <<dispButDead, cfg, svcVars>>

Client(c) ==
    \/ Connect(c) \/ SendLocalRankTable(c) \/ RecvRankTable(c)
    \/ (c = Root /\ WaitComplete) \/ ClientCutOff(c)

-----------------------------------------------------------------------------
(* The service.                                                            *)

(* SetupRankInfoDetectService up to Setup.                                 *)
ServiceStart ==
    /\ spc = "start"
    /\ status' = "running" /\ spc' = "accept"
    /\ UNCHANGED <<dispVars, cfg, clientVars, connVars, gather, rankTable>>

\* Mutant: the loop over the ids starts at one.
FailedConnectionAgentIds_FromOne(S, rankSize) ==
    IF \A c \in S : cfg.id[c] < rankSize
    THEN (1 .. rankSize - 1) \ AgentIds(S)
    ELSE {}

(* FailedConnectionAgentIdString: gives up on an id beyond the size.       *)
FailedConnectionAgentIds(S, rankSize) ==
    IF \A c \in S : cfg.id[c] < rankSize
    THEN (0 .. rankSize - 1) \ AgentIds(S)
    ELSE {}

(* The end of GetConnections, by success or by a break of its loop.        *)
EndConnections ==
    /\ spc' = IF connSockets' = {} THEN "error" ELSE "gather"
    /\ gather' = connSockets'
    /\ failedIds' = IF connSockets' # {} /\ expected' > 0
                    THEN FailedConnectionAgentIds(connSockets', previous')
                    ELSE {}
    /\ UNCHANGED <<listening, rankTable, status>>

(* One pass of GetConnections that finds a connection: outside the white   *)
(* list it is closed, else its id and size are received.                   *)
Accept(c) ==
    /\ spc = "accept" /\ expected > 0
    /\ c \in backlog
    /\ backlog' = backlog \ {c}
    /\ IF c \in cfg.listed
       THEN cur' = c /\ spc' = "agentId" /\ UNCHANGED closed
       ELSE closed' = closed \cup {c} /\ UNCHANGED <<cur, spc>>
    /\ UNCHANGED <<dispVars, cfg, clientVars, listening, connSockets, expected,
                   previous, failedIds, gather, rankTable, status>>

AllAccepted ==
    /\ spc = "accept" /\ expected = 0
    /\ UNCHANGED <<backlog, closed, cur, connSockets, expected, previous>>
    /\ EndConnections
    /\ UNCHANGED <<dispVars, cfg, clientVars>>

(* The time-out of GetConnections; certain once nobody is left to come.    *)
AcceptTimeout ==
    /\ spc = "accept" /\ expected > 0
    /\ \/ backlog \subseteq dead /\ (\A c \in Clients : cpc[c] # "start") /\ NoFault
       \/ Fault
    /\ UNCHANGED <<backlog, closed, cur, connSockets, expected, previous>>
    /\ EndConnections
    /\ UNCHANGED <<dead, dispButDead, cfg, clientVars>>

(* A receive of the service from c: the next message, or none because the  *)
(* peer is gone or the receive timed out.                                  *)
Recv(c) == up[c] # <<>> /\ up' = [up EXCEPT ![c] = Tail(@)] /\ NoFault

RecvFails(c) ==
    /\ \/ c \in dead /\ up[c] = <<>> /\ NoFault
       \/ Fault
    /\ UNCHANGED up

(* RecvAndVerifyRemoteAgentIdAndRankSize, first half.  A socket that does  *)
(* not enter connSockets_ is closed with its last reference.               *)
RecvAgentId ==
    /\ spc = "agentId"
    /\ \/ /\ Recv(cur) /\ cfg.id[cur] \notin AgentIds(connSockets)
          /\ connSockets' = connSockets \cup {cur}
          /\ spc' = "rankSize"
          /\ UNCHANGED <<closed, expected, previous, failedIds, gather, listening,
                         rankTable, status>>
       \/ /\ RecvFails(cur) \/ (Recv(cur) /\ cfg.id[cur] \in AgentIds(connSockets))
          /\ closed' = closed \cup {cur}
          /\ UNCHANGED <<connSockets, expected, previous>>
          /\ EndConnections
    /\ UNCHANGED <<dead, dispButDead, cfg, cpc, backlog, cur>>

(* Second half, with VerifyRemoteRankSize: the first size received is the  *)
(* number of connections to wait for, any other has to equal it.           *)
RecvRankSize ==
    /\ spc = "rankSize"
    /\ LET size == cfg.size[cur]
       IN \/ /\ Recv(cur) /\ previous \in {0, size}
             /\ expected' = (IF previous = 0 THEN size ELSE expected) - 1
             /\ previous' = size
             /\ spc' = "accept"
             /\ UNCHANGED <<connSockets, failedIds, gather, listening, rankTable,
                            status>>
          \/ /\ RecvFails(cur) \/ (Recv(cur) /\ previous \notin {0, size})
             /\ UNCHANGED <<expected, previous, connSockets>>
             /\ EndConnections
    /\ UNCHANGED <<dead, dispButDead, cfg, cpc, backlog, closed, cur>>

(* GetRankTable for one connection: the message has to parse as a table of *)
(* the current step.                                                       *)
RecvRankInfo(c) ==
    /\ spc = "gather" /\ c \in gather
    /\ \/ /\ Recv(c) /\ Head(up[c]) = "rankTable"
          /\ rankTable' = rankTable \cup {c}
          /\ gather' = gather \ {c}
          /\ UNCHANGED spc
       \/ /\ RecvFails(c) \/ (Recv(c) /\ Head(up[c]) # "rankTable")
          /\ spc' = "error"
          /\ UNCHANGED <<rankTable, gather>>
    /\ UNCHANGED <<dead, dispButDead, cfg, cpc, connVars, status>>

(* BroadcastRankTable: makes the dispatcher, runs it and destroys it.      *)
BroadcastRankTable ==
    /\ spc = "gather" /\ gather = {}
    /\ PrepareResource(connSockets)
    /\ spc' = "broadcast"
    /\ UNCHANGED <<cfg, clientVars, connVars, gather, rankTable, status>>

BroadcastEnds ==
    /\ spc = "broadcast" /\ mpc = "gone"
    /\ spc' = IF ret = "success" THEN "idle" ELSE "error"
    /\ UNCHANGED <<dispVars, cfg, clientVars, connVars, gather, rankTable, status>>

(* The status is published, then the server socket destroyed; a failure of *)
(* that is published over it.                                              *)
PublishIdle ==
    /\ spc = "idle"
    /\ status' = "idle" /\ spc' = "destroy"
    /\ UNCHANGED <<dispVars, cfg, clientVars, connVars, gather, rankTable>>

DestroyServerSocket ==
    /\ spc = "destroy"
    /\ listening' = FALSE
    /\ \/ NoFault /\ spc' = "teardown"
       \/ Fault /\ spc' = "error"
    /\ UNCHANGED <<dead, dispButDead, cfg, clientVars, backlog, closed, cur,
                   connSockets, expected, previous, failedIds, gather, rankTable,
                   status>>

PublishError ==
    /\ spc = "error"
    /\ status' = "error" /\ spc' = "teardown"
    /\ UNCHANGED <<dispVars, cfg, clientVars, connVars, gather, rankTable>>

(* TearDown, from the destructor of the service: Disconnect, StopListen.   *)
TearDown ==
    /\ spc = "teardown"
    /\ closed' = closed \cup connSockets
    /\ connSockets' = {}
    /\ listening' = FALSE
    /\ spc' = "end"
    /\ UNCHANGED <<dispVars, cfg, clientVars, backlog, cur, expected, previous,
                   failedIds, gather, rankTable, status>>

Service ==
    \/ ServiceStart \/ AllAccepted \/ RecvAgentId \/ RecvRankSize
    \/ (\E c \in Clients : Accept(c) \/ RecvRankInfo(c))
    \/ BroadcastRankTable \/ BroadcastEnds \/ PublishIdle \/ DestroyServerSocket
    \/ PublishError \/ TearDown

Dispatcher(A) == A /\ UNCHANGED <<cfg, clientVars, svcVars>>

(* Everything has come to its end.                                         *)
Done == spc = "end" /\ (\A c \in Clients : ~Pending(c)) /\ UNCHANGED vars

Next ==
    \/ Service \/ AcceptTimeout
    \/ \E c \in Clients : Client(c) \/ ClientBreaks(c)
    \/ Dispatcher(Main)
    \/ \E w \in Workers : Dispatcher(Worker(w))
    \/ \E c \in Clients : Dispatcher(Drain(c))
    \/ Done

(* Every thread that can go on without a fault does; the dispatcher's main *)
(* thread is the service's, and among the clients it is enough that one    *)
(* goes on.  The process of a client also reads what has arrived, and a    *)
(* wait that nobody will answer times out.                                 *)
Fairness ==
    /\ WF_vars(NoFault /\ (Service \/ AcceptTimeout \/ Dispatcher(Main)))
    /\ \A w \in Workers : WF_vars(NoFault /\ Dispatcher(Worker(w)))
    /\ WF_vars(\E c \in Clients : Client(c) \/ Dispatcher(Drain(c)))

Spec == Init /\ [][Next]_vars /\ Fairness

-----------------------------------------------------------------------------
(* The variables of the exchange keep their types.                         *)
TypeOK ==
    /\ DispTypeOK
    /\ cfg \in Configs
    /\ cpc \in [Clients -> {"start", "connected", "recv", "wait",
                            "ok", "failed"}]
    /\ up \in [Clients -> Seq({"agentId", "rankSize", "rankTable"})]
    /\ backlog \subseteq Clients /\ closed \subseteq Clients /\ cur \in Clients
    /\ connSockets \subseteq Clients /\ gather \subseteq Clients
    /\ rankTable \subseteq Clients
    /\ listening \in BOOLEAN
    /\ spc \in {"start", "accept", "agentId", "rankSize", "gather", "broadcast",
                "idle", "destroy", "error", "teardown", "end"}
    /\ expected \in Nat /\ previous \in Nat /\ failedIds \subseteq Nat
    /\ status \in {"absent", "running", "idle", "error"}

(* What the exchange promises.  The table counts as fixed once it is given *)
(* to the dispatcher.                                                      *)
Exchange == INSTANCE RankTableExchange WITH
    table <- IF mpc = "none" THEN {} ELSE rankTable,
    outcome <- [c \in Clients |-> IF Pending(c) THEN "pending" ELSE cpc[c]]

(* The service and the clients implement the exchange: however sockets,    *)
(* time-outs, misconfigured and dying ranks and the broadcast interleave,  *)
(* ranks that succeed hold one complete table with their own entry in it.  *)
ImplementsExchange == Exchange!Spec

(* Every process was given the same size, and ids that name a rank.        *)
WellConfigured ==
    /\ \A c, d \in Clients : cfg.size[c] = cfg.size[d]
    /\ \A c \in Clients : cfg.id[c] < cfg.size[c]
    /\ \A c, d \in Clients : cfg.id[c] = cfg.id[d] => c = d

(* The "last words" of the service: when well configured ranks are sent a  *)
(* table that lacks ranks, the message names exactly those that it lacks.  *)
LastWordsExact ==
    WellConfigured /\ mpc # "none" =>
        failedIds = (0 .. cfg.size[Root] - 1) \ AgentIds(rankTable)

(* The sockets are closed only after the workers that write to them have   *)
(* been joined.                                                            *)
SocketsOutliveWorkers ==
    closed \cap conn # {} => \A w \in Workers : wpc[w] = "exit"

(* The service always comes to its end, with every client released: the    *)
(* workers can be joined however the broadcast ended, and no client waits  *)
(* for a socket or a status that will not change.                          *)
ExchangeEnds == <>(spc = "end" /\ \A c \in Clients : ~Pending(c))

(* With no time-out, crash or failing call, ranks that were well           *)
(* configured, all there and all listed, with one TLS state, do not fail,  *)
(* whatever the order of their steps and those of the service's threads.   *)
CleanExchangeSucceeds ==
    /\ faults = cfg.faults
    /\ WellConfigured /\ Cardinality(Clients) = cfg.size[Root]
    /\ VerifyTlsConsistency(Clients) /\ cfg.listed = Clients
    => status # "error" /\ \A c \in Clients : cpc[c] # "failed"

=============================================================================
