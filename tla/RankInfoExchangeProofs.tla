----------------------- MODULE RankInfoExchangeProofs -----------------------
(***************************************************************************)
(* What the rank table exchange gives the ranks, for any number of ranks,  *)
(* of workers and of faults and any configuration.  The steps of           *)
(* RankInfoDetectProofs and RankInfoDispatcherProofs are put together into *)
(* the invariant of the whole; from it follow the safety properties, that  *)
(* the exchange implements RankTableExchange, and that ranks succeed when  *)
(* nothing goes wrong.                                                     *)
(***************************************************************************)
EXTENDS RankInfoDetectProofs, RankInfoDispatcherProofs

(* The provers a leaf is tried with that does not name one itself.         *)
USE ZenonT(40), SMTT(60)

(* Any set of ranks can be counted.                                        *)
LEMMA FiniteClients ==
    ASSUME NEW S \in SUBSET Clients
    PROVE  IsFiniteSet(S) /\ Cardinality(S) \in Nat
BY ClientsAssumption, FS_Subset, FS_CardinalityType

(* Sets of ranks are counted as the service counts connections.            *)
LEMMA ClientsCounted == Counting
<1>1. \A c \in Clients : Cardinality({c}) = 1
  BY FS_Singleton
<1>2. ASSUME NEW S \in SUBSET Clients, NEW c \in Clients \ S
      PROVE  Cardinality(S \cup {c}) = Cardinality(S) + 1
  <2>1. IsFiniteSet(S) /\ c \notin S
    BY FiniteClients
  <2> QED BY <2>1, FS_AddElement
<1>3. ASSUME NEW S \in SUBSET Clients
      PROVE  Cardinality(S) = Cardinality(Clients) <=> S = Clients
  BY ClientsAssumption, FS_Subset
<1> QED BY <1>1, <1>2, <1>3, FiniteClients DEF Counting

(* A receive of the service takes the first message of one client.         *)
LEMMA RecvTakes ==
    ASSUME TypeOK, NEW c \in Clients, Recv(c)
    PROVE  Taken(c)
<1>1. up[c] \in Seq(Msg) /\ up[c] # <<>> /\ up \in [Clients -> Seq(Msg)]
  BY DEF TypeOK, Msg, Recv
<1>2. up' = [up EXCEPT ![c] = Tail(up[c])]
  BY DEF Recv
<1>3. /\ Tail(up[c]) \in Seq(Msg) /\ Len(Tail(up[c])) = Len(up[c]) - 1
      /\ \A i \in 1 .. Len(Tail(up[c])) : Tail(up[c])[i] = up[c][i + 1]
  BY <1>1, HeadTailProperties
<1>4. Tail(up[c]) = <<>> \/ (Len(up[c]) > 1 /\ Tail(up[c])[1] = up[c][2])
  BY <1>1, <1>3, SMTT(60)
<1> QED BY <1>1, <1>2, <1>3, <1>4 DEF Taken

(* A client that ends between two messages leaves a prefix of them.        *)
LEMMA BreaksOff ==
    ASSUME TypeOK, MessageInv, NEW c \in Clients, ClientBreaks(c)
    PROVE  BrokenOff(c)
<1>1. up[c] \in Seq(Msg) /\ up \in [Clients -> Seq(Msg)]
  BY DEF TypeOK, Msg
<1>2. Len(Messages) - 1 = 2
  BY DEF Messages
<1>3. PICK n \in 0 .. 2 : /\ up' = [up EXCEPT ![c] = up[c] \o SubSeq(Messages, 1, n)]
                          /\ n = 0 \/ up[c] = <<>>
  <2>1. CASE cpc[c] = "connected"
    BY <1>2, <2>1 DEF ClientBreaks, MessageInv
  <2>2. CASE cpc[c] # "connected"
    BY <2>2, SMTT(60) DEF ClientBreaks
  <2> QED BY <2>1, <2>2
<1> DEFINE t == SubSeq(Messages, 1, n)
<1>4. /\ t \in Seq(Msg) /\ Len(t) = n
      /\ \A i \in 1 .. n : t[i] = Messages[i]
  <2>1. \A i \in 1 .. n : Messages[i] \in Msg
    BY DEF Messages, Msg
  <2> QED BY <2>1, SubSeqProperties, SMTT(60)
<1>5. up'[c] = up[c] \o t /\ up' = [up EXCEPT ![c] = up[c] \o t]
  BY <1>1, <1>3
<1>6. up[c] \o t \in Seq(Msg)
  BY <1>1, <1>4, ConcatProperties
<1>7. CASE n = 0
  <2>1. t = <<>>
    BY <1>7, SubSeqEmpty, SMTT(60)
  <2>2. up[c] \o t = up[c]
    BY <1>1, <2>1, ConcatEmptySeq
  <2> QED BY <1>1, <1>5, <1>6, <2>2 DEF BrokenOff
<1>8. CASE n # 0
  <2>1. up[c] \o t = t
    BY <1>3, <1>4, <1>8, ConcatEmptySeq
  <2>2. t[1] = "agentId" /\ (Len(t) > 1 => t[2] = "rankSize")
    BY <1>4, <1>8, SMTT(60) DEF Messages
  <2> QED BY <1>1, <1>5, <1>6, <2>1, <2>2, SMTT(60) DEF BrokenOff
<1> QED BY <1>7, <1>8

(* As many well configured ranks as the size have all the ids below it:    *)
(* the pigeonhole argument behind RankTableInfo::Check.                    *)
LEMMA AllIds ==
    ASSUME TypeOK
    PROVE  Pigeonhole
<1> SUFFICES ASSUME WellConfigured, NEW S \in SUBSET Clients,
                    Cardinality(S) = cfg.size[Root]
             PROVE  AgentIds(S) = 0 .. cfg.size[Root] - 1
  BY DEF Pigeonhole
<1> DEFINE n == cfg.size[Root]
           f == [c \in S |-> cfg.id[c]]
           T == 0 .. n - 1
<1>1. n \in Nat \ {0} /\ (\A c \in S : cfg.id[c] \in T)
  BY CfgType, RootAssumption, SMTT(60) DEF WellConfigured
<1>2. f \in Injection(S, T)
  BY <1>1 DEF WellConfigured, Injection, IsInjective
<1>3. IsFiniteSet(T) /\ Cardinality(T) = n
  <2>1. 0 \in Int /\ n - 1 \in Int /\ 0 <= n - 1 /\ (n - 1) - 0 + 1 = n
    BY <1>1
  <2> QED BY <2>1, FS_Interval, SMTT(60)
<1>4. f \in Surjection(S, T)
  BY <1>2, <1>3, FS_Injection
<1>5. \A t \in T : \E c \in S : cfg.id[c] = t
  BY <1>4 DEF Surjection
<1> QED BY <1>1, <1>5 DEF AgentIds

(* The broadcast keeps its promises.                                       *)
LEMMA BroadcastPromises == DispInv => BroadcastInv
<1> SUFFICES ASSUME DispInv PROVE BroadcastInv
  OBVIOUS
<1>1. \A c \in Clients : IsOk(c) => mpc # "none" /\ c \in conn
  BY FrameLenType, SMTT(60) DEF DispInv, DispTypeOK, CountInv,
     IsOk
<1>2. mpc = "none" => ~stop
  BY DEF DispInv, WriterInv
<1> QED BY <1>1, <1>2, SuccessSent DEF BroadcastInv

(* The invariant holds when the service thread is created.                 *)
LEMMA InitDetect == Init => DispInv /\ DetectInv
<1> SUFFICES ASSUME Init PROVE DispInv /\ DetectInv
  OBVIOUS
<1> USE RootAssumption, ConfigsAssumption DEF Init
<1>1. DispInv
  BY DispInitInv DEF Config
<1>2. TypeOK
  BY <1>1 DEF DispInv, TypeOK
<1>3. PhaseInv /\ SocketInv
  BY DEF DispInit, PhaseInv, SocketInv
<1>4. ClientInv /\ MessageInv
  BY DEF ClientInv, MessageInv
<1>5. ExpectInv /\ LastWordsInv
  BY DEF DispInit, ExpectInv, LastWordsInv
<1> QED BY <1>1, <1>2, <1>3, <1>4, <1>5 DEF DetectInv

(* Every step of the exchange keeps both invariants.                       *)
LEMMA NextDetect == DispInv /\ DetectInv /\ [Next]_vars => DispInv' /\ DetectInv'
<1> SUFFICES ASSUME DispInv, DetectInv, [Next]_vars PROVE DispInv' /\ DetectInv'
  OBVIOUS
<1>0. TypeOK /\ MessageInv
  BY DEF DetectInv
<1>1. CASE UNCHANGED vars
  <2>1. Elsewhere
    BY <1>1 DEF vars, dispVars, Elsewhere, DispInv, DispTypeOK
  <2>2. DispInv' /\ DispTypeOK'
    BY <2>1, ElsewhereInv DEF DispInv
  <2>3. UNCHANGED <<cfg, clientVars, svcVars, conn, mpc, ret, sent>>
    BY <1>1 DEF vars, dispVars
  <2> QED BY <2>2, <2>3, BroadcastDetect DEF IsOk
<1>2. ASSUME NEW c \in Clients, Client(c) \/ ClientBreaks(c)
      PROVE  DispInv' /\ DetectInv'
  <2>1. DispInv' /\ DispTypeOK'
    BY <1>0, <1>2, OutsideBroadcast, ElsewhereInv DEF DispInv, Elsewhere,
       dispButDead
  <2> QED BY <1>0, <1>2, <2>1, BreaksOff, ClientDetect
<1>3. CASE AcceptTimeout \/ Service
  <2>1. CASE BroadcastRankTable
    <3>1. connSockets \in SUBSET Clients /\ PrepareResource(connSockets)
      BY <1>0, <2>1 DEF BroadcastRankTable, TypeOK
    <3> QED BY <2>1, <3>1, PrepareResourceInv, BroadcastRankTableDetect DEF DispInv
  <2>2. CASE ~BroadcastRankTable
    <3>1. DispInv' /\ DispTypeOK'
      BY <1>0, <1>3, <2>2, OutsideBroadcast, ElsewhereInv DEF DispInv,
         Elsewhere, dispButDead
    <3>2. \A c \in Clients : Recv(c) => Taken(c)
      BY <1>0, RecvTakes
    <3>3. BroadcastInv /\ Pigeonhole
      BY <1>0, BroadcastPromises, AllIds
    <3> QED BY <1>3, <3>1, <3>2, <3>3, ClientsCounted, ServiceDetect
  <2> QED BY <2>1, <2>2
<1>4. CASE \/ Dispatcher(Main) \/ (\E w \in Workers : Dispatcher(Worker(w)))
           \/ (\E c \in Clients : Dispatcher(Drain(c)))
  <2>1. /\ UNCHANGED <<cfg, clientVars, svcVars>>
        /\ Main \/ (\E w \in Workers : Worker(w)) \/ (\E c \in Clients : Drain(c))
    BY <1>4 DEF Dispatcher
  <2>2. DispInv' /\ DispTypeOK'
    BY <2>1, DispNextInv DEF DispNext, DispInv
  <2> QED BY <1>0, <2>1, <2>2, BroadcastStep, BroadcastDetect DEF TypeOK
<1> QED BY <1>1, <1>2, <1>3, <1>4 DEF Next, Done

(* Type correctness of the exchange for any ranks, workers, lengths and    *)
(* configurations.                                                         *)
THEOREM DetectTypes == Spec => []TypeOK
<1>1. DetectInv => TypeOK
  BY DEF DetectInv
<1> QED BY <1>1, InitDetect, NextDetect, PTL DEF Spec

(* The hand-over from the main thread to the workers loses no wake-up:     *)
(* however push, WakeWoker, GetTask's reset of ready_ and the workers'     *)
(* sleep interleave, a queued task never waits for workers that all sleep. *)
THEOREM TasksNotStranded == Spec => []NoTaskStranded
<1>1. DispInv => NoTaskStranded
  BY DEF DispInv
<1> QED BY <1>1, InitDetect, NextDetect, PTL DEF Spec

(* EPOLLONESHOT works: no two threads ever have the same socket, so no two *)
(* interleave the bytes of one table.                                      *)
THEOREM WritersExclusive == Spec => []OneWriterPerSocket
BY OneWriter, InitDetect, NextDetect, PTL DEF Spec

(* BroadcastRankTable returns success only after the whole table has       *)
(* entered every socket.                                                   *)
THEOREM SuccessIsComplete == Spec => []SuccessMeansSent
BY SuccessSent, InitDetect, NextDetect, PTL DEF Spec

(* The service closes no socket of the broadcast before every worker has   *)
(* been joined.                                                            *)
THEOREM WorkersJoinedFirst == Spec => []SocketsOutliveWorkers
<1>1. DispInv /\ DetectInv => SocketsOutliveWorkers
  BY DEF DispInv, WriterInv, CountInv, DetectInv, TypeOK, PhaseInv, Gathering,
     SocketInv, SocketsOutliveWorkers
<1> QED BY <1>1, InitDetect, NextDetect, PTL DEF Spec

(* The missing ids that FailedConnectionAgentIdString reports with the     *)
(* table are exactly those of the well configured ranks not in it.         *)
THEOREM LastWords == Spec => []LastWordsExact
<1>1. DetectInv => LastWordsExact
  BY DEF DetectInv, LastWordsInv, LastWordsExact
<1> QED BY <1>1, InitDetect, NextDetect, PTL DEF Spec

-----------------------------------------------------------------------------
(* Service, dispatcher threads and clients together implement              *)
(* RankTableExchange: ranks that succeed hold one complete table with      *)
(* their own entry in it.                                                  *)
THEOREM DetectImplementsExchange == Spec => ImplementsExchange
BY InitDetect, NextDetect, BroadcastPromises, InitMapped, StepMapped, PTL DEF Spec,
   ImplementsExchange,
   Exchange!Spec

(* With no time-out, crash or failing call, well configured ranks do not   *)
(* fail, for any number of ranks and workers and any interleaving.         *)
THEOREM CleanExchanges == Spec => []CleanExchangeSucceeds
<1>1. DispInv /\ DetectInv /\ CleanInv /\ [Next]_vars => CleanInv'
  BY BroadcastPromises, ClientsCounted, AllIds, CleanNext DEF DetectInv
<1> QED BY <1>1, InitDetect, NextDetect, InitClean, CleanSucceeds, PTL DEF Spec

=============================================================================
