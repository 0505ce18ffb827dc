------------------------- MODULE OpRetryErrorProofs -------------------------
(***************************************************************************)
(* The server never strikes off an error it does not retry.  That needs    *)
(* more than types: an operator travels from the device's word through the *)
(* agent's locals and the socket into errorRankList_, and at every place   *)
(* on the way it must be one in which its rank takes part.                 *)
(***************************************************************************)
EXTENDS OpRetryProofs

(* The provers a leaf is tried with that does not name one itself.         *)
USE ZenonT(40), SMTT(60)

Own(r, op) == r \in Participants(op)

OwnFrame(r, f) == f.kind = "resp" => Own(r, f.op)

(* Wherever an operator is kept on behalf of a rank, the rank takes part   *)
(* in it.                                                                  *)
OwnWords == \A r \in Ranks : Own(r, d2h[r].op)

OwnLocals == \A r \in Ranks : Own(r, loc[r].op)

OwnFrames == \A r \in Ranks : \A i \in DOMAIN a2s[r] : OwnFrame(r, a2s[r][i])

OwnErrors == \A r \in ErrorRanks : Own(r, errorRankList[r])

OwnOps == OwnWords /\ OwnLocals /\ OwnFrames /\ OwnErrors

(* No operator is every rank's own.                                        *)
LEMMA NoOpOwn == ASSUME NEW r \in Ranks PROVE Own(r, NoOp)
BY DEF Own, Participants, NoOp

(* OwnOps holds when nothing has been launched.                            *)
LEMMA InitOwn == Init => OwnOps
<1> SUFFICES ASSUME Init PROVE OwnOps
  OBVIOUS
<1>1. \A r \in Ranks : d2h[r].op = NoOp /\ loc[r].op = NoOp /\ a2s[r] = <<>>
  BY DEF Init, ChannelsInit, AgentInit
<1>2. ErrorRanks = {}
  BY DEF Init, ServerInit, ErrorRanks
<1> QED BY <1>1, <1>2, NoOpOwn DEF OwnOps, OwnWords, OwnLocals, OwnFrames, OwnErrors

(* UpdateOpExecStatus leaves the operator in the word.                     *)
LEMMA PublishOwn ==
    ASSUME TypeOK, OwnOps, NEW r \in Ranks, NEW status, NEW err, NEW cnt,
           Publish(r, status, err, cnt)
    PROVE  OwnWords'
<1>1. \A q \in Ranks : d2h'[q].op = d2h[q].op
  BY DEF TypeOK, ChannelsTypeOK, ExecStatuses, Publish
<1> QED BY <1>1 DEF OwnOps, OwnWords

(* A device puts into its word only operators that its rank launched.      *)
LEMMA DeviceOwn ==
    ASSUME TypeOK, OwnOps, NEW r \in Ranks, Device(r)
    PROVE  OwnOps'
<1>1. OwnWords'
  <2>1. CASE InitProcess(r)
    <3>1. dev[r].pc + 1 \in DOMAIN Prog[r]
      BY <2>1, ProgAssumption, SMTT(60) DEF InitProcess, TypeOK,
         DeviceTypeOK, Devices
    <3>2. Own(r, Prog[r][dev[r].pc + 1])
      BY <3>1, OwnProgAssumption DEF Own
    <3>3. /\ d2h'[r].op = Prog[r][dev[r].pc + 1]
          /\ \A q \in Ranks \ {r} : d2h'[q] = d2h[q]
      BY <2>1 DEF InitProcess, TypeOK, ChannelsTypeOK
    <3> QED BY <3>2, <3>3 DEF OwnOps, OwnWords
  <2>2. CASE UNCHANGED d2h
    BY <2>2 DEF OwnOps, OwnWords
  <2>3. CASE \E status, err, cnt : Publish(r, status, err, cnt)
    BY <2>3, PublishOwn
  <2>4. \/ InitProcess(r) \/ UNCHANGED d2h
        \/ \E status, err, cnt : Publish(r, status, err, cnt)
    <3>1. ASSUME \E err : Fail(r, err)
          PROVE  \E status, err, cnt : Publish(r, status, err, cnt)
      BY <3>1 DEF Fail
    <3>2. CASE LaunchProcess(r) \/ TaskException(r)
      BY <3>2 DEF LaunchProcess, TaskException, channels
    <3>3. CASE WaitEndProcess(r) \/ Suspend(r) \/ ChangeLinkProcess(r)
               \/ RetryProcess(r)
      BY <3>3 DEF WaitEndProcess, Suspend, ChangeLinkProcess, RetryProcess
    <3>4. CASE AbortOnExit(r) \/ ExecTimeout(r) \/ DeviceCallFails(r)
               \/ WaitHostTimeout(r)
      BY <3>1, <3>4 DEF AbortOnExit, ExecTimeout, DeviceCallFails, WaitHostTimeout
    <3>5. CASE StoppingProcess(r)
      BY <3>1, <3>5 DEF StoppingProcess
    <3>6. CASE StoppedProcess(r)
      BY <3>1, <3>6 DEF StoppedProcess
    <3>7. CASE WaitRetryProcess(r)
      BY <3>1, <3>7 DEF WaitRetryProcess
    <3> QED BY <3>2, <3>3, <3>4, <3>5, <3>6, <3>7 DEF Device, DeviceStep
  <2> QED BY <2>1, <2>2, <2>3, <2>4
<1>2. UNCHANGED a2s
  BY DEF Device, DeviceStep, InitProcess, LaunchProcess, TaskException,
     WaitEndProcess, Suspend, AbortOnExit, ExecTimeout, StoppingProcess,
     StoppedProcess, WaitRetryProcess, ChangeLinkProcess, RetryProcess,
     DeviceCallFails, WaitHostTimeout, channels
<1>3. UNCHANGED <<loc, errorRankList>>
  BY DEF Device, agentVars, serverVars
<1> QED BY <1>1, <1>2, <1>3 DEF OwnOps, OwnLocals, OwnFrames, OwnErrors, ErrorRanks

(* Locals whose operator is unchanged or copied from the word stay own.    *)
LEMMA LocalsOwn ==
    ASSUME TypeOK, OwnOps, NEW r \in Ranks, NEW l,
           l.op = loc[r].op \/ l.op = d2h[r].op, loc' = [loc EXCEPT ![r] = l]
    PROVE  OwnLocals'
<1>1. loc'[r] = l /\ \A q \in Ranks \ {r} : loc'[q] = loc[q]
  BY DEF TypeOK, AgentTypeOK
<1> QED BY <1>1 DEF OwnOps, OwnWords, OwnLocals

(* A frame sent by an agent for its own operator keeps its stream own.     *)
LEMMA ResponseOwn ==
    ASSUME TypeOK, OwnOps, NEW r \in Ranks, NEW f, OwnFrame(r, f),
           f \in RespFrames \cup PortFrames, IssueResponse(r, f)
    PROVE  OwnFrames'
<1> SUFFICES ASSUME NEW q \in Ranks, NEW i \in DOMAIN a2s'[q]
             PROVE  OwnFrame(q, a2s'[q][i])
  BY DEF OwnFrames
<1>1. a2s[q] \in Seq(RespFrames \cup PortFrames)
  BY DEF TypeOK, ChannelsTypeOK
<1>2. CASE q = r
  <2>1. a2s'[q] = Append(a2s[q], f)
    BY <1>2 DEF IssueResponse, TypeOK, ChannelsTypeOK
  <2>2. \/ i \in DOMAIN a2s[q] /\ a2s'[q][i] = a2s[q][i]
        \/ a2s'[q][i] = f
    BY <1>1, <2>1
  <2> QED BY <1>2, <2>2 DEF OwnOps, OwnFrames
<1>3. CASE q # r
  <2>1. a2s'[q] = a2s[q]
    BY <1>3 DEF IssueResponse, TypeOK, ChannelsTypeOK
  <2> QED BY <2>1 DEF OwnOps, OwnFrames
<1> QED BY <1>2, <1>3

(* An agent reports only the operator its device is in.                    *)
LEMMA AgentOwn ==
    ASSUME TypeOK, OwnOps, NEW r \in Ranks, Agent(r)
    PROVE  OwnOps'
<1> DEFINE Goal == UNCHANGED d2h /\ OwnLocals' /\ OwnFrames'
<1>a. FromWord(r) \in Locals /\ FromWord(r).op = d2h[r].op
  BY FromWordType DEF FromWord
<1>b. loc[r] \in Locals
  BY DEF TypeOK, AgentTypeOK
<1>c. UNCHANGED loc => OwnLocals'
  BY DEF OwnOps, OwnLocals
<1>d. UNCHANGED a2s => OwnFrames'
  BY DEF OwnOps, OwnFrames
<1>e. loc' = [loc EXCEPT ![r] = FromWord(r)] => OwnLocals'
  BY <1>a, LocalsOwn
<1>1. ASSUME RdmaError(r) \/ StopAicpu(r) \/ IgnoreCommand(r) \/ CommandFails(r)
           \/ WaitCmdTimeout(r) \/ AgentRetryFail(r)
      PROVE  Goal
  BY <1>1, <1>c, <1>d DEF RdmaError, StopAicpu, IgnoreCommand, CommandFails,
     WaitCmdTimeout, AgentRetryFail
<1>2. ASSUME StopStream(r) \/ ClearStream(r) \/ StopTransport(r) \/ ResetNotify(r)
           \/ CheckLink(r)
      PROVE  Goal
  BY <1>2, <1>c, <1>d
  DEF StopStream, ClearStream, StopTransport, ResetNotify, ExecuteOnHost, CheckLink
<1>3. ASSUME WaitChangeLinkInfo(r) \/ MisreadCommand(r) \/ ResumeTransport(r)
           \/ PutChangeLinkInfo(r) \/ CanRetry(r)
      PROVE  Goal
  BY <1>3, <1>c, <1>d DEF WaitChangeLinkInfo, MisreadCommand, ResumeTransport,
     PutChangeLinkInfo, CanRetry
<1>4. ASSUME ParseKfcErr(r) \/ CheckOpname(r) \/ PollAicpuStop(r)
           \/ PollAicpuTimeout(r)
      PROVE  Goal
  BY <1>4, <1>d, <1>e DEF ParseKfcErr, CheckOpname, PollAicpuStop,
     PollAicpuTimeout, channels
<1>5. ASSUME ParseRdmaErr(r)
      PROVE  Goal
  <2>1. [FromWord(r) EXCEPT !.err = "kRdma", !.status = "kStoplaunch"].op
          = d2h[r].op
    BY <1>a DEF Locals
  <2>2. OwnLocals'
    <3>1. CASE loc' = [loc EXCEPT ![r] = FromWord(r)]
      BY <3>1, <1>e
    <3>2. CASE loc' = [loc EXCEPT ![r] = [FromWord(r) EXCEPT
                          !.err = "kRdma", !.status = "kStoplaunch"]]
      BY <3>2, <2>1, LocalsOwn
    <3> QED BY <1>5, <3>1, <3>2 DEF ParseRdmaErr
  <2> QED BY <1>5, <2>2, <1>d DEF ParseRdmaErr, channels
<1>6. ASSUME RunningOtherCmd(r)
      PROVE  Goal
  <2>1. CASE UNCHANGED <<a2s, loc>>
    BY <1>6, <2>1, <1>c, <1>d DEF RunningOtherCmd
  <2>2. CASE /\ loc' = [loc EXCEPT ![r] = FromWord(r)]
             /\ IssueResponse(r, RespFrame("AGENT_RUNNING", FromWord(r)))
    <3>1. RespFrame("AGENT_RUNNING", FromWord(r)) \in RespFrames
      BY <1>a, RespFrameType DEF Reports
    <3>2. OwnFrame(r, RespFrame("AGENT_RUNNING", FromWord(r)))
      BY <1>a DEF OwnFrame, RespFrame, OwnOps, OwnWords
    <3>3. OwnFrames'
      BY <2>2, <3>1, <3>2, ResponseOwn
    <3> QED BY <1>6, <2>2, <3>3, <1>e DEF RunningOtherCmd
  <2> QED BY <1>6, <2>1, <2>2 DEF RunningOtherCmd
<1>7. ASSUME Respond(r)
      PROVE  Goal
  <2>1. RespFrame(ag[r], loc[r]) \in RespFrames
    BY <1>7, <1>b, RespFrameType, RespNextType DEF Respond
  <2>2. OwnFrame(r, RespFrame(ag[r], loc[r]))
    BY DEF OwnFrame, RespFrame, OwnOps, OwnLocals
  <2>3. OwnFrames'
    BY <1>7, <2>1, <2>2, ResponseOwn DEF Respond
  <2> QED BY <1>7, <2>3, <1>c DEF Respond
<1>8. ASSUME ResponseLinkInfo(r)
      PROVE  Goal
  <2> DEFINE f == PortFrame(Peers(loc[r].op, r), portStatus[r])
  <2>1. f \in PortFrames
    <3>1. Peers(loc[r].op, r) \in SUBSET Ranks
      BY <1>b, PeersType DEF Locals
    <3>2. portStatus[r] \in BOOLEAN \X BOOLEAN
      BY DEF TypeOK, AgentTypeOK
    <3> QED BY <3>1, <3>2, PortFrameType
  <2>2. OwnFrame(r, f)
    BY DEF OwnFrame, PortFrame
  <2>3. OwnFrames'
    BY <1>8, <2>1, <2>2, ResponseOwn DEF ResponseLinkInfo
  <2> QED BY <1>8, <2>3, <1>c DEF ResponseLinkInfo
<1>9. ASSUME FailCommand(r)
      PROVE  Goal
  <2> DEFINE l == [loc[r] EXCEPT !.report =
               loc[r].report \/ Head(s2a[r]).cmd = "RETRY_CONSTRAINT_FAIL"]
  <2>1. l.op = loc[r].op
    BY <1>b DEF Locals
  <2>2. loc' = [loc EXCEPT ![r] = l]
    BY <1>9 DEF FailCommand
  <2>3. OwnLocals'
    BY <2>1, <2>2, LocalsOwn
  <2> QED BY <1>9, <2>3, <1>d DEF FailCommand
<1>10. ASSUME PollAicpuConstraint(r)
      PROVE  Goal
  <2>1. [FromWord(r) EXCEPT !.report = TRUE].op = d2h[r].op
    BY <1>a DEF Locals
  <2>2. OwnLocals'
    BY <1>10, <2>1, LocalsOwn DEF PollAicpuConstraint
  <2> QED BY <1>10, <2>2, <1>d DEF PollAicpuConstraint, channels
<1>11. Goal
  BY <1>1, <1>2, <1>3, <1>4, <1>5, <1>6, <1>7, <1>8, <1>9, <1>10
  DEF Agent, AgentStep
<1>12. UNCHANGED errorRankList
  BY DEF Agent, serverVars
<1> QED BY <1>11, <1>12 DEF OwnOps, OwnWords, OwnErrors, ErrorRanks

(* A frame received leaves a stream of own frames.                         *)
LEMMA DropOwn ==
    ASSUME TypeOK, OwnOps, NEW r \in Ranks, a2s[r] # <<>>, Drop(r)
    PROVE  OwnFrames'
<1> SUFFICES ASSUME NEW q \in Ranks, NEW i \in DOMAIN a2s'[q]
             PROVE  OwnFrame(q, a2s'[q][i])
  BY DEF OwnFrames
<1>1. a2s[q] \in Seq(RespFrames \cup PortFrames)
  BY DEF TypeOK, ChannelsTypeOK
<1>2. CASE q = r
  <2>1. a2s'[q] = Tail(a2s[q])
    BY <1>2 DEF Drop, TypeOK, ChannelsTypeOK
  <2>2. i + 1 \in DOMAIN a2s[q] /\ a2s'[q][i] = a2s[q][i + 1]
    BY <1>1, <1>2, <2>1
  <2> QED BY <2>2 DEF OwnOps, OwnFrames
<1>3. CASE q # r
  <2>1. a2s'[q] = a2s[q]
    BY <1>3 DEF Drop, TypeOK, ChannelsTypeOK
  <2> QED BY <2>1 DEF OwnOps, OwnFrames
<1> QED BY <1>2, <1>3

(* An error that is noted is the rank's own; none is struck off.           *)
LEMMA TakeReportOwn ==
    ASSUME TypeOK, OwnOps, NEW r \in Ranks, TakeReport(r)
    PROVE  OwnFrames' /\ OwnErrors' /\ ErrorRanks \subseteq ErrorRanks'
<1>1. a2s[r] # <<>> /\ 1 \in DOMAIN a2s[r] /\ Head(a2s[r]) = a2s[r][1]
  BY DEF TypeOK, ChannelsTypeOK, TakeReport, Received
<1>2. Own(r, Head(a2s[r]).op)
  <2>1. OwnFrame(r, Head(a2s[r])) /\ Head(a2s[r]).kind = "resp"
    BY <1>1 DEF OwnOps, OwnFrames, TakeReport, Received
  <2> QED BY <2>1 DEF OwnFrame
<1>3. OwnFrames'
  BY <1>1, DropOwn DEF TakeReport
<1>4. \/ errorRankList' = errorRankList
      \/ errorRankList' = Insert(r, Head(a2s[r]).op)
  BY DEF TakeReport
<1>5. CASE errorRankList' = errorRankList
  BY <1>3, <1>5 DEF OwnOps, OwnErrors, ErrorRanks
<1>6. CASE errorRankList' = Insert(r, Head(a2s[r]).op)
  <2>1. /\ ErrorRanks' = ErrorRanks \cup {r}
        /\ errorRankList'[r] = Head(a2s[r]).op
        /\ \A q \in ErrorRanks \ {r} : errorRankList'[q] = errorRankList[q]
    BY <1>6 DEF Insert, ErrorRanks
  <2> QED BY <1>2, <1>3, <2>1 DEF OwnOps, OwnErrors
<1> QED BY <1>4, <1>5, <1>6

(* Opening a round strikes off only ranks of the round.                    *)
LEMMA OpenRoundKeeps ==
    ASSUME TypeOK, OwnOps, NEW op \in OpIds, NEW S,
           OpenRound(op), errorRankList' = Erase(S),
           S \cap ErrorRanks \subseteq Participants(op)
    PROVE  OwnFrames' /\ OwnErrors' /\ StruckErrorsRetried
<1>1. /\ ErrorRanks' = ErrorRanks \ S
      /\ \A q \in ErrorRanks' : errorRankList'[q] = errorRankList[q]
  BY DEF Erase, ErrorRanks
<1>2. OwnErrors'
  BY <1>1 DEF OwnOps, OwnErrors
<1>3. OwnFrames'
  BY DEF OpenRound, channels, OwnOps, OwnFrames
<1>4. round' > round /\ round' \in Rounds
  BY BoundAssumption, SMTT(60) DEF OpenRound, TypeOK,
     ServerTypeOK, Rounds
<1>5. hist'[round'].ranks = Participants(op)
  BY <1>4 DEF OpenRound, TypeOK, ServerTypeOK
<1> QED BY <1>1, <1>2, <1>3, <1>4, <1>5 DEF StruckErrorsRetried

(* The server keeps the operators own, and retries what it strikes off.    *)
LEMMA ServerOwn ==
    ASSUME TypeOK, OwnOps, Server
    PROVE  OwnOps' /\ StruckErrorsRetried
<1> DEFINE Goal == OwnFrames' /\ OwnErrors' /\ StruckErrorsRetried
                   /\ UNCHANGED d2h
<1>a. UNCHANGED errorRankList => OwnErrors' /\ StruckErrorsRetried
  BY DEF OwnOps, OwnErrors, ErrorRanks, StruckErrorsRetried
<1>b. UNCHANGED a2s => OwnFrames'
  BY DEF OwnOps, OwnFrames
<1>c. ErrorRanks \subseteq ErrorRanks' => StruckErrorsRetried
  BY DEF StruckErrorsRetried
<1>1. ASSUME NEW r \in Ranks, ServerRunning(r) PROVE Goal
  BY <1>1, <1>c, TakeReportOwn DEF ServerRunning
<1>2. ASSUME HandleErrorPoll PROVE Goal
  BY <1>2, <1>a, <1>b, <1>c, TakeReportOwn DEF HandleErrorPoll
<1>3. ASSUME HandleErrorSendRecv PROVE Goal
  <2>1. PICK r \in SendRecvErrors :
          /\ errorRankList' = Erase({r, Remote(errorRankList[r], r)})
          /\ OpenRound(errorRankList[r])
    BY <1>3 DEF HandleErrorSendRecv
  <2> DEFINE op == errorRankList[r]
  <2>2. op \in OpIds /\ op.isSendRecv /\ Own(r, op)
    BY DEF SendRecvErrors, TypeOK, ServerTypeOK, OwnOps, OwnErrors
  <2>3. {r, Remote(op, r)} \subseteq Participants(op)
    BY <2>2 DEF Own, Participants, Remote
  <2>4. OwnFrames' /\ OwnErrors' /\ StruckErrorsRetried
    BY <2>1, <2>2, <2>3, OpenRoundKeeps
  <2> QED BY <2>1, <2>4 DEF OpenRound, channels
<1>4. ASSUME HandleErrorCollective PROVE Goal
  <2>1. PICK r \in ErrorRanks : OpenRound(errorRankList[r])
    BY <1>4 DEF HandleErrorCollective
  <2>2. errorRankList[r] \in OpIds /\ ~errorRankList[r].isSendRecv
    BY <1>4 DEF HandleErrorCollective, SendRecvErrors, TypeOK, ServerTypeOK
  <2>3. Participants(errorRankList[r]) = Ranks /\ ErrorRanks \subseteq Ranks
    BY <2>2 DEF Participants, TypeOK, ServerTypeOK
  <2>4. OwnFrames' /\ OwnErrors' /\ StruckErrorsRetried
    BY <1>4, <2>1, <2>2, <2>3, OpenRoundKeeps DEF HandleErrorCollective
  <2> QED BY <2>1, <2>4 DEF OpenRound, channels
<1>5. ASSUME NEW r \in Ranks, WaitResp(r) \/ WaitRespFail(r) \/ WaitLinkInfo(r)
      PROVE  Goal
  <2>1. a2s[r] # <<>> /\ Drop(r) /\ UNCHANGED <<d2h, errorRankList>>
    BY <1>5 DEF WaitResp, WaitRespFail, WaitLinkInfo, Received
  <2> QED BY <2>1, <1>a, DropOwn
<1>6. ASSUME ServerRunningPending \/ HandleErrorAgain \/ WaitRespDone \/ CheckOp
             \/ WaitLinkInfoDone \/ CheckAllLink
      PROVE  Goal
  BY <1>6, <1>a, <1>b DEF ServerRunningPending, HandleErrorAgain,
     WaitRespDone, CheckOp, WaitLinkInfoDone, CheckAllLink, channels
<1>7. ASSUME IssueCmd \/ IssueChangeLink \/ ServerRetryFail \/ SendFails
             \/ ServerTimeout
      PROVE  Goal
  BY <1>7, <1>a, <1>b
  DEF IssueCmd, IssueChangeLink, ServerRetryFail, SendFails, ServerTimeout
<1>8. Goal
  BY <1>1, <1>2, <1>3, <1>4, <1>5, <1>6, <1>7 DEF Server, ServerStep
<1>9. UNCHANGED loc
  BY DEF Server, agentVars
<1> QED BY <1>8, <1>9 DEF OwnOps, OwnWords, OwnLocals

(* One step of the system.                                                 *)
LEMMA NextOwn ==
    TypeOK /\ OwnOps /\ [Next]_vars => OwnOps' /\ [StruckErrorsRetried]_vars
<1> SUFFICES ASSUME TypeOK, OwnOps, [Next]_vars
             PROVE  OwnOps' /\ [StruckErrorsRetried]_vars
  OBVIOUS
<1>1. UNCHANGED errorRankList => StruckErrorsRetried
  BY DEF StruckErrorsRetried, ErrorRanks
<1>2. CASE Server
  BY <1>2, ServerOwn
<1>3. ASSUME NEW r \in Ranks, Device(r) PROVE OwnOps' /\ StruckErrorsRetried
  BY <1>1, <1>3, DeviceOwn DEF Device, serverVars
<1>4. ASSUME NEW r \in Ranks, Agent(r) PROVE OwnOps' /\ StruckErrorsRetried
  BY <1>1, <1>4, AgentOwn DEF Agent, serverVars
<1>5. CASE UNCHANGED vars
  BY <1>5 DEF vars, channels, agentVars, serverVars, OwnOps, OwnWords,
     OwnLocals, OwnFrames, OwnErrors, ErrorRanks
<1> QED BY <1>2, <1>3, <1>4, <1>5 DEF Next

(* For any number of ranks and any program: an error that an agent         *)
(* reported leaves the server's list only when a round is opened in which  *)
(* its rank takes part (OpRetryServerHandleError).                         *)
THEOREM ErrorsKept == Spec => ReportedErrorsKept
BY InitOwn, NextOwn, TypeCorrect, PTL DEF Spec, ReportedErrorsKept

=============================================================================
