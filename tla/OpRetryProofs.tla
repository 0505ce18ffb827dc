--------------------------- MODULE OpRetryProofs ---------------------------
(***************************************************************************)
(* What is proved of operator retry for any number of ranks, any program   *)
(* of operators and any bounds: every variable keeps its type.  The lemmas *)
(* follow the actions, one for each, grouped by party.                     *)
(***************************************************************************)
EXTENDS OpRetry, TLAPS

(* The provers a leaf is tried with that does not name one itself.         *)
USE ZenonT(40), SMTT(60)

-----------------------------------------------------------------------------
(* The tables of the server's states.                                      *)

(* The states the server's actions name.                                    *)
LEMMA NamedServerStates ==
    /\ {"SERVER_RUNNING", "HANDLE_ALL_ERR", "CMD_STOP_AICPU", "CHECK_ALL_LINK",
        "SERVER_RETRY_FAIL", "CMD_CHECK_LINK", "CMD_RESUME_TRANSPORT",
        "ISSUE_RESUME_TRANSPORT", "QUIT"} \subseteq ServerStates
    /\ \A s \in DOMAIN IssueStates : IssueStates[s][2] \in ServerStates
    /\ \A s \in DOMAIN WaitStates : WaitStates[s][2] \in ServerStates
<1>1. {"SERVER_RUNNING", "HANDLE_ALL_ERR", "CMD_STOP_AICPU", "CHECK_ALL_LINK",
       "SERVER_RETRY_FAIL", "CMD_CHECK_LINK", "CMD_RESUME_TRANSPORT",
       "ISSUE_RESUME_TRANSPORT", "QUIT"} \subseteq ServerStates
  BY DEF ServerStates, IssueStates
<1>2. \A s \in DOMAIN IssueStates : IssueStates[s][2] \in ServerStates
  <2>1. \A s \in DOMAIN IssueStates :
            IssueStates[s][2] \in DOMAIN WaitStates \cup {"WAIT_LINK_CHECKED"}
    BY DEF IssueStates, WaitStates
  <2> QED BY <2>1 DEF ServerStates
<1>3. \A s \in DOMAIN WaitStates : WaitStates[s][2] \in ServerStates
  <2>1. \A s \in DOMAIN WaitStates :
            WaitStates[s][2]
              \in DOMAIN IssueStates \cup {"CHECK_OP", "SERVER_RUNNING"}
    BY DEF IssueStates, WaitStates
  <2> QED BY <2>1 DEF ServerStates
<1> QED BY <1>1, <1>2, <1>3

(* What a broadcasting state sends is a command.                            *)
LEMMA IssuedCommands == \A s \in DOMAIN IssueStates : IssueStates[s][1] \in Commands
BY DEF IssueStates, Commands

-----------------------------------------------------------------------------
(* The frames, the words and the budget.                                   *)

(* The identifier of "no operator" is an operator identifier.               *)
LEMMA NoOpType == NoOp \in OpIds
<1>1. 0 \in Ranks
  BY NAssumption DEF Ranks
<1>2. 0 \in Nat /\ FALSE \in BOOLEAN
  OBVIOUS
<1> QED BY <1>1, <1>2 DEF NoOp, OpIds

(* What CmdFrame builds is a frame of the server.                           *)
LEMMA CmdFrameType ==
    ASSUME NEW cmd \in Commands, NEW op \in OpIds, NEW k \in 0 .. MaxRounds
    PROVE  CmdFrame(cmd, op, k) \in ServerFrames
BY DEF CmdFrame, ServerFrames

(* What LinkFrame builds is a frame of the server.                          *)
LEMMA LinkFrameType ==
    ASSUME NEW ranks \in SUBSET Ranks, NEW ports \in PortMap
    PROVE  LinkFrame(ranks, ports) \in ServerFrames
BY DEF LinkFrame, ServerFrames

(* What RespFrame builds of an agent's locals is a RetryInfo frame.         *)
LEMMA RespFrameType ==
    ASSUME NEW state \in Reports, NEW local \in Locals
    PROVE  RespFrame(state, local) \in RespFrames
BY DEF RespFrame, RespFrames, Locals

(* What PortFrame builds is a LinkPortStatus frame.                         *)
LEMMA PortFrameType ==
    ASSUME NEW ranks \in SUBSET Ranks, NEW port0 \in BOOLEAN \X BOOLEAN
    PROVE  PortFrame(ranks, port0) \in PortFrames
BY DEF PortFrame, PortFrames

(* A server frame of kind "cmd" has the fields of a command.                *)
LEMMA CmdFields ==
    ASSUME NEW f \in ServerFrames, f.kind = "cmd"
    PROVE  f.cmd \in Commands /\ f.op \in OpIds /\ f.round \in 0 .. MaxRounds
BY DEF ServerFrames

(* A server frame of kind "link" has the fields of a ChangeLinkInfo.        *)
LEMMA LinkFields ==
    ASSUME NEW f \in ServerFrames, f.kind = "link"
    PROVE  f.ranks \in SUBSET Ranks /\ f.ports \in PortMap
BY DEF ServerFrames

(* The kind of an agent's frame tells its type.                             *)
LEMMA AnswerKinds ==
    ASSUME NEW f \in RespFrames \cup PortFrames
    PROVE  /\ f.kind = "resp" => f \in RespFrames
           /\ f.kind = "port" => f \in PortFrames
BY DEF RespFrames, PortFrames

(* Spending a budget keeps its type.                                        *)
LEMMA SpendType ==
    ASSUME used \in [DOMAIN Budget -> Nat], NEW kind, Spend(kind)
    PROVE  used' \in [DOMAIN Budget -> Nat]
<1>1. CASE kind \in DOMAIN Budget
  BY <1>1, SMTT(60) DEF Spend
<1>2. CASE kind \notin DOMAIN Budget
  BY <1>2 DEF Spend
<1> QED BY <1>1, <1>2

-----------------------------------------------------------------------------
(* The device.                                                             *)

(* UpdateOpExecStatus writes a KfcExecStatus.                               *)
LEMMA PublishType ==
    ASSUME TypeOK, NEW r \in Ranks, NEW status \in KfcStatuses,
           NEW err \in KfcErrors, NEW cnt \in Nat, Publish(r, status, err, cnt)
    PROVE  d2h' \in [Ranks -> ExecStatuses]
BY DEF TypeOK, ChannelsTypeOK, Publish, ExecStatuses

(* A kernel that gives up keeps the types.                                  *)
LEMMA FailType ==
    ASSUME TypeOK, NEW r \in Ranks, NEW err \in KfcErrors, Fail(r, err)
    PROVE  d2h' \in [Ranks -> ExecStatuses] /\ DeviceTypeOK'
<1>1. RetryCnt(r) \in Nat
  BY SMTT(60) DEF TypeOK, DeviceTypeOK, Devices, RetryCnt
<1>2. d2h' \in [Ranks -> ExecStatuses]
  BY <1>1, PublishType DEF Fail, KfcStatuses
<1>3. dev' \in [Ranks -> Devices] /\ \A q \in Ranks : dev'[q].pc = dev[q].pc
  BY <1>1 DEF TypeOK, DeviceTypeOK, Devices, FsmStates, Fail
<1> QED BY <1>2, <1>3 DEF TypeOK, DeviceTypeOK, Fail

(* A device keeps its type when its locals do and no operator is skipped.  *)
LEMMA DeviceKept ==
    ASSUME TypeOK, NEW r \in Ranks, NEW d \in Devices, d.pc = dev[r].pc,
           dev' = [dev EXCEPT ![r] = d], devPort' \in [Ranks -> PortMap]
    PROVE  DeviceTypeOK'
BY DEF TypeOK, DeviceTypeOK

(* A step of a device keeps the types: it writes its own locals, its ports, *)
(* its D2H word, and spends a budget.                                      *)
LEMMA DeviceType ==
    ASSUME TypeOK, NEW r \in Ranks, Device(r)
    PROVE  TypeOK'
<1> DEFINE Goal == /\ DeviceTypeOK'
                   /\ d2h' \in [Ranks -> ExecStatuses]
                   /\ used' \in [DOMAIN Budget -> Nat]
                   /\ UNCHANGED <<h2d, h2dLink, s2a, a2s>>
<1> /\ dev \in [Ranks -> Devices] /\ devPort \in [Ranks -> PortMap]
    /\ d2h \in [Ranks -> ExecStatuses] /\ used \in [DOMAIN Budget -> Nat]
    /\ h2d \in [Ranks -> KfcCommands] /\ h2dLink \in [Ranks -> PortMap]
    /\ \A q \in Ranks : dev[q].pc <= Len(Prog[q])
    /\ Prog \in [Ranks -> Seq(OpIds)]
  BY ProgAssumption DEF TypeOK, ChannelsTypeOK, DeviceTypeOK
<1>1. dev[r].cnt \in Nat /\ RetryCnt(r) \in Nat
  BY SMTT(60) DEF Devices, RetryCnt
<1>2. ASSUME InitProcess(r) PROVE Goal
  <2>1. /\ dev[r].pc + 1 \in 1 .. Len(Prog[r])
        /\ Prog[r][dev[r].pc + 1] \in OpIds
    BY <1>2, SMTT(60) DEF InitProcess, Devices
  <2>2. d2h' \in [Ranks -> ExecStatuses]
    BY <1>2, <2>1 DEF InitProcess, ExecStatuses, KfcStatuses, KfcErrors
  <2>3. dev' \in [Ranks -> Devices] /\ \A q \in Ranks : dev'[q].pc <= Len(Prog[q])
    BY <1>2, <2>1, SMTT(60) DEF InitProcess, Devices, FsmStates,
       KfcErrors, KfcCommands
  <2> QED BY <1>2, <2>2, <2>3 DEF InitProcess, DeviceTypeOK
<1> /\ dev[r] \in Devices /\ UNCHANGED devPort => devPort' \in [Ranks -> PortMap]
    /\ "IDLE" \in FsmStates /\ "WAIT_END" \in FsmStates
    /\ "STOPPING" \in FsmStates /\ "STOPPED" \in FsmStates
    /\ "WAIT_RETRY" \in FsmStates /\ "CHANGE_LINK" \in FsmStates
    /\ "RETRY" \in FsmStates /\ "kNone" \in KfcErrors
    /\ "kRetry" \in KfcCommands /\ "kChangeLink" \in KfcCommands
    /\ h2d[r] \in KfcCommands
  BY DEF FsmStates, KfcErrors, KfcCommands
<1>3. ASSUME LaunchProcess(r) PROVE Goal
  <2>1. /\ [dev[r] EXCEPT !.fsm = "WAIT_END"] \in Devices
        /\ [dev[r] EXCEPT !.fsm = "WAIT_END"].pc = dev[r].pc
    BY DEF Devices
  <2>2. DeviceTypeOK'
    BY <1>3, <2>1, DeviceKept DEF LaunchProcess
  <2> QED BY <1>3, <2>2 DEF LaunchProcess, channels
<1>4. ASSUME TaskException(r) PROVE Goal
  <2>1. /\ [dev[r] EXCEPT !.exc = TRUE] \in Devices
        /\ [dev[r] EXCEPT !.exc = TRUE].pc = dev[r].pc
    BY DEF Devices
  <2>2. DeviceTypeOK'
    BY <1>4, <2>1, DeviceKept DEF TaskException
  <2> QED BY <1>4, <2>2, SpendType DEF TaskException
<1>5. ASSUME WaitEndProcess(r) PROVE Goal
  <2>1. d2h' \in [Ranks -> ExecStatuses]
    BY <1>1, <1>5, PublishType DEF WaitEndProcess, KfcStatuses, KfcErrors
  <2>2. /\ [dev[r] EXCEPT !.fsm = "IDLE"] \in Devices
        /\ [dev[r] EXCEPT !.fsm = "IDLE"].pc = dev[r].pc
    BY DEF Devices
  <2>3. DeviceTypeOK'
    BY <1>5, <2>2, DeviceKept DEF WaitEndProcess
  <2> QED BY <1>5, <2>1, <2>3 DEF WaitEndProcess
<1>6. ASSUME Suspend(r) PROVE Goal
  <2> DEFINE err == IF dev[r].exc THEN "kSdma" ELSE dev[r].err
  <2>1. err \in KfcErrors
    BY DEF Devices, KfcErrors
  <2>2. d2h' \in [Ranks -> ExecStatuses]
    BY <1>1, <1>6, <2>1, PublishType DEF Suspend, KfcStatuses
  <2>3. /\ [dev[r] EXCEPT !.fsm = "STOPPING", !.err = err, !.cnt = RetryCnt(r)] \in Devices
        /\ [dev[r] EXCEPT !.fsm = "STOPPING", !.err = err, !.cnt = RetryCnt(r)].pc = dev[r].pc
    BY <1>1, <2>1 DEF Devices
  <2>4. DeviceTypeOK'
    BY <1>6, <2>3, DeviceKept DEF Suspend
  <2> QED BY <1>6, <2>2, <2>4 DEF Suspend
<1>7. ASSUME AbortOnExit(r) PROVE Goal
  BY <1>7, FailType DEF AbortOnExit, KfcErrors
<1>8. ASSUME ExecTimeout(r) PROVE Goal
  BY <1>8, FailType, SpendType DEF ExecTimeout, KfcErrors
<1>9. ASSUME StoppingProcess(r) PROVE Goal
  <2>1. CASE \E err \in KfcErrors : Fail(r, err)
    BY <1>9, <2>1, FailType DEF StoppingProcess
  <2>2. CASE /\ dev' = [dev EXCEPT ![r] = [@ EXCEPT !.fsm = "STOPPED"]]
             /\ UNCHANGED <<d2h, devPort>>
    <3>1. /\ [dev[r] EXCEPT !.fsm = "STOPPED"] \in Devices
          /\ [dev[r] EXCEPT !.fsm = "STOPPED"].pc = dev[r].pc
      BY DEF Devices
    <3>2. DeviceTypeOK'
      BY <2>2, <3>1, DeviceKept
    <3> QED BY <1>9, <2>2, <3>2 DEF StoppingProcess
  <2> QED BY <1>9, <2>1, <2>2 DEF StoppingProcess, KfcErrors
<1>10. ASSUME StoppedProcess(r) PROVE Goal
  <2>1. CASE \E err \in KfcErrors : Fail(r, err)
    BY <1>10, <2>1, FailType DEF StoppedProcess
  <2>2. CASE /\ dev' = [dev EXCEPT ![r] = [@ EXCEPT !.fsm = "WAIT_RETRY",
                                                   !.err = "kNone"]]
             /\ Publish(r, "kStopExec", "kNone", dev[r].cnt)
             /\ UNCHANGED devPort
    <3>1. d2h' \in [Ranks -> ExecStatuses]
      BY <1>1, <2>2, PublishType DEF KfcStatuses, KfcErrors
    <3>2. /\ [dev[r] EXCEPT !.fsm = "WAIT_RETRY", !.err = "kNone"] \in Devices
          /\ [dev[r] EXCEPT !.fsm = "WAIT_RETRY", !.err = "kNone"].pc = dev[r].pc
      BY DEF Devices
    <3>3. DeviceTypeOK'
      BY <2>2, <3>2, DeviceKept
    <3> QED BY <1>10, <3>1, <3>3 DEF StoppedProcess
  <2> QED BY <1>10, <2>1, <2>2 DEF StoppedProcess, KfcErrors
<1>11. ASSUME WaitRetryProcess(r) PROVE Goal
  <2>1. CASE Fail(r, "kExit")
    BY <1>11, <2>1, FailType DEF WaitRetryProcess, KfcErrors
  <2>2. CASE ~Fail(r, "kExit")
    <3> DEFINE d1 == [dev[r] EXCEPT !.fsm = "RETRY", !.exc = FALSE,
                                    !.lastCmd = "kRetry"]
               d2 == [dev[r] EXCEPT !.fsm = "CHANGE_LINK",
                                    !.lastCmd = "kChangeLink"]
               d3 == [dev[r] EXCEPT !.lastCmd = h2d[r]]
    <3>1. PICK d \in {d1, d2, d3} : dev' = [dev EXCEPT ![r] = d]
      BY <1>11, <2>2 DEF WaitRetryProcess
    <3>2. d1 \in Devices /\ d1.pc = dev[r].pc
      BY DEF Devices
    <3>3. d2 \in Devices /\ d2.pc = dev[r].pc
      BY DEF Devices
    <3>4. d3 \in Devices /\ d3.pc = dev[r].pc
      BY DEF Devices
    <3>5. d \in Devices /\ d.pc = dev[r].pc
      BY <3>2, <3>3, <3>4
    <3>6. UNCHANGED <<d2h, devPort>>
      BY <1>11, <2>2 DEF WaitRetryProcess
    <3>7. DeviceTypeOK'
      BY <3>1, <3>5, <3>6, DeviceKept
    <3> QED BY <1>11, <3>6, <3>7 DEF WaitRetryProcess
  <2> QED BY <2>1, <2>2
<1>12. ASSUME ChangeLinkProcess(r) PROVE Goal
  <2>1. d2h' \in [Ranks -> ExecStatuses]
    BY <1>1, <1>12, PublishType DEF ChangeLinkProcess, KfcStatuses, KfcErrors
  <2>2. devPort' \in [Ranks -> PortMap]
    BY <1>12 DEF ChangeLinkProcess
  <2>3. /\ [dev[r] EXCEPT !.fsm = "WAIT_RETRY", !.err = "kNone"] \in Devices
        /\ [dev[r] EXCEPT !.fsm = "WAIT_RETRY", !.err = "kNone"].pc = dev[r].pc
    BY DEF Devices
  <2>4. DeviceTypeOK'
    BY <1>12, <2>2, <2>3, DeviceKept DEF ChangeLinkProcess
  <2> QED BY <1>12, <2>1, <2>4 DEF ChangeLinkProcess
<1>13. ASSUME RetryProcess(r) PROVE Goal
  <2>1. d2h' \in [Ranks -> ExecStatuses]
    BY <1>1, <1>13, PublishType DEF RetryProcess, KfcStatuses, KfcErrors
  <2>2. /\ [dev[r] EXCEPT !.fsm = "WAIT_END", !.err = "kNone", !.cnt = RetryCnt(r)] \in Devices
        /\ [dev[r] EXCEPT !.fsm = "WAIT_END", !.err = "kNone", !.cnt = RetryCnt(r)].pc = dev[r].pc
    BY <1>1 DEF Devices
  <2>3. DeviceTypeOK'
    BY <1>13, <2>2, DeviceKept DEF RetryProcess
  <2> QED BY <1>13, <2>1, <2>3 DEF RetryProcess
<1>14. ASSUME DeviceCallFails(r) PROVE Goal
  BY <1>14, FailType, SpendType DEF DeviceCallFails, KfcErrors
<1>15. ASSUME WaitHostTimeout(r) PROVE Goal
  BY <1>15, FailType, SpendType DEF WaitHostTimeout, KfcErrors
<1>16. Goal
  BY <1>2, <1>3, <1>4, <1>5, <1>6, <1>7, <1>8, <1>9, <1>10, <1>11, <1>12,
     <1>13, <1>14, <1>15 DEF Device, DeviceStep
<1>17. UNCHANGED <<agentVars, serverVars>>
  BY DEF Device
<1>18. AgentTypeOK' /\ ServerTypeOK'
  BY <1>17 DEF TypeOK, AgentTypeOK, ServerTypeOK, agentVars, serverVars, ErrorRanks
<1> QED BY <1>16, <1>18 DEF TypeOK, ChannelsTypeOK

-----------------------------------------------------------------------------
(* The agent.                                                              *)

(* A response leads to a state of the agent.                                *)
LEMMA RespNextType ==
    ASSUME NEW s \in DOMAIN RespNext
    PROVE  s \in Reports /\ RespNext[s] \in AgentStates
BY SMTT(60) DEF RespNext, Reports, AgentStates, AwaitedCmd

(* A poll leads to a state of the agent and to a level.                     *)
LEMMA PollNextType ==
    ASSUME NEW s \in PollStates
    PROVE  PollNext[s] \in AgentStates /\ 2 * PollPhase[s] \in Levels
BY DEF PollStates, PollNext, PollPhase, AgentStates, RespNext, Levels, Told

(* The states the actions name.                                            *)
LEMMA NamedStates ==
    {"AGENT_RUNNING", "RESP_AICPU_ERR", "AGENT_RETRY_FAIL", "QUIT",
     "POLL_AICPU_STOPED", "POLL_STREAM_STOPED", "POLL_AICPU_CHANGED",
     "POLL_AICPU_RETRYEND", "RESP_STREAM_CLEARED", "RESP_STOP_TRANSPORT",
     "RESP_NOTIFY_RESETED", "RESP_CHECK_INFO", "RESP_LINK_CHECKED",
     "WAIT_CHANGE_LINK_INFO", "WAIT_CMD_RESUME_TRANSPORT",
     "WAIT_CHANGE_LINK_PUT", "RESP_RUNNING_ERR"} \subseteq AgentStates
BY DEF AgentStates, RespNext, AwaitedCmd, PollStates

(* A change of an agent's state keeps its type.                             *)
LEMMA GotoType ==
    ASSUME TypeOK, NEW r \in Ranks, NEW state \in AgentStates, Goto(r, state)
    PROVE  ag' \in [Ranks -> AgentStates]
BY DEF TypeOK, AgentTypeOK, Goto

(* SetOpExecCmd writes a KfcCommand.                                        *)
LEMMA SetOpExecCmdType ==
    ASSUME TypeOK, NEW r \in Ranks, NEW cmd \in KfcCommands, SetOpExecCmd(r, cmd)
    PROVE  h2d' \in [Ranks -> KfcCommands]
BY DEF TypeOK, ChannelsTypeOK, SetOpExecCmd

(* A frame sent by an agent keeps the type of the stream.                   *)
LEMMA IssueResponseType ==
    ASSUME TypeOK, NEW r \in Ranks, NEW frame \in RespFrames \cup PortFrames,
           IssueResponse(r, frame)
    PROVE  a2s' \in [Ranks -> Seq(RespFrames \cup PortFrames)]
BY SMTT(60) DEF TypeOK, ChannelsTypeOK, IssueResponse

(* A frame received by an agent keeps the type of the stream.               *)
LEMMA ConsumeType ==
    ASSUME TypeOK, NEW r \in Ranks, s2a[r] # <<>>, Consume(r)
    PROVE  s2a' \in [Ranks -> Seq(ServerFrames)]
BY SMTT(60) DEF TypeOK, ChannelsTypeOK, Consume

(* A command that is waiting has its fields.                                *)
LEMMA CmdWaitingType ==
    ASSUME TypeOK, NEW r \in Ranks, CmdWaiting(r)
    PROVE  /\ s2a[r] # <<>>
           /\ Head(s2a[r]).cmd \in Commands
           /\ Head(s2a[r]).op \in OpIds
           /\ Head(s2a[r]).round \in 0 .. MaxRounds
<1>1. s2a[r] # <<>> /\ Head(s2a[r]) \in ServerFrames
  BY SMTT(60) DEF TypeOK, ChannelsTypeOK, CmdWaiting
<1> QED BY <1>1, CmdFields DEF CmdWaiting

(* GetOpExecInfo fills the agent's locals.                                  *)
LEMMA FromWordType ==
    ASSUME TypeOK, NEW r \in Ranks
    PROVE  FromWord(r) \in Locals
BY DEF TypeOK, ChannelsTypeOK, AgentTypeOK, FromWord, ExecStatuses, Locals

(* The two partial updates of an agent's locals keep their type.            *)
LEMMA LocalsUpdate ==
    ASSUME NEW l \in Locals, NEW c \in BOOLEAN
    PROVE  /\ [l EXCEPT !.err = "kRdma", !.status = "kStoplaunch"] \in Locals
           /\ [l EXCEPT !.report = c] \in Locals
<1> "kRdma" \in KfcErrors /\ "kStoplaunch" \in KfcStatuses
  BY DEF KfcErrors, KfcStatuses
<1> QED BY DEF Locals

(* The history of levels keeps its type.                                    *)
LEMMA ReachType ==
    ASSUME TypeOK, NEW r \in Ranks, NEW k, NEW l \in Levels, Reach(r, k, l)
    PROVE  level' \in [Rounds -> [Ranks -> Levels]]
BY DEF TypeOK, AgentTypeOK, Reach

(* The levels the actions name.                                             *)
LEMMA NamedLevels ==
    {1, 3, 6, 8, 10, 12, 13, 16, 17, Told} \subseteq Levels
BY DEF Levels, Told

(* The levels ExecuteOnHost reaches.                                        *)
LEMMA PhaseLevels ==
    \A cmd \in {"CLEAR_STREAM", "STOP_TRANSPORT", "RESET_NOTIFY"} :
        2 * Phase[cmd] \in Levels
BY DEF Phase, Levels, Told

(* The ranks an operator names are ranks.                                   *)
LEMMA PeersType ==
    ASSUME NEW op \in OpIds, NEW r \in Ranks
    PROVE  /\ Peers(op, r) \in SUBSET Ranks
           /\ Participants(op) \in SUBSET Ranks
           /\ Remote(op, r) \in Ranks
BY DEF Peers, Participants, Remote, OpIds

(* A step of an agent keeps the types.                                     *)
LEMMA AgentType ==
    ASSUME TypeOK, NEW r \in Ranks, Agent(r)
    PROVE  TypeOK'
<1> DEFINE Goal == AgentTypeOK' /\ ChannelsTypeOK'
<1> ChannelsTypeOK /\ AgentTypeOK
  BY DEF TypeOK
<1> USE DEF channels
<1> /\ h2d \in [Ranks -> KfcCommands] /\ h2dLink \in [Ranks -> PortMap]
    /\ s2a \in [Ranks -> Seq(ServerFrames)]
    /\ a2s \in [Ranks -> Seq(RespFrames \cup PortFrames)]
    /\ used \in [DOMAIN Budget -> Nat]
    /\ loc \in [Ranks -> Locals] /\ faultOp \in [Ranks -> OpIds]
    /\ link \in [Ranks -> PortMap] /\ hostPort \in [Ranks -> PortMap]
    /\ portStatus \in [Ranks -> BOOLEAN \X BOOLEAN]
    /\ useDefault \in [Ranks -> BOOLEAN]
    /\ cqe \in [Ranks -> [Ranks -> {"none", "status12", "other"}]]
    /\ agRound \in [Ranks -> 0 .. MaxRounds]
  BY DEF TypeOK, ChannelsTypeOK, AgentTypeOK
<1>1. ASSUME RdmaError(r) PROVE Goal
  <2>1. used' \in [DOMAIN Budget -> Nat]
    BY <1>1, SpendType DEF RdmaError
  <2>2. cqe' \in [Ranks -> [Ranks -> {"none", "status12", "other"}]]
    BY <1>1, FaultAssumption, SMTT(60) DEF RdmaError
  <2> QED BY <1>1, <2>1, <2>2 DEF RdmaError, AgentTypeOK, ChannelsTypeOK
<1>2. ASSUME ParseKfcErr(r) PROVE Goal
  <2>1. ag' \in [Ranks -> AgentStates]
    BY <1>2, GotoType, NamedStates DEF ParseKfcErr
  <2>2. loc' \in [Ranks -> Locals]
    BY <1>2, FromWordType DEF ParseKfcErr
  <2> QED BY <1>2, <2>1, <2>2 DEF ParseKfcErr, AgentTypeOK, ChannelsTypeOK
<1>3. ASSUME ParseRdmaErr(r) PROVE Goal
  <2>1. ag' \in [Ranks -> AgentStates]
    BY <1>3, GotoType, NamedStates DEF ParseRdmaErr
  <2>2. loc' \in [Ranks -> Locals]
    <3>1. /\ FromWord(r) \in Locals
          /\ [FromWord(r) EXCEPT !.err = "kRdma", !.status = "kStoplaunch"]
                \in Locals
      BY FromWordType, LocalsUpdate
    <3> QED BY <1>3, <3>1 DEF ParseRdmaErr
  <2> QED BY <1>3, <2>1, <2>2 DEF ParseRdmaErr, AgentTypeOK, ChannelsTypeOK
<1>4. ASSUME StopAicpu(r) PROVE Goal
  <2>1. /\ s2a[r] # <<>> /\ Head(s2a[r]).round \in 0 .. MaxRounds
        /\ Head(s2a[r]).op \in OpIds
    BY <1>4, CmdWaitingType DEF StopAicpu
  <2>2. s2a' \in [Ranks -> Seq(ServerFrames)]
    BY <1>4, <2>1, ConsumeType DEF StopAicpu
  <2>3. ag' \in [Ranks -> AgentStates]
    BY <1>4, GotoType, NamedStates DEF StopAicpu
  <2>4. level' \in [Rounds -> [Ranks -> Levels]]
    BY <1>4, ReachType, NamedLevels DEF StopAicpu
  <2>5. h2d' \in [Ranks -> KfcCommands]
    BY <1>4, SetOpExecCmdType DEF StopAicpu, KfcCommands
  <2>6. /\ faultOp' \in [Ranks -> OpIds]
        /\ agRound' \in [Ranks -> 0 .. MaxRounds]
    BY <1>4, <2>1 DEF StopAicpu
  <2> QED BY <1>4, <2>1, <2>2, <2>3, <2>4, <2>5, <2>6 DEF StopAicpu,
             AgentTypeOK, ChannelsTypeOK
<1>5. ASSUME RunningOtherCmd(r) PROVE Goal
  <2>1. /\ s2a[r] # <<>> /\ Head(s2a[r]).round \in 0 .. MaxRounds
        /\ Head(s2a[r]).op \in OpIds
    BY <1>5, CmdWaitingType DEF RunningOtherCmd
  <2>2. s2a' \in [Ranks -> Seq(ServerFrames)]
    BY <1>5, <2>1, ConsumeType DEF RunningOtherCmd
  <2>3. loc' \in [Ranks -> Locals]
    BY <1>5, FromWordType DEF RunningOtherCmd
  <2>4. a2s' \in [Ranks -> Seq(RespFrames \cup PortFrames)]
    BY <1>5, IssueResponseType, RespFrameType, FromWordType
    DEF RunningOtherCmd, Reports
  <2> QED BY <1>5, <2>1, <2>2, <2>3, <2>4 DEF RunningOtherCmd, AgentTypeOK,
             ChannelsTypeOK
<1>6. ASSUME Respond(r) PROVE Goal
  <2>1. ag' \in [Ranks -> AgentStates]
    BY <1>6, GotoType, RespNextType DEF Respond
  <2>2. a2s' \in [Ranks -> Seq(RespFrames \cup PortFrames)]
    BY <1>6, IssueResponseType, RespFrameType, RespNextType DEF Respond
  <2> QED BY <1>6, <2>1, <2>2 DEF Respond, AgentTypeOK, ChannelsTypeOK
<1>7. ASSUME StopStream(r) PROVE Goal
  <2>1. /\ s2a[r] # <<>> /\ Head(s2a[r]).round \in 0 .. MaxRounds
        /\ Head(s2a[r]).op \in OpIds
    BY <1>7, CmdWaitingType DEF StopStream, Awaits
  <2>2. s2a' \in [Ranks -> Seq(ServerFrames)]
    BY <1>7, <2>1, ConsumeType DEF StopStream
  <2>3. ag' \in [Ranks -> AgentStates]
    BY <1>7, GotoType, NamedStates DEF StopStream
  <2>4. level' \in [Rounds -> [Ranks -> Levels]]
    BY <1>7, ReachType, NamedLevels DEF StopStream
  <2>5. h2d' \in [Ranks -> KfcCommands]
    BY <1>7, SetOpExecCmdType DEF StopStream, KfcCommands
  <2> QED BY <1>7, <2>1, <2>2, <2>3, <2>4, <2>5 DEF StopStream, AgentTypeOK,
             ChannelsTypeOK
<1>8. ASSUME ClearStream(r) PROVE Goal
  <2>1. /\ s2a[r] # <<>> /\ Head(s2a[r]).round \in 0 .. MaxRounds
        /\ Head(s2a[r]).op \in OpIds
    BY <1>8, CmdWaitingType DEF ClearStream, ExecuteOnHost, Awaits
  <2>2. s2a' \in [Ranks -> Seq(ServerFrames)]
    BY <1>8, <2>1, ConsumeType DEF ClearStream, ExecuteOnHost
  <2>3. ag' \in [Ranks -> AgentStates]
    BY <1>8, GotoType, NamedStates DEF ClearStream, ExecuteOnHost
  <2>4. level' \in [Rounds -> [Ranks -> Levels]]
    BY <1>8, ReachType, PhaseLevels DEF ClearStream, ExecuteOnHost
  <2> QED BY <1>8, <2>1, <2>2, <2>3, <2>4 DEF ClearStream, ExecuteOnHost,
             AgentTypeOK, ChannelsTypeOK
<1>9. ASSUME StopTransport(r) PROVE Goal
  <2>1. /\ s2a[r] # <<>> /\ Head(s2a[r]).round \in 0 .. MaxRounds
        /\ Head(s2a[r]).op \in OpIds
    BY <1>9, CmdWaitingType DEF StopTransport, ExecuteOnHost, Awaits
  <2>2. s2a' \in [Ranks -> Seq(ServerFrames)]
    BY <1>9, <2>1, ConsumeType DEF StopTransport, ExecuteOnHost
  <2>3. ag' \in [Ranks -> AgentStates]
    BY <1>9, GotoType, NamedStates DEF StopTransport, ExecuteOnHost
  <2>4. level' \in [Rounds -> [Ranks -> Levels]]
    BY <1>9, ReachType, PhaseLevels DEF StopTransport, ExecuteOnHost
  <2> QED BY <1>9, <2>1, <2>2, <2>3, <2>4 DEF StopTransport, ExecuteOnHost,
             AgentTypeOK, ChannelsTypeOK
<1>10. ASSUME ResetNotify(r) PROVE Goal
  <2>1. /\ s2a[r] # <<>> /\ Head(s2a[r]).round \in 0 .. MaxRounds
        /\ Head(s2a[r]).op \in OpIds
    BY <1>10, CmdWaitingType DEF ResetNotify, ExecuteOnHost, Awaits
  <2>2. s2a' \in [Ranks -> Seq(ServerFrames)]
    BY <1>10, <2>1, ConsumeType DEF ResetNotify, ExecuteOnHost
  <2>3. ag' \in [Ranks -> AgentStates]
    BY <1>10, GotoType, NamedStates DEF ResetNotify, ExecuteOnHost
  <2>4. level' \in [Rounds -> [Ranks -> Levels]]
    BY <1>10, ReachType, PhaseLevels DEF ResetNotify, ExecuteOnHost
  <2> QED BY <1>10, <2>1, <2>2, <2>3, <2>4 DEF ResetNotify, ExecuteOnHost,
             AgentTypeOK, ChannelsTypeOK
<1>11. ASSUME CheckOpname(r) PROVE Goal
  <2>1. /\ s2a[r] # <<>> /\ Head(s2a[r]).round \in 0 .. MaxRounds
        /\ Head(s2a[r]).op \in OpIds
    BY <1>11, CmdWaitingType DEF CheckOpname, Awaits
  <2>2. s2a' \in [Ranks -> Seq(ServerFrames)]
    BY <1>11, <2>1, ConsumeType DEF CheckOpname
  <2>3. ag' \in [Ranks -> AgentStates]
    BY <1>11, GotoType, NamedStates DEF CheckOpname
  <2>4. level' \in [Rounds -> [Ranks -> Levels]]
    BY <1>11, ReachType, NamedLevels DEF CheckOpname
  <2>5. loc' \in [Ranks -> Locals]
    BY <1>11, FromWordType DEF CheckOpname
  <2> QED BY <1>11, <2>1, <2>2, <2>3, <2>4, <2>5 DEF CheckOpname, AgentTypeOK,
             ChannelsTypeOK
<1>12. ASSUME CheckLink(r) PROVE Goal
  <2>1. /\ s2a[r] # <<>> /\ Head(s2a[r]).round \in 0 .. MaxRounds
        /\ Head(s2a[r]).op \in OpIds
    BY <1>12, CmdWaitingType DEF CheckLink, Awaits
  <2>2. s2a' \in [Ranks -> Seq(ServerFrames)]
    BY <1>12, <2>1, ConsumeType DEF CheckLink
  <2>3. ag' \in [Ranks -> AgentStates]
    BY <1>12, GotoType, NamedStates DEF CheckLink
  <2>4. level' \in [Rounds -> [Ranks -> Levels]]
    BY <1>12, ReachType, NamedLevels DEF CheckLink
  <2>5. /\ portStatus' \in [Ranks -> BOOLEAN \X BOOLEAN]
        /\ useDefault' \in [Ranks -> BOOLEAN]
    BY <1>12, PortAssumption, SMTT(60) DEF CheckLink
  <2> QED BY <1>12, <2>1, <2>2, <2>3, <2>4, <2>5 DEF CheckLink, AgentTypeOK,
             ChannelsTypeOK
<1>13. ASSUME ResponseLinkInfo(r) PROVE Goal
  <2>1. ag' \in [Ranks -> AgentStates]
    BY <1>13, GotoType, NamedStates DEF ResponseLinkInfo
  <2>2. Peers(loc[r].op, r) \in SUBSET Ranks /\ portStatus[r] \in BOOLEAN \X BOOLEAN
    BY PeersType DEF Locals
  <2>3. a2s' \in [Ranks -> Seq(RespFrames \cup PortFrames)]
    BY <1>13, <2>2, IssueResponseType, PortFrameType DEF ResponseLinkInfo
  <2> QED BY <1>13, <2>1, <2>2, <2>3 DEF ResponseLinkInfo, AgentTypeOK,
             ChannelsTypeOK
<1>14. ASSUME WaitChangeLinkInfo(r) PROVE Goal
  <2>1. s2a[r] # <<>> /\ Head(s2a[r]) \in ServerFrames
    <3>1. s2a[r] \in Seq(ServerFrames) /\ s2a[r] # <<>>
      BY <1>14 DEF WaitChangeLinkInfo
    <3> QED BY <3>1, SMTT(60)
  <2>2. s2a' \in [Ranks -> Seq(ServerFrames)]
    BY <1>14, <2>1, ConsumeType DEF WaitChangeLinkInfo
  <2>3. ag' \in [Ranks -> AgentStates]
    BY <1>14, GotoType, NamedStates DEF WaitChangeLinkInfo
  <2>4. Head(s2a[r]).ports \in PortMap
    BY <1>14, <2>1, LinkFields DEF WaitChangeLinkInfo
  <2>5. link' \in [Ranks -> PortMap]
    BY <1>14, <2>4 DEF WaitChangeLinkInfo, PortMap
  <2> QED BY <1>14, <2>1, <2>2, <2>3, <2>4, <2>5 DEF WaitChangeLinkInfo,
             AgentTypeOK, ChannelsTypeOK
<1>15. ASSUME MisreadCommand(r) PROVE Goal
  <2>1. /\ s2a[r] # <<>> /\ Head(s2a[r]).round \in 0 .. MaxRounds
        /\ Head(s2a[r]).op \in OpIds
    BY <1>15, CmdWaitingType DEF MisreadCommand
  <2>2. s2a' \in [Ranks -> Seq(ServerFrames)]
    BY <1>15, <2>1, ConsumeType DEF MisreadCommand
  <2>3. ag' \in [Ranks -> AgentStates]
    BY <1>15, GotoType, NamedStates DEF MisreadCommand
  <2> QED BY <1>15, <2>1, <2>2, <2>3 DEF MisreadCommand, AgentTypeOK,
             ChannelsTypeOK
<1>16. ASSUME ResumeTransport(r) PROVE Goal
  <2>1. /\ s2a[r] # <<>> /\ Head(s2a[r]).round \in 0 .. MaxRounds
        /\ Head(s2a[r]).op \in OpIds
    BY <1>16, CmdWaitingType DEF ResumeTransport, Awaits
  <2>2. s2a' \in [Ranks -> Seq(ServerFrames)]
    BY <1>16, <2>1, ConsumeType DEF ResumeTransport
  <2>3. ag' \in [Ranks -> AgentStates]
    BY <1>16, GotoType, NamedStates DEF ResumeTransport
  <2>4. level' \in [Rounds -> [Ranks -> Levels]]
    BY <1>16, ReachType, NamedLevels DEF ResumeTransport
  <2>5. h2d' \in [Ranks -> KfcCommands]
    BY <1>16, SetOpExecCmdType DEF ResumeTransport, KfcCommands
  <2>6. hostPort' \in [Ranks -> PortMap]
    BY <1>16 DEF ResumeTransport
  <2> QED BY <1>16, <2>1, <2>2, <2>3, <2>4, <2>5, <2>6 DEF ResumeTransport,
             AgentTypeOK, ChannelsTypeOK
<1>17. ASSUME PutChangeLinkInfo(r) PROVE Goal
  <2>1. ag' \in [Ranks -> AgentStates]
    BY <1>17, GotoType, NamedStates DEF PutChangeLinkInfo
  <2>2. h2dLink' \in [Ranks -> PortMap]
    BY <1>17 DEF PutChangeLinkInfo
  <2> QED BY <1>17, <2>1, <2>2 DEF PutChangeLinkInfo, AgentTypeOK,
             ChannelsTypeOK
<1>18. ASSUME CanRetry(r) PROVE Goal
  <2>1. /\ s2a[r] # <<>> /\ Head(s2a[r]).round \in 0 .. MaxRounds
        /\ Head(s2a[r]).op \in OpIds
    BY <1>18, CmdWaitingType DEF CanRetry, Awaits
  <2>2. s2a' \in [Ranks -> Seq(ServerFrames)]
    BY <1>18, <2>1, ConsumeType DEF CanRetry
  <2>3. ag' \in [Ranks -> AgentStates]
    BY <1>18, GotoType, NamedStates DEF CanRetry
  <2>4. level' \in [Rounds -> [Ranks -> Levels]]
    BY <1>18, ReachType, NamedLevels DEF CanRetry
  <2>5. h2d' \in [Ranks -> KfcCommands]
    BY <1>18, SetOpExecCmdType DEF CanRetry, KfcCommands
  <2>6. cqe' \in [Ranks -> [Ranks -> {"none", "status12", "other"}]]
    BY <1>18 DEF CanRetry, ClearCqeErr
  <2> QED BY <1>18, <2>1, <2>2, <2>3, <2>4, <2>5, <2>6 DEF CanRetry,
             AgentTypeOK, ChannelsTypeOK
<1>19. ASSUME FailCommand(r) PROVE Goal
  <2>1. /\ s2a[r] # <<>> /\ Head(s2a[r]).round \in 0 .. MaxRounds
        /\ Head(s2a[r]).op \in OpIds
    BY <1>19, CmdWaitingType DEF FailCommand
  <2>2. s2a' \in [Ranks -> Seq(ServerFrames)]
    BY <1>19, <2>1, ConsumeType DEF FailCommand
  <2>3. ag' \in [Ranks -> AgentStates]
    BY <1>19, GotoType, NamedStates DEF FailCommand
  <2>4. level' \in [Rounds -> [Ranks -> Levels]]
    BY <1>19, ReachType, NamedLevels DEF FailCommand
  <2>5. loc' \in [Ranks -> Locals]
    <3> DEFINE c == loc[r].report \/ Head(s2a[r]).cmd = "RETRY_CONSTRAINT_FAIL"
    <3>1. loc[r] \in Locals /\ c \in BOOLEAN
      BY DEF Locals
    <3>2. [loc[r] EXCEPT !.report = c] \in Locals
      BY <3>1, LocalsUpdate
    <3>3. loc' = [loc EXCEPT ![r] = [loc[r] EXCEPT !.report = c]]
      BY <1>19 DEF FailCommand
    <3> QED BY <3>2, <3>3
  <2> QED BY <1>19, <2>1, <2>2, <2>3, <2>4, <2>5 DEF FailCommand, AgentTypeOK,
             ChannelsTypeOK
<1>20. ASSUME IgnoreCommand(r) PROVE Goal
  <2>1. /\ s2a[r] # <<>> /\ Head(s2a[r]).round \in 0 .. MaxRounds
        /\ Head(s2a[r]).op \in OpIds
    BY <1>20, CmdWaitingType DEF IgnoreCommand
  <2>2. s2a' \in [Ranks -> Seq(ServerFrames)]
    BY <1>20, <2>1, ConsumeType DEF IgnoreCommand
  <2> QED BY <1>20, <2>1, <2>2 DEF IgnoreCommand, AgentTypeOK, ChannelsTypeOK
<1>21. ASSUME CommandFails(r) PROVE Goal
  <2>1. /\ s2a[r] # <<>> /\ Head(s2a[r]).round \in 0 .. MaxRounds
        /\ Head(s2a[r]).op \in OpIds
    BY <1>21, CmdWaitingType DEF CommandFails
  <2>2. s2a' \in [Ranks -> Seq(ServerFrames)]
    BY <1>21, <2>1, ConsumeType DEF CommandFails
  <2>3. used' \in [DOMAIN Budget -> Nat]
    BY <1>21, SpendType DEF CommandFails
  <2>4. hostPort' \in [Ranks -> PortMap]
    BY <1>21 DEF CommandFails
  <2> QED BY <1>21, <2>1, <2>2, <2>3, <2>4 DEF CommandFails, AgentTypeOK,
             ChannelsTypeOK
<1>22. ASSUME WaitCmdTimeout(r) PROVE Goal
  <2>1. ag' \in [Ranks -> AgentStates]
    BY <1>22, GotoType, NamedStates DEF WaitCmdTimeout
  <2>2. used' \in [DOMAIN Budget -> Nat]
    BY <1>22, SpendType DEF WaitCmdTimeout
  <2> QED BY <1>22, <2>1, <2>2 DEF WaitCmdTimeout, AgentTypeOK, ChannelsTypeOK
<1>23. ASSUME PollAicpuStop(r) PROVE Goal
  <2>1. ag[r] \in PollStates
    BY <1>23 DEF PollAicpuStop, PollReady, PollStates
  <2>2. ag' \in [Ranks -> AgentStates]
    BY <1>23, <2>1, GotoType, PollNextType DEF PollAicpuStop
  <2>3. level' \in [Rounds -> [Ranks -> Levels]]
    BY <1>23, <2>1, ReachType, PollNextType DEF PollAicpuStop
  <2>4. loc' \in [Ranks -> Locals]
    BY <1>23, FromWordType DEF PollAicpuStop
  <2> QED BY <1>23, <2>1, <2>2, <2>3, <2>4 DEF PollAicpuStop, AgentTypeOK,
             ChannelsTypeOK
<1>24. ASSUME PollAicpuConstraint(r) PROVE Goal
  <2>1. ag' \in [Ranks -> AgentStates]
    BY <1>24, GotoType, NamedStates DEF PollAicpuConstraint
  <2>2. loc' \in [Ranks -> Locals]
    BY <1>24, FromWordType DEF PollAicpuConstraint, Locals
  <2> QED BY <1>24, <2>1, <2>2 DEF PollAicpuConstraint, AgentTypeOK,
             ChannelsTypeOK
<1>25. ASSUME PollAicpuTimeout(r) PROVE Goal
  <2>1. ag' \in [Ranks -> AgentStates]
    BY <1>25, GotoType, NamedStates DEF PollAicpuTimeout
  <2>2. loc' \in [Ranks -> Locals]
    BY <1>25, FromWordType DEF PollAicpuTimeout
  <2> QED BY <1>25, <2>1, <2>2 DEF PollAicpuTimeout, AgentTypeOK,
             ChannelsTypeOK
<1>26. ASSUME AgentRetryFail(r) PROVE Goal
  <2>1. ag' \in [Ranks -> AgentStates]
    BY <1>26, GotoType, NamedStates DEF AgentRetryFail
  <2>2. h2d' \in [Ranks -> KfcCommands]
    BY <1>26, SetOpExecCmdType DEF AgentRetryFail, KfcCommands
  <2>3. cqe' \in [Ranks -> [Ranks -> {"none", "status12", "other"}]]
    BY <1>26 DEF AgentRetryFail
  <2> QED BY <1>26, <2>1, <2>2, <2>3 DEF AgentRetryFail, AgentTypeOK,
             ChannelsTypeOK
<1>27. Goal
  BY <1>1, <1>2, <1>3, <1>4, <1>5, <1>6, <1>7, <1>8, <1>9, <1>10, <1>11,
     <1>12, <1>13, <1>14, <1>15, <1>16, <1>17, <1>18, <1>19, <1>20, <1>21,
     <1>22, <1>23, <1>24, <1>25, <1>26 DEF Agent, AgentStep
<1>28. DeviceTypeOK' /\ ServerTypeOK'
  BY DEF Agent, TypeOK, DeviceTypeOK, ServerTypeOK, deviceVars, serverVars, ErrorRanks
<1> QED BY <1>27, <1>28 DEF TypeOK

-----------------------------------------------------------------------------
(* The server.                                                             *)

(* A frame the server finds of a kind has the type of that kind.            *)
LEMMA ReceivedType ==
    ASSUME TypeOK, NEW r \in Ranks, NEW kind, Received(r, kind)
    PROVE  /\ a2s[r] \in Seq(RespFrames \cup PortFrames) /\ a2s[r] # <<>>
           /\ kind = "resp" => Head(a2s[r]) \in RespFrames
           /\ kind = "port" => Head(a2s[r]) \in PortFrames
<1>1. a2s[r] \in Seq(RespFrames \cup PortFrames) /\ a2s[r] # <<>>
  BY DEF TypeOK, ChannelsTypeOK, Received
<1>2. Head(a2s[r]) \in RespFrames \cup PortFrames
  BY <1>1
<1> QED BY <1>1, <1>2, AnswerKinds DEF Received

(* A frame received by the server keeps the type of the stream.             *)
LEMMA DropType ==
    ASSUME TypeOK, NEW r \in Ranks, a2s[r] # <<>>, Drop(r)
    PROVE  a2s' \in [Ranks -> Seq(RespFrames \cup PortFrames)]
BY SMTT(60) DEF TypeOK, ChannelsTypeOK, Drop

(* The keep-alive command keeps the type of the stream.                     *)
LEMMA KeepAliveType ==
    ASSUME TypeOK, NEW r \in Ranks, KeepAlive(r)
    PROVE  s2a' \in [Ranks -> Seq(ServerFrames)]
<1>1. CmdFrame("RUNNING", NoOp, 0) \in ServerFrames
  BY CmdFrameType, NoOpType, BoundAssumption DEF Commands
<1> QED BY <1>1, SMTT(60) DEF TypeOK, ChannelsTypeOK, KeepAlive

(* PortUp answers with two truth values.                                    *)
LEMMA PortUpType ==
    ASSUME TypeOK, NEW p \in Ranks, NEW q \in Ranks
    PROVE  PortUp(p, q).default \in BOOLEAN /\ PortUp(p, q).backup \in BOOLEAN
BY DEF PortUp

(* What a broadcasting state sends is a frame of the server.                *)
LEMMA OutgoingType ==
    ASSUME TypeOK, NEW p \in Ranks,
           sv \in DOMAIN IssueStates \cup {"CMD_RESUME_TRANSPORT",
                                          "SERVER_RETRY_FAIL"}
    PROVE  Outgoing(p) \in ServerFrames
<1>1. curFaultOpId \in OpIds /\ round \in 0 .. MaxRounds /\ svReport \in BOOLEAN
      /\ port \in [Ranks -> PortFrames]
  BY DEF TypeOK, ServerTypeOK
<1>2. CASE sv \in DOMAIN IssueStates
  <2>1. IssueStates[sv][1] \in Commands
    BY <1>2, IssuedCommands
  <2>2. CmdFrame(IssueStates[sv][1], curFaultOpId, round) \in ServerFrames
    BY <1>1, <2>1, CmdFrameType
  <2> QED BY <1>2, <2>2 DEF Outgoing, IssueStates
<1>3. CASE sv = "CMD_RESUME_TRANSPORT"
  <2>1. [q \in Ranks |-> PortUp(p, q).default] \in PortMap
    BY PortUpType DEF PortMap
  <2>2. port[p].ranks \in SUBSET Ranks
    BY <1>1 DEF PortFrames
  <2>3. LinkFrame(port[p].ranks, [q \in Ranks |-> PortUp(p, q).default])
          \in ServerFrames
    BY <2>1, <2>2, LinkFrameType
  <2>4. sv \notin DOMAIN IssueStates
    BY <1>3 DEF IssueStates
  <2> QED BY <1>3, <2>3, <2>4 DEF Outgoing
<1>4. CASE sv = "SERVER_RETRY_FAIL"
  <2>1. (IF svReport THEN "RETRY_CONSTRAINT_FAIL" ELSE "RETRY_FAIL") \in Commands
    BY DEF Commands
  <2>2. CmdFrame(IF svReport THEN "RETRY_CONSTRAINT_FAIL" ELSE "RETRY_FAIL",
                 NoOp, round) \in ServerFrames
    BY <1>1, <2>1, CmdFrameType, NoOpType
  <2>3. sv \notin DOMAIN IssueStates /\ sv # "CMD_RESUME_TRANSPORT"
    BY <1>4 DEF IssueStates
  <2> QED BY <1>4, <2>2, <2>3 DEF Outgoing
<1> QED BY <1>2, <1>3, <1>4

(* A broadcast, complete or not, keeps the type of the streams.             *)
LEMMA SendToType ==
    ASSUME TypeOK, NEW ranks,
           sv \in DOMAIN IssueStates \cup {"CMD_RESUME_TRANSPORT",
                                          "SERVER_RETRY_FAIL"},
           SendTo(ranks)
    PROVE  s2a' \in [Ranks -> Seq(ServerFrames)]
<1>1. ASSUME NEW p \in Ranks
      PROVE  /\ s2a[p] \in Seq(ServerFrames)
             /\ Append(s2a[p], Outgoing(p)) \in Seq(ServerFrames)
  <2>1. s2a[p] \in Seq(ServerFrames)
    BY DEF TypeOK, ChannelsTypeOK
  <2> QED BY <2>1, OutgoingType
<1> QED BY <1>1 DEF SendTo

(* Inserting and erasing keep the type of errorRankList_.                   *)
LEMMA ErrorListType ==
    ASSUME TypeOK
    PROVE  /\ \A r \in Ranks, op \in OpIds :
                 Insert(r, op) \in [ErrorRanks \cup {r} -> OpIds]
           /\ \A ranks : Erase(ranks) \in [ErrorRanks \ ranks -> OpIds]
BY DEF TypeOK, ServerTypeOK, Insert, Erase, ErrorRanks

(* Receiving a report in SERVER_RUNNING or HANDLE_ALL_ERR keeps the types.  *)
LEMMA TakeReportType ==
    ASSUME TypeOK, NEW r \in Ranks, TakeReport(r)
    PROVE  /\ info' \in [Ranks -> RespFrames]
           /\ a2s' \in [Ranks -> Seq(RespFrames \cup PortFrames)]
           /\ s2a' \in [Ranks -> Seq(ServerFrames)]
           /\ (ErrorRanks \subseteq Ranks)'
           /\ (errorRankList \in [ErrorRanks -> OpIds])'
<1>1. a2s[r] # <<>> /\ Head(a2s[r]) \in RespFrames
  BY ReceivedType DEF TakeReport
<1>2. Head(a2s[r]).op \in OpIds
  BY <1>1 DEF RespFrames
<1>3. info' \in [Ranks -> RespFrames]
  BY <1>1 DEF TypeOK, ServerTypeOK, TakeReport
<1>4. a2s' \in [Ranks -> Seq(RespFrames \cup PortFrames)]
  BY <1>1, DropType DEF TakeReport
<1>5. s2a' \in [Ranks -> Seq(ServerFrames)]
  BY KeepAliveType DEF TakeReport, TypeOK, ChannelsTypeOK
<1>6. \/ errorRankList' = errorRankList
      \/ errorRankList' \in [ErrorRanks \cup {r} -> OpIds]
  BY <1>2, ErrorListType DEF TakeReport
<1>7. (ErrorRanks \subseteq Ranks)' /\ (errorRankList \in [ErrorRanks -> OpIds])'
  BY <1>6 DEF TypeOK, ServerTypeOK, ErrorRanks
<1> QED BY <1>3, <1>4, <1>5, <1>7

(* SetNeedRetryServerRank and the opening of a round keep the types.        *)
LEMMA OpenRoundType ==
    ASSUME TypeOK, NEW op \in OpIds, NEW S, OpenRound(op), errorRankList' = Erase(S)
    PROVE  ServerTypeOK' /\ UNCHANGED channels
<1>1. need' \in Seq(Ranks)
  <2>1. CASE op.isSendRecv
    <3>1. op.srcRank \in Ranks /\ op.detRank \in Ranks
      BY DEF OpIds
    <3> QED BY <2>1, <3>1 DEF OpenRound
  <2>2. CASE ~op.isSendRecv
    <3>1. need' = [k \in 1 .. N |-> k - 1] /\ \A k \in 1 .. N : k - 1 \in Ranks
      BY <2>2, NAssumption DEF OpenRound, Ranks
    <3>2. N \in Nat
      BY NAssumption
    <3> QED BY <3>1, <3>2
  <2> QED BY <2>1, <2>2
<1>2. round' \in 0 .. MaxRounds
  <2>1. round \in 0 .. MaxRounds
    BY DEF TypeOK, ServerTypeOK
  <2> QED BY <2>1, BoundAssumption DEF OpenRound
<1>3. hist' \in [Rounds -> [ranks : SUBSET Ranks, failed : BOOLEAN]]
  <2>1. [ranks |-> Participants(op), failed |-> FALSE]
          \in [ranks : SUBSET Ranks, failed : BOOLEAN]
    <3>1. Participants(op) \in SUBSET Ranks
      BY DEF Participants, OpIds
    <3> QED BY <3>1
  <2> QED BY <2>1 DEF TypeOK, ServerTypeOK, OpenRound
<1>4. (ErrorRanks \subseteq Ranks)' /\ (errorRankList \in [ErrorRanks -> OpIds])'
  <2>1. errorRankList' \in [ErrorRanks \ S -> OpIds]
    BY ErrorListType
  <2> QED BY <2>1 DEF TypeOK, ServerTypeOK, ErrorRanks
<1>5. sv' \in ServerStates
  BY NamedServerStates DEF OpenRound
<1> QED BY <1>1, <1>2, <1>3, <1>4, <1>5 DEF TypeOK, ServerTypeOK, OpenRound

(* A step of the server keeps the types.                                   *)
LEMMA ServerType ==
    ASSUME TypeOK, Server
    PROVE  TypeOK'
<1> DEFINE Goal == ServerTypeOK' /\ ChannelsTypeOK'
<1> /\ s2a \in [Ranks -> Seq(ServerFrames)]
    /\ a2s \in [Ranks -> Seq(RespFrames \cup PortFrames)]
    /\ used \in [DOMAIN Budget -> Nat]
    /\ sv \in ServerStates /\ svReport \in BOOLEAN
    /\ info \in [Ranks -> RespFrames] /\ port \in [Ranks -> PortFrames]
    /\ errorRankList \in [ErrorRanks -> OpIds] /\ ErrorRanks \subseteq Ranks
    /\ recvVaild \subseteq Ranks
    /\ hist \in [Rounds -> [ranks : SUBSET Ranks, failed : BOOLEAN]]
  BY DEF TypeOK, ChannelsTypeOK, ServerTypeOK
<1> ChannelsTypeOK /\ ServerTypeOK
  BY DEF TypeOK
<1>1. ASSUME NEW r \in Ranks, ServerRunning(r) PROVE Goal
  <2>1. sv' \in ServerStates
    BY <1>1, NamedServerStates DEF ServerRunning
  <2> QED BY <1>1, <2>1, TakeReportType DEF ServerRunning, ServerTypeOK,
             ChannelsTypeOK
<1>2. ASSUME ServerRunningPending PROVE Goal
  BY <1>2, NamedServerStates DEF ServerRunningPending, ServerTypeOK,
     ChannelsTypeOK, channels, ErrorRanks
<1>3. ASSUME HandleErrorPoll PROVE Goal
  <2>1. PICK r \in Ranks :
          /\ \/ TakeReport(r)
             \/ KeepAlive(r) /\ UNCHANGED <<a2s, info, errorRankList>>
          /\ recvVaild' = recvVaild \cup {r}
          /\ UNCHANGED <<h2d, h2dLink, d2h, used, sv, need, curFaultOpId, port,
                         svReport, round, hist>>
    BY <1>3 DEF HandleErrorPoll
  <2>2. CASE TakeReport(r)
    BY <2>1, <2>2, TakeReportType DEF ServerTypeOK, ChannelsTypeOK
  <2>3. CASE KeepAlive(r) /\ UNCHANGED <<a2s, info, errorRankList>>
    <3>1. s2a' \in [Ranks -> Seq(ServerFrames)]
      BY <2>3, KeepAliveType
    <3> QED BY <2>1, <2>3, <3>1 DEF ServerTypeOK, ChannelsTypeOK, ErrorRanks
  <2> QED BY <2>1, <2>2, <2>3
<1>4. ASSUME HandleErrorSendRecv \/ HandleErrorCollective PROVE Goal
  <2>1. PICK op \in OpIds, S \in SUBSET Ranks :
          OpenRound(op) /\ errorRankList' = Erase(S)
    <3>1. ASSUME NEW r \in SendRecvErrors
          PROVE  errorRankList[r] \in OpIds /\ r \in Ranks
                 /\ Remote(errorRankList[r], r) \in Ranks
      <4>1. errorRankList[r] \in OpIds /\ r \in Ranks
        BY DEF SendRecvErrors
      <4> QED BY <4>1, PeersType
    <3>2. CASE HandleErrorSendRecv
      BY <3>1, <3>2 DEF HandleErrorSendRecv
    <3>3. CASE HandleErrorCollective
      BY <3>3 DEF HandleErrorCollective
    <3> QED BY <1>4, <3>2, <3>3
  <2>2. ServerTypeOK' /\ UNCHANGED channels
    BY <2>1, OpenRoundType
  <2> QED BY <2>2 DEF ChannelsTypeOK, channels
<1>5. ASSUME HandleErrorAgain PROVE Goal
  BY <1>5 DEF HandleErrorAgain, ServerTypeOK, ChannelsTypeOK, channels,
     ErrorRanks
<1>6. ASSUME IssueCmd PROVE Goal
  <2>1. s2a' \in [Ranks -> Seq(ServerFrames)] /\ sv' \in ServerStates
    BY <1>6, SendToType, NamedServerStates DEF IssueCmd
  <2> QED BY <1>6, <2>1 DEF IssueCmd, ServerTypeOK, ChannelsTypeOK, ErrorRanks
<1>7. ASSUME NEW r \in Ranks, WaitResp(r) PROVE Goal
  <2>1. a2s[r] # <<>> /\ Head(a2s[r]) \in RespFrames
    BY <1>7, ReceivedType DEF WaitResp
  <2>2. a2s' \in [Ranks -> Seq(RespFrames \cup PortFrames)]
    BY <1>7, <2>1, DropType DEF WaitResp
  <2>3. info' \in [Ranks -> RespFrames]
    BY <1>7, <2>1 DEF WaitResp
  <2> QED BY <1>7, <2>2, <2>3 DEF WaitResp, ServerTypeOK, ChannelsTypeOK,
             ErrorRanks
<1>8. ASSUME NEW r \in Ranks, WaitRespFail(r) PROVE Goal
  <2> DEFINE resp == Head(a2s[r])
             ended == \/ resp.status = "kEnd"
                      \/ \E q \in recvVaild : info[q].status = "kEnd"
  <2>1. a2s[r] # <<>> /\ resp \in RespFrames
    BY <1>8, ReceivedType DEF WaitRespFail
  <2>2. a2s' \in [Ranks -> Seq(RespFrames \cup PortFrames)]
    BY <1>8, <2>1, DropType DEF WaitRespFail
  <2>3. [resp EXCEPT !.report = @ \/ ended] \in RespFrames
    BY <2>1 DEF RespFrames
  <2>4. info' = [info EXCEPT ![r] = [resp EXCEPT !.report = @ \/ ended]]
    BY <1>8 DEF WaitRespFail
  <2>5. info' \in [Ranks -> RespFrames]
    BY <2>3, <2>4
  <2>6. sv' \in ServerStates /\ svReport' \in BOOLEAN
    BY <1>8, NamedServerStates DEF WaitRespFail
  <2> QED BY <1>8, <2>2, <2>5, <2>6 DEF WaitRespFail, ServerTypeOK,
             ChannelsTypeOK, ErrorRanks
<1>9. ASSUME WaitRespDone PROVE Goal
  <2>1. sv' \in ServerStates
    BY <1>9, NamedServerStates DEF WaitRespDone
  <2> QED BY <1>9, <2>1
          DEF WaitRespDone, ServerTypeOK, ChannelsTypeOK, channels, ErrorRanks
<1>10. ASSUME CheckOp PROVE Goal
  <2>1. sv' \in ServerStates /\ svReport' \in BOOLEAN
    BY <1>10, NamedServerStates DEF CheckOp
  <2> QED BY <1>10, <2>1 DEF CheckOp, ServerTypeOK, ChannelsTypeOK, channels,
             ErrorRanks
<1>11. ASSUME NEW r \in Ranks, WaitLinkInfo(r) PROVE Goal
  <2>1. a2s[r] # <<>> /\ Head(a2s[r]) \in PortFrames
    BY <1>11, ReceivedType DEF WaitLinkInfo
  <2>2. a2s' \in [Ranks -> Seq(RespFrames \cup PortFrames)]
    BY <1>11, <2>1, DropType DEF WaitLinkInfo
  <2>3. port' \in [Ranks -> PortFrames]
    BY <1>11, <2>1 DEF WaitLinkInfo
  <2> QED BY <1>11, <2>2, <2>3 DEF WaitLinkInfo, ServerTypeOK, ChannelsTypeOK,
             ErrorRanks
<1>12. ASSUME WaitLinkInfoDone PROVE Goal
  BY <1>12, NamedServerStates DEF WaitLinkInfoDone, ServerTypeOK,
     ChannelsTypeOK, channels, ErrorRanks
<1>13. ASSUME CheckAllLink PROVE Goal
  <2>1. sv' \in ServerStates
    BY <1>13, NamedServerStates DEF CheckAllLink
  <2> QED BY <1>13, <2>1 DEF CheckAllLink, ServerTypeOK, ChannelsTypeOK,
             channels, ErrorRanks
<1>14. ASSUME IssueChangeLink PROVE Goal
  <2>1. s2a' \in [Ranks -> Seq(ServerFrames)] /\ sv' \in ServerStates
    BY <1>14, SendToType, NamedServerStates DEF IssueChangeLink
  <2> QED BY <1>14, <2>1 DEF IssueChangeLink, ServerTypeOK, ChannelsTypeOK,
             ErrorRanks
<1>15. ASSUME ServerRetryFail PROVE Goal
  <2>1. s2a' \in [Ranks -> Seq(ServerFrames)] /\ sv' \in ServerStates
    BY <1>15, SendToType, NamedServerStates DEF ServerRetryFail
  <2>2. hist' \in [Rounds -> [ranks : SUBSET Ranks, failed : BOOLEAN]]
    BY <1>15 DEF ServerRetryFail
  <2> QED BY <1>15, <2>1, <2>2 DEF ServerRetryFail, ServerTypeOK,
             ChannelsTypeOK, ErrorRanks
<1>16. ASSUME SendFails PROVE Goal
  <2>1. s2a' \in [Ranks -> Seq(ServerFrames)] /\ sv' \in ServerStates
    BY <1>16, SendToType, NamedServerStates DEF SendFails
  <2>2. used' \in [DOMAIN Budget -> Nat]
    BY <1>16, SpendType DEF SendFails
  <2> QED BY <1>16, <2>1, <2>2 DEF SendFails, ServerTypeOK, ChannelsTypeOK,
             ErrorRanks
<1>17. ASSUME ServerTimeout PROVE Goal
  <2>1. used' \in [DOMAIN Budget -> Nat] /\ sv' \in ServerStates
    BY <1>17, SpendType, NamedServerStates DEF ServerTimeout
  <2> QED BY <1>17, <2>1 DEF ServerTimeout, ServerTypeOK, ChannelsTypeOK,
             ErrorRanks
<1>18. Goal
  BY <1>1, <1>2, <1>3, <1>4, <1>5, <1>6, <1>7, <1>8, <1>9, <1>10, <1>11,
     <1>12, <1>13, <1>14, <1>15, <1>16, <1>17 DEF Server, ServerStep
<1>19. DeviceTypeOK' /\ AgentTypeOK'
  BY DEF Server, TypeOK, DeviceTypeOK, AgentTypeOK, deviceVars, agentVars
<1> QED BY <1>18, <1>19 DEF TypeOK

-----------------------------------------------------------------------------
(* The system.                                                             *)

(* The variables have their types when the threads and kernels start.      *)
LEMMA InitType == Init => TypeOK
<1> SUFFICES ASSUME Init PROVE TypeOK
  OBVIOUS
<1> USE NoOpType
<1>1. ChannelsTypeOK
  <2>1. "kNone" \in KfcCommands /\ "kNone" \in KfcErrors /\ "kNull" \in KfcStatuses
    BY DEF KfcCommands, KfcErrors, KfcStatuses
  <2>2. [status |-> "kNull", err |-> "kNone", cnt |-> 0, op |-> NoOp] \in ExecStatuses
    BY <2>1 DEF ExecStatuses
  <2> QED BY <2>1, <2>2 DEF Init, ChannelsInit, ChannelsTypeOK, PortMap
<1>2. DeviceTypeOK
  <2>1. [fsm |-> "IDLE", pc |-> 0, err |-> "kNone", cnt |-> 0,
         lastCmd |-> "kNone", exc |-> FALSE] \in Devices
    <3>1. /\ "IDLE" \in FsmStates /\ "kNone" \in KfcErrors
          /\ "kNone" \in KfcCommands /\ 0 \in Nat /\ FALSE \in BOOLEAN
      BY DEF FsmStates, KfcErrors, KfcCommands
    <3> QED BY <3>1 DEF Devices
  <2>2. \A r \in Ranks : Len(Prog[r]) \in Nat
    BY ProgAssumption
  <2> QED BY <2>1, <2>2 DEF Init, DeviceInit, DeviceTypeOK, PortMap
<1>3. AgentTypeOK
  <2>1. [status |-> "kNull", err |-> "kNone", cnt |-> 0, op |-> NoOp,
         report |-> FALSE] \in Locals
    <3>1. /\ "kNull" \in KfcStatuses /\ "kNone" \in KfcErrors
          /\ 0 \in Nat /\ FALSE \in BOOLEAN
      BY DEF KfcStatuses, KfcErrors
    <3> QED BY <3>1 DEF Locals
  <2>2. "AGENT_RUNNING" \in AgentStates /\ 0 \in Levels /\ 0 \in 0 .. MaxRounds
    BY NamedStates, BoundAssumption DEF Levels, Told
  <2> QED BY <2>1, <2>2 DEF Init, AgentInit, AgentTypeOK, PortMap
<1>4. ServerTypeOK
  <2>1. NoInfo \in RespFrames
    <3>1. /\ "resp" \in {"resp"} /\ "AGENT_RUNNING" \in Reports
          /\ "kNull" \in KfcStatuses /\ "kNone" \in KfcErrors
          /\ 0 \in Nat /\ FALSE \in BOOLEAN
      BY DEF Reports, KfcStatuses, KfcErrors
    <3> QED BY <3>1 DEF NoInfo, RespFrames
  <2>2. NoPort \in PortFrames
    BY DEF NoPort, PortFrames
  <2>3. [ranks |-> {}, failed |-> FALSE] \in [ranks : SUBSET Ranks, failed : BOOLEAN]
    OBVIOUS
  <2>4. sv \in ServerStates
    BY NamedServerStates DEF Init, ServerInit
  <2>5. ErrorRanks \subseteq Ranks /\ errorRankList \in [ErrorRanks -> OpIds]
    BY DEF Init, ServerInit, ErrorRanks
  <2>6. need \in Seq(Ranks) /\ curFaultOpId \in OpIds /\ recvVaild \subseteq Ranks
    BY DEF Init, ServerInit
  <2>7. round \in 0 .. MaxRounds
    BY BoundAssumption DEF Init, ServerInit
  <2>8. hist \in [Rounds -> [ranks : SUBSET Ranks, failed : BOOLEAN]]
    BY <2>3 DEF Init, ServerInit
  <2>9. info \in [Ranks -> RespFrames] /\ port \in [Ranks -> PortFrames]
    BY <2>1, <2>2 DEF Init, ServerInit
  <2>10. svReport \in BOOLEAN
    BY DEF Init, ServerInit
  <2> QED BY <2>4, <2>5, <2>6, <2>7, <2>8, <2>9, <2>10 DEF ServerTypeOK
<1> QED BY <1>1, <1>2, <1>3, <1>4 DEF TypeOK

(* Every step of every thread and kernel keeps the types.                  *)
LEMMA NextType == TypeOK /\ [Next]_vars => TypeOK'
<1> SUFFICES ASSUME TypeOK, [Next]_vars PROVE TypeOK'
  OBVIOUS
<1>1. CASE Server
  BY <1>1, ServerType
<1>2. ASSUME NEW r \in Ranks, Device(r) PROVE TypeOK'
  BY <1>2, DeviceType
<1>3. ASSUME NEW r \in Ranks, Agent(r) PROVE TypeOK'
  BY <1>3, AgentType
<1>4. CASE UNCHANGED vars
  BY <1>4 DEF vars, channels, deviceVars, agentVars, serverVars, TypeOK,
     ChannelsTypeOK, DeviceTypeOK, AgentTypeOK, ServerTypeOK, ErrorRanks
<1> QED BY <1>1, <1>2, <1>3, <1>4 DEF Next

(* Every frame, word, state and list of the retry keeps its type, however  *)
(* the server, the agents and the devices interleave and whatever fails.   *)
THEOREM TypeCorrect == Spec => []TypeOK
BY InitType, NextType, PTL DEF Spec

=============================================================================
