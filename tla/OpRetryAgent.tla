---------------------------- MODULE OpRetryAgent ----------------------------
(***************************************************************************)
(* The retry agent of a rank (opretry_agent.cc): one thread that runs the *)
(* handler of its current state over and over.  It watches its device for  *)
(* an error, reports it to the server, and then executes the server's      *)
(* commands one by one, answering each.                                    *)
(*                                                                         *)
(* States keep the names of RetryState.  WAIT_CHANGE_LINK_PUT is the point *)
(* inside RESUME_TRANSPORT between the two writes of SetOpChangeLinkInfo.  *)
(* QUIT is a handler that returned an error: OpRetryBase::Handle installs  *)
(* RESP_RUNNING_ERR, but the thread's loop ends before running it.         *)
(***************************************************************************)
EXTENDS OpRetryChannels

VARIABLES
    ag,           \* ag[r]: retryState of the agent's context
    loc,          \* loc[r]: localRetryInfo_
    faultOp,      \* faultOp[r]: curFaultOpId
    link,         \* link[r]: localChangeLinkInfo_, TRUE is the default port
    hostPort,     \* hostPort[r]: lastLinkPortStatus_, the ports in use
    portStatus,   \* portStatus[r]: linkPortStatus_, <<default, backup>>
    useDefault,   \* useDefault[r]: isUseDefaultPort_
    cqe,          \* cqe[r][q]: completion error held for the link of r to q
    agRound,      \* history: the round agent r takes part in
    level         \* history: level[k][r], how far r got in round k

agentVars == <<ag, loc, faultOp, link, hostPort, portStatus, useDefault,
               cqe, agRound, level>>

(* RETRY_AGENT_RESP_STATE_LABEL: where a response leads.                   *)
RespNext ==
    [RESP_AICPU_ERR        |-> "WAIT_CMD_STOP_AICPU",
     RESP_AICPU_STOPED     |-> "WAIT_CMD_STOP_STREAM",
     RESP_STREAM_STOPED    |-> "WAIT_CMD_CLEAR_STREAM",
     RESP_STREAM_CLEARED   |-> "WAIT_CMD_STOP_TRANSPORT",
     RESP_STOP_TRANSPORT   |-> "WAIT_CMD_CHECK",
     RESP_CHECK_INFO       |-> "WAIT_CMD_CHECK_LINK",
     RESP_RESUME_TRANSPORT |-> "WAIT_CMD_RESET_NOTIFY",
     RESP_NOTIFY_RESETED   |-> "WAIT_CMD_CAN_RETRY",
     RESP_AICPU_RETRYEND   |-> "AGENT_RUNNING",
     RESP_RUNNING_ERR      |-> "WAIT_CMD_RETRY_FAIL"]

(* The command each WAIT_CMD state executes; WAIT_CMD_RETRY_FAIL has none, *)
(* the two failure commands are accepted in every WAIT_CMD state.          *)
AwaitedCmd ==
    [WAIT_CMD_STOP_AICPU       |-> "STOP_AICPU",
     WAIT_CMD_STOP_STREAM      |-> "STOP_STREAM",
     WAIT_CMD_CLEAR_STREAM     |-> "CLEAR_STREAM",
     WAIT_CMD_STOP_TRANSPORT   |-> "STOP_TRANSPORT",
     WAIT_CMD_CHECK            |-> "CHECK_OPNAME",
     WAIT_CMD_CHECK_LINK       |-> "CHECK_LINK",
     WAIT_CMD_RESUME_TRANSPORT |-> "RESUME_TRANSPORT",
     WAIT_CMD_RESET_NOTIFY     |-> "RESET_NOTIFY",
     WAIT_CMD_CAN_RETRY        |-> "CAN_RETRY",
     WAIT_CMD_RETRY_FAIL       |-> "RETRY_FAIL"]

FailCmds == {"RETRY_FAIL", "RETRY_CONSTRAINT_FAIL"}

PollStates == {"POLL_AICPU_STOPED", "POLL_STREAM_STOPED",
               "POLL_AICPU_CHANGED", "POLL_AICPU_RETRYEND"}

AgentStates == DOMAIN RespNext \cup DOMAIN AwaitedCmd \cup PollStates \cup
    {"AGENT_RUNNING", "RESP_LINK_CHECKED", "WAIT_CHANGE_LINK_INFO",
     "WAIT_CHANGE_LINK_PUT", "AGENT_RETRY_FAIL", "QUIT"}

Locals == [status : KfcStatuses, err : KfcErrors, cnt : Nat,
           op : OpIds, report : BOOLEAN]

AgentInit ==
    /\ ag = [r \in Ranks |-> "AGENT_RUNNING"]
    /\ loc = [r \in Ranks |-> [status |-> "kNull", err |-> "kNone", cnt |-> 0,
                               op |-> NoOp, report |-> FALSE]]
    /\ faultOp = [r \in Ranks |-> NoOp]
    /\ link = [r \in Ranks |-> [q \in Ranks |-> TRUE]]
    /\ hostPort = [r \in Ranks |-> [q \in Ranks |-> TRUE]]
    /\ portStatus = [r \in Ranks |-> <<FALSE, FALSE>>]
    /\ useDefault = [r \in Ranks |-> TRUE]
    /\ cqe = [r \in Ranks |-> [q \in Ranks |-> "none"]]
    /\ agRound = [r \in Ranks |-> 0]
    /\ level = [k \in Rounds |-> [r \in Ranks |-> 0]]

-----------------------------------------------------------------------------
(* History: a round has nine phases, each opened by a command.  Level      *)
(* 2j - 1 is "executed the command of phase j", level 2j is "saw phase j   *)
(* complete", Told is "was made to give the operator up".                  *)

Phase ==
    [STOP_AICPU |-> 1, STOP_STREAM |-> 2, CLEAR_STREAM |-> 3,
     STOP_TRANSPORT |-> 4, CHECK_OPNAME |-> 5, CHECK_LINK |-> 6,
     RESUME_TRANSPORT |-> 7, RESET_NOTIFY |-> 8, CAN_RETRY |-> 9]

Told == 20

Levels == 0 .. Told

Reach(r, k, l) ==
    level' = IF k \in Rounds THEN [level EXCEPT ![k][r] = l] ELSE level

-----------------------------------------------------------------------------
(* GetOpExecInfo: the D2H word is copied into localRetryInfo_.             *)
FromWord(r) == [status |-> d2h[r].status, err |-> d2h[r].err,
                cnt |-> d2h[r].cnt, op |-> d2h[r].op,
                report |-> loc[r].report]

Goto(r, state) == ag' = [ag EXCEPT ![r] = state]

SetOpExecCmd(r, cmd) == h2d' = [h2d EXCEPT ![r] = cmd]

IssueResponse(r, frame) == a2s' = [a2s EXCEPT ![r] = Append(@, frame)]

CmdWaiting(r) == s2a[r] # <<>> /\ Head(s2a[r]).kind = "cmd"

Consume(r) == s2a' = [s2a EXCEPT ![r] = Tail(@)]

(* The heartbeat finds a completion error on the queue pair of r and q:    *)
(* status 12 can be retried, any other status cannot.                      *)
RdmaError(r) ==
    /\ \E q \in Ranks \ {r}, e \in Faults \ {"sdma"} :
          /\ cqe[r][q] = "none"
          /\ cqe' = [cqe EXCEPT ![r][q] = e]
    /\ Spend("fault")
    /\ UNCHANGED <<h2d, h2dLink, d2h, s2a, a2s, ag, loc, faultOp, link,
                   hostPort, portStatus, useDefault, agRound, level>>

CqeErrs(r) == {q \in Ranks : cqe[r][q] # "none"}

(* The errors forgotten: those of the peer, or all of a collective.        *)
ClearCqeErr(r, op) ==
    cqe' = [cqe EXCEPT ![r] = [q \in Ranks |->
              IF op.isSendRecv /\ q # Remote(op, r) THEN cqe[r][q]
                                                    ELSE "none"]]

(* AGENT_RUNNING, ParseKfcErr: only kSdma is reported.                     *)
ParseKfcErr(r) ==
    /\ ag[r] = "AGENT_RUNNING"
    /\ d2h[r].err = "kSdma"
    /\ loc' = [loc EXCEPT ![r] = FromWord(r)]
    /\ Goto(r, "RESP_AICPU_ERR")
    /\ UNCHANGED <<channels, faultOp, link, hostPort, portStatus, useDefault,
                   cqe, agRound, level>>

(* AGENT_RUNNING, ParseRdmaErr: a retryable error is the host's own        *)
(* finding, so it overrides what the D2H word says; an error that has      *)
(* nothing to do with the running operator makes the agent give up.        *)
ParseRdmaErr(r) ==
    LET op == d2h[r].op
        other == {q \in Ranks : cqe[r][q] = "other"}
    IN  /\ ag[r] = "AGENT_RUNNING"
        /\ CqeErrs(r) # {}
        /\ \/ /\ IF op.isSendRecv THEN cqe[r][Remote(op, r)] = "status12"
                                  ELSE other = {}
              /\ loc' = [loc EXCEPT ![r] = [FromWord(r) EXCEPT
                            !.err = "kRdma", !.status = "kStoplaunch"]]
              /\ Goto(r, "RESP_AICPU_ERR")
           \/ /\ IF op.isSendRecv THEN Remote(op, r) \notin CqeErrs(r)
                                  ELSE other # {}
              /\ loc' = [loc EXCEPT ![r] = FromWord(r)]
              /\ Goto(r, "AGENT_RETRY_FAIL")
        /\ UNCHANGED <<channels, faultOp, link, hostPort, portStatus,
                       useDefault, cqe, agRound, level>>

(* STOP_AICPU is executed in AGENT_RUNNING and in WAIT_CMD_STOP_AICPU.     *)
StopAicpu(r) ==
    /\ ag[r] \in {"AGENT_RUNNING", "WAIT_CMD_STOP_AICPU"}
    /\ CmdWaiting(r) /\ Head(s2a[r]).cmd = "STOP_AICPU"
    /\ SetOpExecCmd(r, "kStopLaunch")
    /\ faultOp' = [faultOp EXCEPT ![r] = Head(s2a[r]).op]
    /\ Goto(r, "POLL_AICPU_STOPED")
    /\ agRound' = [agRound EXCEPT ![r] = Head(s2a[r]).round]
    /\ Reach(r, Head(s2a[r]).round, 1)
    /\ Consume(r)
    /\ UNCHANGED <<h2dLink, d2h, a2s, used, loc, link, hostPort, portStatus,
                   useDefault, cqe>>

(* Any other command found in AGENT_RUNNING is dropped; RUNNING is         *)
(* answered once per keep-alive interval.                                  *)
RunningOtherCmd(r) ==
    /\ ag[r] = "AGENT_RUNNING"
    /\ CmdWaiting(r) /\ Head(s2a[r]).cmd # "STOP_AICPU"
    /\ Consume(r)
    /\ \/ UNCHANGED <<a2s, loc>>
       \/ /\ Head(s2a[r]).cmd = "RUNNING"
          /\ loc' = [loc EXCEPT ![r] = FromWord(r)]
          /\ IssueResponse(r, RespFrame("AGENT_RUNNING", FromWord(r)))
    /\ UNCHANGED <<h2d, h2dLink, d2h, used, ag, faultOp, link, hostPort,
                   portStatus, useDefault, cqe, agRound, level>>

(* The RESP states: send, then wait for the next command.                  *)
Respond(r) ==
    /\ ag[r] \in DOMAIN RespNext
    /\ IssueResponse(r, RespFrame(ag[r], loc[r]))
    /\ Goto(r, RespNext[ag[r]])
    /\ UNCHANGED <<h2d, h2dLink, d2h, s2a, used, loc, faultOp, link, hostPort,
                   portStatus, useDefault, cqe, agRound, level>>

-----------------------------------------------------------------------------
(* The WAIT_CMD states, ParseCommandWithOpId.                              *)

Awaits(r, cmd) ==
    /\ ag[r] \in DOMAIN AwaitedCmd /\ AwaitedCmd[ag[r]] = cmd
    /\ CmdWaiting(r) /\ Head(s2a[r]).cmd = cmd

(* STOP_STREAM: the streams are stopped, then the device is told.          *)
StopStream(r) ==
    /\ Awaits(r, "STOP_STREAM")
    /\ SetOpExecCmd(r, "kStopExec")
    /\ Goto(r, "POLL_STREAM_STOPED")
    /\ Reach(r, agRound[r], 3)
    /\ Consume(r)
    /\ UNCHANGED <<h2dLink, d2h, a2s, used, loc, faultOp, link, hostPort,
                   portStatus, useDefault, cqe, agRound>>

(* CLEAR_STREAM, STOP_TRANSPORT and RESET_NOTIFY act on the host's own     *)
(* resources and are answered at once.                                     *)
ExecuteOnHost(r, cmd, resp) ==
    /\ Awaits(r, cmd)
    /\ Goto(r, resp)
    /\ Reach(r, agRound[r], 2 * Phase[cmd])
    /\ Consume(r)
    /\ UNCHANGED <<h2d, h2dLink, d2h, a2s, used, loc, faultOp, link, hostPort,
                   portStatus, useDefault, cqe, agRound>>

ClearStream(r) == ExecuteOnHost(r, "CLEAR_STREAM", "RESP_STREAM_CLEARED")

StopTransport(r) == ExecuteOnHost(r, "STOP_TRANSPORT", "RESP_STOP_TRANSPORT")

ResetNotify(r) == ExecuteOnHost(r, "RESET_NOTIFY", "RESP_NOTIFY_RESETED")

CheckOpname(r) ==
    /\ Awaits(r, "CHECK_OPNAME")
    /\ loc' = [loc EXCEPT ![r] = FromWord(r)]
    /\ Goto(r, "RESP_CHECK_INFO")
    /\ Reach(r, agRound[r], 10)
    /\ Consume(r)
    /\ UNCHANGED <<h2d, h2dLink, d2h, a2s, used, faultOp, link, hostPort,
                   portStatus, useDefault, cqe, agRound>>

(* CHECK_LINK, GetLinkPortStatus: a default port once seen down is never   *)
(* looked at again.                                                        *)
CheckLink(r) ==
    /\ Awaits(r, "CHECK_LINK")
    /\ \E p \in PortStates :
          /\ portStatus' = [portStatus EXCEPT
                               ![r] = <<useDefault[r] /\ p[1], p[2]>>]
          /\ useDefault' = [useDefault EXCEPT ![r] = @ /\ p[1]]
    /\ Goto(r, "RESP_LINK_CHECKED")
    /\ Reach(r, agRound[r], 12)
    /\ Consume(r)
    /\ UNCHANGED <<h2d, h2dLink, d2h, a2s, used, loc, faultOp, link, hostPort,
                   cqe, agRound>>

ResponseLinkInfo(r) ==
    /\ ag[r] = "RESP_LINK_CHECKED"
    /\ IssueResponse(r, PortFrame(Peers(loc[r].op, r), portStatus[r]))
    /\ Goto(r, "WAIT_CHANGE_LINK_INFO")
    /\ UNCHANGED <<h2d, h2dLink, d2h, s2a, used, loc, faultOp, link, hostPort,
                   portStatus, useDefault, cqe, agRound, level>>

(* WAIT_CHANGE_LINK_INFO reads a ChangeLinkInfo frame and merges it.       *)
WaitChangeLinkInfo(r) ==
    /\ ag[r] = "WAIT_CHANGE_LINK_INFO"
    /\ s2a[r] # <<>> /\ Head(s2a[r]).kind = "link"
    /\ link' = [link EXCEPT ![r] = [q \in Ranks |->
                  IF q \in Head(s2a[r]).ranks THEN Head(s2a[r]).ports[q]
                                              ELSE link[r][q]]]
    /\ Goto(r, "WAIT_CMD_RESUME_TRANSPORT")
    /\ Consume(r)
    /\ UNCHANGED <<h2d, h2dLink, d2h, a2s, used, loc, faultOp, hostPort,
                   portStatus, useDefault, cqe, agRound, level>>

(* A shorter command frame is taken for the beginning of a ChangeLinkInfo. *)
(* The rest never comes: Recv blocks until it times out, by then the       *)
(* handler's own time is up, and it returns HCCL_E_TIMEOUT.                *)
MisreadCommand(r) ==
    /\ ag[r] = "WAIT_CHANGE_LINK_INFO"
    /\ CmdWaiting(r)
    /\ Goto(r, "QUIT")
    /\ Consume(r)
    /\ UNCHANGED <<h2d, h2dLink, d2h, a2s, used, loc, faultOp, link, hostPort,
                   portStatus, useDefault, cqe, agRound, level>>

(* RESUME_TRANSPORT: the host's links are resumed on the new ports, then   *)
(* SetOpChangeLinkInfo writes the command and, with a second Put, the      *)
(* ports.                                                                  *)
ResumeTransport(r) ==
    /\ Awaits(r, "RESUME_TRANSPORT")
    /\ hostPort' = [hostPort EXCEPT ![r] = link[r]]
    /\ SetOpExecCmd(r, "kChangeLink")
    /\ Goto(r, "WAIT_CHANGE_LINK_PUT")
    /\ Reach(r, agRound[r], 13)
    /\ Consume(r)
    /\ UNCHANGED <<h2dLink, d2h, a2s, used, loc, faultOp, link, portStatus,
                   useDefault, cqe, agRound>>

PutChangeLinkInfo(r) ==
    /\ ag[r] = "WAIT_CHANGE_LINK_PUT"
    /\ h2dLink' = [h2dLink EXCEPT ![r] = link[r]]
    /\ Goto(r, "POLL_AICPU_CHANGED")
    /\ UNCHANGED <<h2d, d2h, s2a, a2s, used, loc, faultOp, link, hostPort,
                   portStatus, useDefault, cqe, agRound, level>>

(* CAN_RETRY: the completion errors collected so far are forgotten (those  *)
(* of the peer only, for a send or a receive), then kRetry is written.     *)
CanRetry(r) ==
    /\ Awaits(r, "CAN_RETRY")
    /\ ClearCqeErr(r, loc[r].op)
    /\ SetOpExecCmd(r, "kRetry")
    /\ Goto(r, "POLL_AICPU_RETRYEND")
    /\ Reach(r, agRound[r], 17)
    /\ Consume(r)
    /\ UNCHANGED <<h2dLink, d2h, a2s, used, loc, faultOp, link, hostPort,
                   portStatus, useDefault, agRound>>

(* Mutant: only an agent that failed itself obeys.                         *)
FailCommand_OwnOnly(r) ==
    /\ ag[r] = "WAIT_CMD_RETRY_FAIL"
    /\ CmdWaiting(r) /\ Head(s2a[r]).cmd \in FailCmds
    /\ loc' = [loc EXCEPT ![r] = [@ EXCEPT !.report =
            loc[r].report \/ Head(s2a[r]).cmd = "RETRY_CONSTRAINT_FAIL"]]
    /\ Goto(r, "AGENT_RETRY_FAIL")
    /\ Reach(r, Head(s2a[r]).round, Told)
    /\ Consume(r)
    /\ UNCHANGED <<h2d, h2dLink, d2h, a2s, used, faultOp, link, hostPort,
                   portStatus, useDefault, cqe, agRound>>

(* RETRY_FAIL and RETRY_CONSTRAINT_FAIL are obeyed in every WAIT_CMD       *)
(* state.                                                                  *)
FailCommand(r) ==
    /\ ag[r] \in DOMAIN AwaitedCmd
    /\ CmdWaiting(r) /\ Head(s2a[r]).cmd \in FailCmds
    /\ loc' = [loc EXCEPT ![r] = [@ EXCEPT !.report =
            loc[r].report \/ Head(s2a[r]).cmd = "RETRY_CONSTRAINT_FAIL"]]
    /\ Goto(r, "AGENT_RETRY_FAIL")
    /\ Reach(r, Head(s2a[r]).round, Told)
    /\ Consume(r)
    /\ UNCHANGED <<h2d, h2dLink, d2h, a2s, used, faultOp, link, hostPort,
                   portStatus, useDefault, cqe, agRound>>

(* A command the state does not execute is dropped.                        *)
IgnoreCommand(r) ==
    /\ ag[r] \in DOMAIN AwaitedCmd
    /\ CmdWaiting(r)
    /\ Head(s2a[r]).cmd \notin FailCmds \cup {AwaitedCmd[ag[r]]}
    /\ Consume(r)
    /\ UNCHANGED <<h2d, h2dLink, d2h, a2s, used, ag, loc, faultOp, link,
                   hostPort, portStatus, useDefault, cqe, agRound, level>>

(* A call to the runtime fails while the command is executed: the error    *)
(* is only logged and the agent goes on waiting in the same state.         *)
CommandFails(r) ==
    /\ ag[r] \in DOMAIN AwaitedCmd
    /\ AwaitedCmd[ag[r]] \in {"STOP_STREAM", "CLEAR_STREAM", "STOP_TRANSPORT",
                              "CHECK_LINK", "RESUME_TRANSPORT", "RESET_NOTIFY"}
    /\ CmdWaiting(r) /\ Head(s2a[r]).cmd = AwaitedCmd[ag[r]]
    /\ Spend("cmd")
    /\ hostPort' = IF AwaitedCmd[ag[r]] = "RESUME_TRANSPORT"
                   THEN [hostPort EXCEPT ![r] = link[r]] ELSE hostPort
    /\ Consume(r)
    /\ UNCHANGED <<h2d, h2dLink, d2h, a2s, ag, loc, faultOp, link, portStatus,
                   useDefault, cqe, agRound, level>>

(* No frame arrives for 205 s or more: HCCL_E_TIMEOUT.                     *)
WaitCmdTimeout(r) ==
    /\ ag[r] \in DOMAIN AwaitedCmd \cup {"WAIT_CHANGE_LINK_INFO"}
    /\ Spend("wait")
    /\ Goto(r, "QUIT")
    /\ UNCHANGED <<h2d, h2dLink, d2h, s2a, a2s, loc, faultOp, link, hostPort,
                   portStatus, useDefault, cqe, agRound, level>>

-----------------------------------------------------------------------------
(* The POLL states, OpRetryAgentPollAicpuStop.                             *)

PollNext ==
    [POLL_AICPU_STOPED   |-> "RESP_AICPU_STOPED",
     POLL_STREAM_STOPED  |-> "RESP_STREAM_STOPED",
     POLL_AICPU_CHANGED  |-> "RESP_RESUME_TRANSPORT",
     POLL_AICPU_RETRYEND |-> "RESP_AICPU_RETRYEND"]

PollPhase ==
    [POLL_AICPU_STOPED  |-> 1, POLL_STREAM_STOPED  |-> 2,
     POLL_AICPU_CHANGED |-> 7, POLL_AICPU_RETRYEND |-> 9]

(* Mutant: the device is not waited for.                                   *)
PollReady_Always(r) == ag[r] \in PollStates

(* The device's status answers the command the agent wrote.                *)
PollReady(r) ==
    \/ /\ ag[r] = "POLL_AICPU_STOPED"
       /\ d2h[r].status \in {"kStoplaunch", "kStopExec"}
       /\ \/ faultOp[r].isSendRecv /\ faultOp[r].tag = d2h[r].op.tag
          \/ ~d2h[r].op.isSendRecv
    \/ ag[r] = "POLL_STREAM_STOPED" /\ d2h[r].status = "kStopExec"
    \/ ag[r] = "POLL_AICPU_CHANGED" /\ d2h[r].status = "kChanged"
    \/ /\ ag[r] = "POLL_AICPU_RETRYEND"
       /\ d2h[r].status \in {"kStoplaunch", "kRuning", "kEnd"}

PollConstraint(r) ==
    /\ ag[r] \in {"POLL_AICPU_STOPED", "POLL_STREAM_STOPED"}
    /\ d2h[r].status = "kRetryError" /\ d2h[r].err = "kExecConstraint"

PollAicpuStop(r) ==
    /\ PollReady(r)
    /\ loc' = [loc EXCEPT ![r] = FromWord(r)]
    /\ Goto(r, PollNext[ag[r]])
    /\ Reach(r, agRound[r], 2 * PollPhase[ag[r]])
    /\ UNCHANGED <<channels, faultOp, link, hostPort, portStatus, useDefault,
                   cqe, agRound>>

PollAicpuConstraint(r) ==
    /\ PollConstraint(r)
    /\ loc' = [loc EXCEPT ![r] = [FromWord(r) EXCEPT !.report = TRUE]]
    /\ Goto(r, "RESP_RUNNING_ERR")
    /\ UNCHANGED <<channels, faultOp, link, hostPort, portStatus, useDefault,
                   cqe, agRound, level>>

(* Five seconds have passed and the last look found no answer.             *)
PollAicpuTimeout(r) ==
    /\ ag[r] \in PollStates
    /\ ~PollReady(r) /\ ~PollConstraint(r)
    /\ PollTimeouts
    /\ loc' = [loc EXCEPT ![r] = FromWord(r)]
    /\ Goto(r, "RESP_RUNNING_ERR")
    /\ UNCHANGED <<channels, faultOp, link, hostPort, portStatus, useDefault,
                   cqe, agRound, level>>

-----------------------------------------------------------------------------
(* AGENT_RETRY_FAIL: the device is told to give the operator up, and       *)
(* BroadcastCqeErr forgets the completion errors.                          *)
AgentRetryFail(r) ==
    /\ ag[r] = "AGENT_RETRY_FAIL"
    /\ SetOpExecCmd(r, IF loc[r].report THEN "kReportRetryErr" ELSE "kExit")
    /\ cqe' = [cqe EXCEPT ![r] = [q \in Ranks |-> "none"]]
    /\ Goto(r, "AGENT_RUNNING")
    /\ UNCHANGED <<h2dLink, d2h, s2a, a2s, used, loc, faultOp, link, hostPort,
                   portStatus, useDefault, agRound, level>>

AgentStep(r) ==
    \/ RdmaError(r)        \/ ParseKfcErr(r)       \/ ParseRdmaErr(r)
    \/ StopAicpu(r)        \/ RunningOtherCmd(r)   \/ Respond(r)
    \/ StopStream(r)       \/ ClearStream(r)       \/ StopTransport(r)
    \/ ResetNotify(r)      \/ CheckOpname(r)       \/ CheckLink(r)
    \/ ResponseLinkInfo(r) \/ WaitChangeLinkInfo(r) \/ MisreadCommand(r)
    \/ ResumeTransport(r)  \/ PutChangeLinkInfo(r) \/ CanRetry(r)
    \/ FailCommand(r)      \/ IgnoreCommand(r)     \/ CommandFails(r)
    \/ WaitCmdTimeout(r)   \/ PollAicpuStop(r)     \/ PollAicpuConstraint(r)
    \/ PollAicpuTimeout(r) \/ AgentRetryFail(r)

AgentTypeOK ==
    /\ ag \in [Ranks -> AgentStates]
    /\ loc \in [Ranks -> Locals]
    /\ faultOp \in [Ranks -> OpIds]
    /\ link \in [Ranks -> PortMap]
    /\ hostPort \in [Ranks -> PortMap]
    /\ portStatus \in [Ranks -> BOOLEAN \X BOOLEAN]
    /\ useDefault \in [Ranks -> BOOLEAN]
    /\ cqe \in [Ranks -> [Ranks -> {"none", "status12", "other"}]]
    /\ agRound \in [Ranks -> 0 .. MaxRounds]
    /\ level \in [Rounds -> [Ranks -> Levels]]

=============================================================================
