------------------------------ MODULE OpRetry ------------------------------
(***************************************************************************)
(* Operator retry as a whole: the server, and an agent and a device per    *)
(* rank, each taking one step at a time.                                   *)
(***************************************************************************)
EXTENDS OpRetryDevice, OpRetryAgent, OpRetryServer

vars == <<channels, deviceVars, agentVars, serverVars>>

Init == ChannelsInit /\ DeviceInit /\ AgentInit /\ ServerInit

Device(r) == DeviceStep(r) /\ UNCHANGED <<agentVars, serverVars>>

Agent(r) == AgentStep(r) /\ UNCHANGED <<deviceVars, serverVars>>

Server == ServerStep /\ UNCHANGED <<deviceVars, agentVars>>

Next == Server \/ \E r \in Ranks : Device(r) \/ Agent(r)

Spec == Init /\ [][Next]_vars

(***************************************************************************)
(* Fairness.  Each thread and each kernel keeps running its own loop, and  *)
(* a poll that is not answered does give up.  Nothing is assumed of the    *)
(* application (launching), of the tasks (finishing), of faults, failed    *)
(* calls and the other timeouts.                                           *)
(***************************************************************************)
DeviceProgress(r) ==
    /\ \/ LaunchProcess(r)     \/ Suspend(r)           \/ AbortOnExit(r)
       \/ StoppingProcess(r)   \/ StoppedProcess(r)    \/ RetryProcess(r)
       \/ WaitRetryProcess(r)  \/ ChangeLinkProcess(r)
    /\ UNCHANGED <<agentVars, serverVars>>

AgentProgress(r) ==
    /\ \/ ParseKfcErr(r)      \/ ParseRdmaErr(r)       \/ StopAicpu(r)
       \/ RunningOtherCmd(r)  \/ Respond(r)            \/ StopStream(r)
       \/ ClearStream(r)      \/ StopTransport(r)      \/ ResetNotify(r)
       \/ CheckOpname(r)      \/ CheckLink(r)          \/ ResponseLinkInfo(r)
       \/ WaitChangeLinkInfo(r) \/ MisreadCommand(r)   \/ ResumeTransport(r)
       \/ PutChangeLinkInfo(r)  \/ CanRetry(r)         \/ FailCommand(r)
       \/ IgnoreCommand(r)      \/ PollAicpuStop(r)
       \/ PollAicpuConstraint(r) \/ PollAicpuTimeout(r) \/ AgentRetryFail(r)
    /\ UNCHANGED <<deviceVars, serverVars>>

ServerProgress ==
    /\ \/ \E r \in Ranks : ServerRunning(r) \/ WaitResp(r) \/ WaitRespFail(r)
                           \/ WaitLinkInfo(r)
       \/ ServerRunningPending \/ HandleErrorPoll  \/ HandleErrorSendRecv
       \/ HandleErrorCollective \/ HandleErrorAgain \/ IssueCmd
       \/ WaitRespDone  \/ CheckOp          \/ WaitLinkInfoDone
       \/ CheckAllLink  \/ IssueChangeLink  \/ ServerRetryFail
    /\ UNCHANGED <<deviceVars, agentVars>>

FairSpec ==
    /\ Spec
    /\ WF_vars(ServerProgress)
    /\ \A r \in Ranks : WF_vars(DeviceProgress(r)) /\ WF_vars(AgentProgress(r))

-----------------------------------------------------------------------------
(* Every variable keeps its type.                                          *)
TypeOK == ChannelsTypeOK /\ DeviceTypeOK /\ AgentTypeOK /\ ServerTypeOK

(* The ranks of round k that still belong to it.                           *)
InRound(k) == {r \in hist[k].ranks : agRound[r] = k}

(* The retry is a sequence of barriers: no rank executes the command of a  *)
(* phase before every rank of the round has completed the phase before it. *)
(* Frames carry no round number, and each round given up can leave one     *)
(* more answer of a rank to be taken for one of a later round              *)
(* (OpRetryServerWaitResp): in the k-th round the barriers hold from phase *)
(* k + 1 on.                                                               *)
PhaseBarrier ==
    \A k \in Rounds : \A p, q \in hist[k].ranks : \A j \in (k + 1) .. 9 :
        level[k][p] \in {2 * j - 1, 2 * j} => level[k][q] >= 2 * (j - 1)

(* While a rank repairs its streams and its links, from the moment it has  *)
(* cleared its streams until it has resumed its links, no device of the    *)
(* round executes tasks.                                                   *)
QuietWhileRepairing ==
    \A k \in Rounds : \A p, q \in InRound(k) :
        level[k][p] \in 6 .. 15
            => dev[q].fsm \notin {"LAUNCH", "WAIT_END", "RETRY"}

(* A device that re-executes an operator does so together with the devices *)
(* of its round: those not released yet wait in the same operator.         *)
SameOpRetried ==
    \A k \in Rounds : \A p, q \in InRound(k) :
        (dev[p].fsm = "RETRY" /\ dev[q].fsm \in {"WAIT_RETRY", "RETRY"})
            => SameOp(CurOp(p), CurOp(q))

(* The two ends of a link resume it on the same port, and on one that both *)
(* ends found up (CheckAllLink, SetTransportStatusForResume).              *)
HostPortsAgree ==
    \A k \in Rounds : \A p, q \in InRound(k) :
        (p # q /\ level[k][p] \in 13 .. 18 /\ level[k][q] \in 13 .. 18)
            => /\ hostPort[p][q] = hostPort[q][p]
               /\ LET i == IF hostPort[p][q] THEN 1 ELSE 2
                  IN  portStatus[p][i] /\ portStatus[q][i]

(* No operator is re-executed more than RetryMaxCnt times.                 *)
RetryCountBounded == \A r \in Ranks : dev[r].cnt <= RetryMaxCnt

(* The untyped frames are read as what they are: a LinkPortStatus only by  *)
(* WAIT_LINK_CHECKED, which finds nothing else, and a ChangeLinkInfo only  *)
(* by WAIT_CHANGE_LINK_INFO.                                               *)
FramesReadAsSent ==
    /\ \A r \in Ranks : a2s[r] # <<>> =>
          /\ (sv \in {"SERVER_RUNNING", "HANDLE_ALL_ERR"} =>
                Head(a2s[r]).kind = "resp")
          /\ (sv \in DOMAIN WaitStates /\ r \in Members \ recvVaild =>
                Head(a2s[r]).kind = "resp")
          /\ (sv = "WAIT_LINK_CHECKED" /\ r \in Members \ recvVaild =>
                Head(a2s[r]).kind = "port")
    /\ \A r \in Ranks : s2a[r] # <<>> =>
          (ag[r] \in DOMAIN AwaitedCmd \cup {"AGENT_RUNNING"} =>
                Head(s2a[r]).kind = "cmd")

(* A step that strikes an error off the list opens a round for its rank.   *)
StruckErrorsRetried ==
    \A r \in ErrorRanks : r \notin ErrorRanks'
        => round' > round /\ r \in hist'[round'].ranks

(* An error that was reported is struck off the list only by a round in    *)
(* which its rank takes part (OpRetryServerHandleError).                   *)
ReportedErrorsKept == [][StruckErrorsRetried]_vars

(* A round that was opened is closed: the server becomes ready for the     *)
(* next error.                                                             *)
RoundEnds == sv = "CMD_STOP_AICPU" ~> sv = "SERVER_RUNNING"

(* An agent that stopped its device for a round is released.               *)
MembersReleased ==
    \A r \in Ranks : ag[r] = "POLL_AICPU_STOPED" ~> ag[r] = "AGENT_RUNNING"

(* A round given up before the links are checked is given up by each of    *)
(* its ranks.                                                              *)
EarlyFailReachesAll ==
    \A k \in Rounds :
        (hist[k].failed /\ \A r \in hist[k].ranks :
                              level[k][r] \in (0 .. 10) \cup {Told})
            ~> \A r \in hist[k].ranks : level[k][r] = Told

(* "could not retry, command all rank": a round that finds no common port  *)
(* is given up by each of its ranks.                                       *)
LinkFailReachesAll ==
    \A k \in Rounds :
        (hist[k].failed /\ \A r \in hist[k].ranks : level[k][r] \in {12, Told})
            ~> \A r \in hist[k].ranks : level[k][r] = Told

(* The ports agreed on are the ports the device uses once it has answered  *)
(* that it changed them.                                                   *)
DevicePortsFollow ==
    \A k \in Rounds : \A r \in InRound(k) :
        level[k][r] \in 14 .. 18 => devPort[r] = hostPort[r]

=============================================================================
