--------------------------- MODULE OpRetryServer ---------------------------
(***************************************************************************)
(* The retry server (opretry_server.cc): one thread on the root rank.  It  *)
(* collects the errors the agents report, chooses the operator to retry    *)
(* and the ranks that take part, and leads them through the phases of the  *)
(* retry: a command to every rank, then a wait for the answer of each.     *)
(*                                                                         *)
(* States keep the names of RetryState.  ISSUE_RESUME_TRANSPORT is         *)
(* CMD_RESUME_TRANSPORT once its handler has been replaced by the one that *)
(* issues the command.  QUIT is a handler that returned an error: the      *)
(* thread's loop ends.                                                     *)
(***************************************************************************)
EXTENDS OpRetryChannels

VARIABLES
    sv,             \* retryState of the server's context
    need,           \* needRetryServerRanks_
    curFaultOpId,   \* the operator being retried
    errorRankList,  \* errorRankList_: the operator each listed rank reported
    info,           \* info[r]: the last RetryInfo received from r
    port,           \* port[r]: the last LinkPortStatus received from r
    recvVaild,      \* ranks dealt with in the current loop
    svReport,       \* isNeedReportOpRetryErr
    round,          \* history: number of rounds opened
    hist            \* history: per round, its ranks and whether it failed

serverVars == <<sv, need, curFaultOpId, errorRankList, info, port, recvVaild,
                svReport, round, hist>>

(* RETRY_SERVER_STATE_TRANSFER_LABEL and RETRY_SERVER_STATE_TO_CMD_LABEL   *)
(* for the states that issue a command: the command, the next state.       *)
IssueStates ==
    [CMD_STOP_AICPU         |-> <<"STOP_AICPU", "WAIT_AICPU_STOPED">>,
     CMD_STOP_STREAM        |-> <<"STOP_STREAM", "WAIT_STREAM_STOPED">>,
     CMD_CLEAR_STREAM       |-> <<"CLEAR_STREAM", "WAIT_STREAM_CLEARED">>,
     CMD_STOP_TRANSPORT     |-> <<"STOP_TRANSPORT", "WAIT_STOP_TRANSPORT">>,
     CMD_CHECK              |-> <<"CHECK_OPNAME", "WAIT_CHECK_INFO">>,
     CMD_CHECK_LINK         |-> <<"CHECK_LINK", "WAIT_LINK_CHECKED">>,
     ISSUE_RESUME_TRANSPORT |-> <<"RESUME_TRANSPORT",
                                  "WAIT_RESUME_TRANSPORT">>,
     CMD_RESET_NOTIFY       |-> <<"RESET_NOTIFY", "WAIT_NOTIFY_RESETED">>,
     CMD_CAN_RETRY          |-> <<"CAN_RETRY", "WAIT_CAN_RETRY">>]

(* RETRY_SERVER_WAIT_AGENT_STATE_LABEL and the transfer table for the      *)
(* states that wait: the answer expected of every rank, the next state.    *)
WaitStates ==
    [WAIT_AICPU_STOPED     |-> <<"RESP_AICPU_STOPED", "CMD_STOP_STREAM">>,
     WAIT_STREAM_STOPED    |-> <<"RESP_STREAM_STOPED", "CMD_CLEAR_STREAM">>,
     WAIT_STREAM_CLEARED   |-> <<"RESP_STREAM_CLEARED", "CMD_STOP_TRANSPORT">>,
     WAIT_STOP_TRANSPORT   |-> <<"RESP_STOP_TRANSPORT", "CMD_CHECK">>,
     WAIT_CHECK_INFO       |-> <<"RESP_CHECK_INFO", "CHECK_OP">>,
     WAIT_RESUME_TRANSPORT |-> <<"RESP_RESUME_TRANSPORT", "CMD_RESET_NOTIFY">>,
     WAIT_NOTIFY_RESETED   |-> <<"RESP_NOTIFY_RESETED", "CMD_CAN_RETRY">>,
     WAIT_CAN_RETRY        |-> <<"RESP_AICPU_RETRYEND", "SERVER_RUNNING">>]

ServerStates == DOMAIN IssueStates \cup DOMAIN WaitStates \cup
    {"SERVER_RUNNING", "HANDLE_ALL_ERR", "CHECK_OP", "WAIT_LINK_CHECKED",
     "CHECK_ALL_LINK", "CMD_RESUME_TRANSPORT", "SERVER_RETRY_FAIL", "QUIT"}

NoInfo == [kind |-> "resp", state |-> "AGENT_RUNNING", op |-> NoOp,
           status |-> "kNull", err |-> "kNone", cnt |-> 0, report |-> FALSE]

NoPort == [kind |-> "port", ranks |-> {}, port |-> <<FALSE, FALSE>>]

ServerInit ==
    /\ sv = "SERVER_RUNNING"
    /\ need = <<>>
    /\ curFaultOpId = NoOp
    /\ errorRankList = [r \in {} |-> NoOp]
    /\ info = [r \in Ranks |-> NoInfo]
    /\ port = [r \in Ranks |-> NoPort]
    /\ recvVaild = {}
    /\ svReport = FALSE
    /\ round = 0
    /\ hist = [k \in Rounds |-> [ranks |-> {}, failed |-> FALSE]]

Members == {need[i] : i \in DOMAIN need}

ErrorRanks == DOMAIN errorRankList

Insert(r, op) == [q \in ErrorRanks \cup {r} |->
                    IF q = r THEN op ELSE errorRankList[q]]

Erase(ranks) == [q \in ErrorRanks \ ranks |-> errorRankList[q]]

(* The loops over ranks run upwards.                                       *)
First(r, S) == r \in S /\ \A q \in S : r <= q

(* A frame of the kind the reader cuts is at the head of r's stream.       *)
Received(r, kind) == a2s[r] # <<>> /\ Head(a2s[r]).kind = kind

Drop(r) == a2s' = [a2s EXCEPT ![r] = Tail(@)]

(* The keep-alive command; the bound leaves it out when the queue is full. *)
KeepAlive(r) ==
    s2a' = IF Len(s2a[r]) < MaxQueue
           THEN [s2a EXCEPT ![r] = Append(@, CmdFrame("RUNNING", NoOp, 0))]
           ELSE s2a

(* ParaseErrorCode: the errors that call for a retry.                      *)
IsRetryError(err) == err \in {"kRdma", "kExecConstraint", "kSdma"}

-----------------------------------------------------------------------------
(* SERVER_RUNNING and HANDLE_ALL_ERR.                                      *)

(* A frame is received: its error is noted, or it is answered.             *)
TakeReport(r) ==
    /\ Received(r, "resp")
    /\ info' = [info EXCEPT ![r] = Head(a2s[r])]
    /\ Drop(r)
    /\ errorRankList' = IF IsRetryError(Head(a2s[r]).err)
                        THEN Insert(r, Head(a2s[r]).op)
                        ELSE errorRankList
    /\ IF Head(a2s[r]).err = "kNone" THEN KeepAlive(r) ELSE UNCHANGED s2a

ServerRunning(r) ==
    /\ sv = "SERVER_RUNNING"
    /\ ErrorRanks = {}
    /\ TakeReport(r)
    /\ sv' = IF IsRetryError(Head(a2s[r]).err) THEN "HANDLE_ALL_ERR" ELSE sv
    /\ recvVaild' = {}
    /\ UNCHANGED <<h2d, h2dLink, d2h, used, need, curFaultOpId, port,
                   svReport, round, hist>>

(* Errors left over from an earlier round are dealt with first.            *)
ServerRunningPending ==
    /\ sv = "SERVER_RUNNING"
    /\ ErrorRanks # {}
    /\ sv' = "HANDLE_ALL_ERR"
    /\ recvVaild' = {}
    /\ UNCHANGED <<channels, need, curFaultOpId, errorRankList, info, port,
                   svReport, round, hist>>

(* One pass polls, in order, every rank that has reported no error yet.    *)
HandleErrorPoll ==
    \E r \in Ranks :
        /\ sv = "HANDLE_ALL_ERR"
        /\ First(r, Ranks \ (ErrorRanks \cup recvVaild))
        /\ \/ TakeReport(r)
           \/ /\ a2s[r] = <<>>
              /\ KeepAlive(r)
              /\ UNCHANGED <<a2s, info, errorRankList>>
        /\ recvVaild' = recvVaild \cup {r}
        /\ UNCHANGED <<h2d, h2dLink, d2h, used, sv, need, curFaultOpId, port,
                       svReport, round, hist>>

SendRecvErrors == {r \in ErrorRanks : errorRankList[r].isSendRecv}

(* The remote end of a send or a receive stopped in the same operator.     *)
Matched(r) ==
    SameOp(errorRankList[r], info[Remote(errorRankList[r], r)].op)

(* Mutant: ranks counted from one.                                         *)
OpenRound_FromOne(op) ==
    /\ round < MaxRounds
    /\ round' = round + 1
    /\ need' = IF op.isSendRecv THEN <<op.srcRank, op.detRank>>
                               ELSE [i \in 1 .. N |-> i]
    /\ curFaultOpId' = op
    /\ hist' = [hist EXCEPT ![round + 1] =
                  [ranks |-> Participants(op), failed |-> FALSE]]
    /\ sv' = "CMD_STOP_AICPU"
    /\ recvVaild' = {}
    /\ UNCHANGED <<channels, info, port, svReport>>

(* SetNeedRetryServerRank and the opening of the round.                    *)
OpenRound(op) ==
    /\ round < MaxRounds
    /\ round' = round + 1
    /\ need' = IF op.isSendRecv THEN <<op.srcRank, op.detRank>>
                               ELSE [i \in 1 .. N |-> i - 1]
    /\ curFaultOpId' = op
    /\ hist' = [hist EXCEPT ![round + 1] =
                  [ranks |-> Participants(op), failed |-> FALSE]]
    /\ sv' = "CMD_STOP_AICPU"
    /\ recvVaild' = {}
    /\ UNCHANGED <<channels, info, port, svReport>>

(* Mutant: the whole list is struck off.                                   *)
HandleErrorSendRecv_EraseAll ==
    /\ sv = "HANDLE_ALL_ERR"
    /\ Ranks = ErrorRanks \cup recvVaild
    /\ \E r \in SendRecvErrors :
          /\ First(r, {q \in SendRecvErrors : Matched(q)})
          /\ errorRankList' = Erase(Ranks)
          /\ OpenRound(errorRankList[r])

(* After the pass: a send or a receive goes first.                         *)
HandleErrorSendRecv ==
    /\ sv = "HANDLE_ALL_ERR"
    /\ Ranks = ErrorRanks \cup recvVaild
    /\ \E r \in SendRecvErrors :
          /\ First(r, {q \in SendRecvErrors : Matched(q)})
          /\ errorRankList' = Erase({r, Remote(errorRankList[r], r)})
          /\ OpenRound(errorRankList[r])

(* Without one, the lowest rank's operator is retried by all ranks.        *)
HandleErrorCollective ==
    /\ sv = "HANDLE_ALL_ERR"
    /\ Ranks = ErrorRanks \cup recvVaild
    /\ SendRecvErrors = {}
    /\ errorRankList' = Erase(Ranks)
    /\ \E r \in ErrorRanks :
          First(r, ErrorRanks) /\ OpenRound(errorRankList[r])

(* The remote end has not stopped there yet: sleep and poll again.         *)
HandleErrorAgain ==
    /\ sv = "HANDLE_ALL_ERR"
    /\ Ranks = ErrorRanks \cup recvVaild
    /\ SendRecvErrors # {}
    /\ \A r \in SendRecvErrors : ~Matched(r)
    /\ recvVaild' = {}
    /\ UNCHANGED <<channels, sv, need, curFaultOpId, errorRankList, info, port,
                   svReport, round, hist>>

-----------------------------------------------------------------------------
(* The phases of a round.                                                  *)

(* Mutant: a port that is up at one end will do.                           *)
PortUp_Either(p, q) ==
    LET status(x) == IF x \in Members THEN port[x].port ELSE <<FALSE, FALSE>>
    IN  [default |-> status(p)[1] \/ status(q)[1],
         backup  |-> status(p)[2] \/ status(q)[2]]

(* Which ports are up at both ends; a rank outside the round reads as      *)
(* down, the entry that operator[] inserts.                                *)
PortUp(p, q) ==
    LET status(x) == IF x \in Members THEN port[x].port ELSE <<FALSE, FALSE>>
    IN  [default |-> status(p)[1] /\ status(q)[1],
         backup  |-> status(p)[2] /\ status(q)[2]]

(* What each broadcasting state sends to a rank.                           *)
Outgoing(p) ==
    CASE sv \in DOMAIN IssueStates ->
           CmdFrame(IssueStates[sv][1], curFaultOpId, round)
      [] sv = "CMD_RESUME_TRANSPORT" ->
           LinkFrame(port[p].ranks, [q \in Ranks |-> PortUp(p, q).default])
      [] sv = "SERVER_RETRY_FAIL" ->
           CmdFrame(IF svReport THEN "RETRY_CONSTRAINT_FAIL" ELSE "RETRY_FAIL",
                    NoOp, round)

(* The frame of the current state is sent to each rank of a set.           *)
SendTo(ranks) ==
    s2a' = [p \in Ranks |-> IF p \in ranks THEN Append(s2a[p], Outgoing(p))
                                           ELSE s2a[p]]

IssueCmd ==
    /\ sv \in DOMAIN IssueStates
    /\ SendTo(Members)
    /\ sv' = IssueStates[sv][2]
    /\ recvVaild' = {}
    /\ UNCHANGED <<h2d, h2dLink, d2h, a2s, used, need, curFaultOpId,
                   errorRankList, info, port, svReport, round, hist>>

(* Mutant: any answer counts.                                              *)
WaitResp_AnyState(r) ==
    /\ sv \in DOMAIN WaitStates
    /\ r \in Members \ recvVaild
    /\ Received(r, "resp")
    /\ Head(a2s[r]).state # "RESP_RUNNING_ERR"
    /\ info' = [info EXCEPT ![r] = Head(a2s[r])]
    /\ Drop(r)
    /\ recvVaild' = recvVaild \cup {r}
    /\ UNCHANGED <<h2d, h2dLink, d2h, s2a, used, sv, need, curFaultOpId,
                   errorRankList, port, svReport, round, hist>>

(* WaitResp reads one frame of a rank that has not answered yet.  An       *)
(* answer to something else is dropped.                                    *)
WaitResp(r) ==
    /\ sv \in DOMAIN WaitStates
    /\ r \in Members \ recvVaild
    /\ Received(r, "resp")
    /\ Head(a2s[r]).state # "RESP_RUNNING_ERR"
    /\ info' = [info EXCEPT ![r] = Head(a2s[r])]
    /\ Drop(r)
    /\ recvVaild' = IF Head(a2s[r]).state = WaitStates[sv][1]
                    THEN recvVaild \cup {r} ELSE recvVaild
    /\ UNCHANGED <<h2d, h2dLink, d2h, s2a, used, sv, need, curFaultOpId,
                   errorRankList, port, svReport, round, hist>>

(* Mutant: the failure is noted and nothing follows from it.               *)
WaitRespFail_Noted(r) ==
    /\ sv \in DOMAIN WaitStates
    /\ r \in Members \ recvVaild
    /\ Received(r, "resp")
    /\ Head(a2s[r]).state = "RESP_RUNNING_ERR"
    /\ info' = [info EXCEPT ![r] = Head(a2s[r])]
    /\ Drop(r)
    /\ UNCHANGED <<h2d, h2dLink, d2h, s2a, used, sv, need, curFaultOpId,
                   errorRankList, port, recvVaild, svReport, round, hist>>

(* An agent gave up.  PrintAgentInfoAfterFail turns the failure into a     *)
(* reported one when a rank that answered has finished its operator.       *)
WaitRespFail(r) ==
    LET resp == Head(a2s[r])
        ended == \/ resp.status = "kEnd"
                 \/ \E q \in recvVaild : info[q].status = "kEnd"
    IN  /\ sv \in DOMAIN WaitStates
        /\ r \in Members \ recvVaild
        /\ Received(r, "resp")
        /\ resp.state = "RESP_RUNNING_ERR"
        /\ info' = [info EXCEPT ![r] = [resp EXCEPT !.report = @ \/ ended]]
        /\ Drop(r)
        /\ recvVaild' = recvVaild \cup {r}
        /\ svReport' = (resp.report \/ ended)
        /\ sv' = "SERVER_RETRY_FAIL"
        /\ UNCHANGED <<h2d, h2dLink, d2h, s2a, used, need, curFaultOpId,
                       errorRankList, port, round, hist>>

WaitRespDone ==
    /\ sv \in DOMAIN WaitStates
    /\ Members \subseteq recvVaild
    /\ sv' = WaitStates[sv][2]
    /\ recvVaild' = {}
    /\ UNCHANGED <<channels, need, curFaultOpId, errorRankList, info, port,
                   svReport, round, hist>>

(* Mutants: no comparison; one re-execution too many.                      *)
OpNameOK_Always(r) == TRUE

RetryCntOK_Inclusive(r) == info[r].cnt <= RetryMaxCnt

(* CHECK_OP, CheckRetryInfo: the first rank that fails a check decides.    *)
OpNameOK(r) == SameOp(info[r].op, info[need[1]].op)

RetryCntOK(r) == info[r].cnt < RetryMaxCnt

CheckOp ==
    LET bad == {i \in DOMAIN need : ~OpNameOK(need[i]) \/ ~RetryCntOK(need[i])}
    IN  /\ sv = "CHECK_OP"
        /\ sv' = IF bad = {} THEN "CMD_CHECK_LINK" ELSE "SERVER_RETRY_FAIL"
        /\ svReport' = (svReport \/ \E i \in bad :
                                   First(i, bad) /\ ~OpNameOK(need[i]))
        /\ UNCHANGED <<channels, need, curFaultOpId, errorRankList, info, port,
                       recvVaild, round, hist>>

(* WAIT_LINK_CHECKED reads LinkPortStatus frames.                          *)
WaitLinkInfo(r) ==
    /\ sv = "WAIT_LINK_CHECKED"
    /\ r \in Members \ recvVaild
    /\ Received(r, "port")
    /\ port' = [port EXCEPT ![r] = Head(a2s[r])]
    /\ Drop(r)
    /\ recvVaild' = recvVaild \cup {r}
    /\ UNCHANGED <<h2d, h2dLink, d2h, s2a, used, sv, need, curFaultOpId,
                   errorRankList, info, svReport, round, hist>>

(* Mutant: the first answer is enough.                                     *)
WaitLinkInfoDone_First ==
    /\ sv = "WAIT_LINK_CHECKED"
    /\ recvVaild # {}
    /\ sv' = "CHECK_ALL_LINK"
    /\ UNCHANGED <<channels, need, curFaultOpId, errorRankList, info, port,
                   recvVaild, svReport, round, hist>>

WaitLinkInfoDone ==
    /\ sv = "WAIT_LINK_CHECKED"
    /\ Members \subseteq recvVaild
    /\ sv' = "CHECK_ALL_LINK"
    /\ UNCHANGED <<channels, need, curFaultOpId, errorRankList, info, port,
                   recvVaild, svReport, round, hist>>

(* Every link must find a port that is up at both of its ends.             *)
CheckAllLink ==
    /\ sv = "CHECK_ALL_LINK"
    /\ sv' = IF \A p \in Members : \A q \in port[p].ranks :
                   PortUp(p, q).default \/ PortUp(p, q).backup
             THEN "CMD_RESUME_TRANSPORT" ELSE "SERVER_RETRY_FAIL"
    /\ UNCHANGED <<channels, need, curFaultOpId, errorRankList, info, port,
                   recvVaild, svReport, round, hist>>

IssueChangeLink ==
    /\ sv = "CMD_RESUME_TRANSPORT"
    /\ SendTo(Members)
    /\ sv' = "ISSUE_RESUME_TRANSPORT"
    /\ UNCHANGED <<h2d, h2dLink, d2h, a2s, used, need, curFaultOpId,
                   errorRankList, info, port, recvVaild, svReport, round,
                   hist>>

(* Mutant: only the ranks that answered are told.                          *)
ServerRetryFail_Answered ==
    /\ sv = "SERVER_RETRY_FAIL"
    /\ SendTo(recvVaild)
    /\ hist' = [hist EXCEPT ![round].failed = TRUE]
    /\ sv' = "SERVER_RUNNING"
    /\ UNCHANGED <<h2d, h2dLink, d2h, a2s, used, need, curFaultOpId,
                   errorRankList, info, port, recvVaild, svReport, round>>

ServerRetryFail ==
    /\ sv = "SERVER_RETRY_FAIL"
    /\ SendTo(Members)
    /\ hist' = [hist EXCEPT ![round].failed = TRUE]
    /\ sv' = "SERVER_RUNNING"
    /\ UNCHANGED <<h2d, h2dLink, d2h, a2s, used, need, curFaultOpId,
                   errorRankList, info, port, recvVaild, svReport, round>>

(* A send fails after the ranks before it in the order were served.        *)
SendFails ==
    /\ sv \in DOMAIN IssueStates \cup {"CMD_RESUME_TRANSPORT",
                                       "SERVER_RETRY_FAIL"}
    /\ Spend("send")
    /\ \E n \in 0 .. Len(need) - 1 :
          SendTo({need[i] : i \in 1 .. n})
    /\ sv' = "QUIT"
    /\ UNCHANGED <<h2d, h2dLink, d2h, a2s, need, curFaultOpId, errorRankList,
                   info, port, recvVaild, svReport, round, hist>>

(* A wait gives up: HCCL_E_TIMEOUT.                                        *)
ServerTimeout ==
    /\ sv \in DOMAIN WaitStates \cup {"WAIT_LINK_CHECKED", "HANDLE_ALL_ERR"}
    /\ Spend("wait")
    /\ sv' = "QUIT"
    /\ UNCHANGED <<h2d, h2dLink, d2h, s2a, a2s, need, curFaultOpId,
                   errorRankList, info, port, recvVaild, svReport, round,
                   hist>>

ServerStep ==
    \/ \E r \in Ranks : ServerRunning(r) \/ WaitResp(r) \/ WaitRespFail(r)
                        \/ WaitLinkInfo(r)
    \/ ServerRunningPending \/ HandleErrorPoll  \/ HandleErrorSendRecv
    \/ HandleErrorCollective \/ HandleErrorAgain \/ IssueCmd
    \/ WaitRespDone  \/ CheckOp          \/ WaitLinkInfoDone
    \/ CheckAllLink  \/ IssueChangeLink  \/ ServerRetryFail
    \/ SendFails     \/ ServerTimeout

ServerTypeOK ==
    /\ sv \in ServerStates
    /\ need \in Seq(Ranks)
    /\ curFaultOpId \in OpIds
    /\ ErrorRanks \subseteq Ranks
    /\ errorRankList \in [ErrorRanks -> OpIds]
    /\ info \in [Ranks -> RespFrames]
    /\ port \in [Ranks -> PortFrames]
    /\ recvVaild \subseteq Ranks
    /\ svReport \in BOOLEAN
    /\ round \in 0 .. MaxRounds
    /\ hist \in [Rounds -> [ranks : SUBSET Ranks, failed : BOOLEAN]]

=============================================================================
