-------------------------- MODULE OpRetryChannels --------------------------
(***************************************************************************)
(* What the three parties of an operator retry share.  One retry server    *)
(* (a thread on the root rank) talks to one retry agent per rank over a    *)
(* socket; every agent talks to the collective engine of its own device    *)
(* (the AICPU) through two shared-memory words, a command word written by  *)
(* the host (H2D) and a status word written by the device (D2H).           *)
(*                                                                         *)
(* Sockets are FIFO byte streams that the two ends cut into fixed-size     *)
(* frames.  A frame carries no type that its reader looks at, so a reader  *)
(* that expects another size misreads it; the field "kind" of a frame is   *)
(* what was written, and each reader says which kind it reads.             *)
(***************************************************************************)
EXTENDS Integers, Sequences, FiniteSets

CONSTANTS
    N,                \* number of ranks in the communicator
    Tags,             \* tags of operators
    Prog,             \* Prog[r]: the operators rank r launches, in order
    PortStates,       \* <<default up, backup up>>: what a port check can see
    Faults,           \* "sdma": task exceptions; "status12" and "other":
                      \* RDMA completion errors that can (not) be retried
    RetryMaxCnt,      \* commConfig RetryMaxCnt: re-executions of one operator
    MaxRounds,        \* bound: retry rounds the server opens
    MaxQueue,         \* bound: frames in flight to one agent
    MaxFaults,        \* bound: faults that happen
    MaxCmdFailures,   \* bound: commands whose runtime call fails on an agent
    PollTimeouts,     \* whether a poll of the D2H word may give up (5 s)
    MaxWaitTimeouts,  \* bound: waits for a frame that give up
    MaxDevTimeouts,   \* bound: waits of a device that give up
    MaxSendFailures   \* bound: socket sends of the server that fail

Ranks == 0 .. N - 1

Rounds == 1 .. MaxRounds

(* HcclOpIdentifier: the tag and the index name the operator, the other    *)
(* fields say which ranks take part in it.                                 *)
OpIds == [tag : Tags \cup {"none"}, index : Nat, isSendRecv : BOOLEAN,
          srcRank : Ranks, detRank : Ranks]

NoOp == [tag |-> "none", index |-> 0, isSendRecv |-> FALSE,
         srcRank |-> 0, detRank |-> 0]

ASSUME NAssumption == N \in Nat \ {0}
ASSUME ProgAssumption == Prog \in [Ranks -> Seq(OpIds)]
ASSUME PortAssumption == PortStates \subseteq BOOLEAN \X BOOLEAN
ASSUME FaultAssumption == Faults \subseteq {"sdma", "status12", "other"}
ASSUME BoundAssumption ==
    /\ MaxRounds \in Nat /\ MaxQueue \in Nat /\ RetryMaxCnt \in Nat
    /\ MaxFaults \in Nat /\ MaxCmdFailures \in Nat
    /\ PollTimeouts \in BOOLEAN /\ MaxWaitTimeouts \in Nat
    /\ MaxDevTimeouts \in Nat /\ MaxSendFailures \in Nat

SameOp(a, b) == a.tag = b.tag /\ a.index = b.index

(* The other end of a send or a receive.                                   *)
Remote(op, r) == IF r = op.detRank THEN op.srcRank ELSE op.detRank

Participants(op) == IF op.isSendRecv THEN {op.srcRank, op.detRank} ELSE Ranks

(* InitSendRecvOpId makes the launching rank one end of its operator.      *)
ASSUME OwnProgAssumption ==
    \A r \in Ranks : \A i \in DOMAIN Prog[r] : r \in Participants(Prog[r][i])

(* The ranks a rank has links to for an operator: the peer of a send or a  *)
(* receive, every other rank of a collective.                              *)
Peers(op, r) == Participants(op) \ {r}

KfcCommands == {"kNone", "kStopLaunch", "kStopExec", "kChangeLink", "kRetry",
                "kExit", "kReportRetryErr"}

KfcStatuses == {"kNull", "kRuning", "kStoplaunch", "kStopExec", "kChanged",
                "kEnd", "kRetryError"}

KfcErrors == {"kNone", "kSdma", "kRdma", "kExecConstraint", "kExit",
              "kExec", "kInner", "kTimeout"}

(* KfcExecStatus, the content of the D2H word.                             *)
ExecStatuses == [status : KfcStatuses, err : KfcErrors, cnt : Nat, op : OpIds]

Commands == {"RUNNING", "STOP_AICPU", "STOP_STREAM", "CLEAR_STREAM",
             "STOP_TRANSPORT", "CHECK_OPNAME", "CHECK_LINK",
             "RESUME_TRANSPORT", "RESET_NOTIFY", "CAN_RETRY",
             "RETRY_FAIL", "RETRY_CONSTRAINT_FAIL"}

VARIABLES
    h2d,       \* h2d[r]: KfcCommand field of the host-to-device word
    h2dLink,   \* h2dLink[r]: ChangeLinkInfo field of the same word
    d2h,       \* d2h[r]: KfcExecStatus, the device-to-host word
    s2a,       \* s2a[r]: frames on their way from the server to agent r
    a2s,       \* a2s[r]: frames on their way from agent r to the server
    used       \* how much of each fault budget has been spent

channels == <<h2d, h2dLink, d2h, s2a, a2s, used>>

PortMap == [Ranks -> BOOLEAN]

(* A RetryCommandInfo frame; "round" is a history field, the server's      *)
(* frames carry no such number.                                            *)
CmdFrame(cmd, op, round) ==
    [kind |-> "cmd", cmd |-> cmd, op |-> op, round |-> round]

(* A ChangeLinkInfo frame: the remote ranks listed and the port of each.   *)
LinkFrame(ranks, ports) ==
    [kind |-> "link", ranks |-> ranks, ports |-> ports]

(* A RetryInfo frame.                                                      *)
RespFrame(state, local) ==
    [kind |-> "resp", state |-> state, op |-> local.op,
     status |-> local.status, err |-> local.err, cnt |-> local.cnt,
     report |-> local.report]

(* A LinkPortStatus frame.                                                 *)
PortFrame(ranks, port) ==
    [kind |-> "port", ranks |-> ranks, port |-> port]

Budget == [fault |-> MaxFaults, cmd |-> MaxCmdFailures,
           wait |-> MaxWaitTimeouts, dev |-> MaxDevTimeouts,
           send |-> MaxSendFailures]

(* One more failure of a kind, as long as its bound allows.                *)
Spend(kind) ==
    /\ used[kind] < Budget[kind]
    /\ used' = [used EXCEPT ![kind] = @ + 1]

ServerFrames ==
    [kind : {"cmd"}, cmd : Commands, op : OpIds, round : 0 .. MaxRounds]
      \cup [kind : {"link"}, ranks : SUBSET Ranks, ports : PortMap]

(* The states an agent reports.                                            *)
Reports == {"AGENT_RUNNING", "RESP_AICPU_ERR", "RESP_AICPU_STOPED",
            "RESP_STREAM_STOPED", "RESP_STREAM_CLEARED", "RESP_STOP_TRANSPORT",
            "RESP_CHECK_INFO", "RESP_RESUME_TRANSPORT", "RESP_NOTIFY_RESETED",
            "RESP_AICPU_RETRYEND", "RESP_RUNNING_ERR"}

RespFrames == [kind : {"resp"}, state : Reports, op : OpIds, status : KfcStatuses,
               err : KfcErrors, cnt : Nat, report : BOOLEAN]

PortFrames == [kind : {"port"}, ranks : SUBSET Ranks, port : BOOLEAN \X BOOLEAN]

ChannelsTypeOK ==
    /\ h2d \in [Ranks -> KfcCommands]
    /\ h2dLink \in [Ranks -> PortMap]
    /\ d2h \in [Ranks -> ExecStatuses]
    /\ s2a \in [Ranks -> Seq(ServerFrames)]
    /\ a2s \in [Ranks -> Seq(RespFrames \cup PortFrames)]
    /\ used \in [DOMAIN Budget -> Nat]

ChannelsInit ==
    /\ h2d = [r \in Ranks |-> "kNone"]
    /\ h2dLink = [r \in Ranks |-> [q \in Ranks |-> TRUE]]
    /\ d2h = [r \in Ranks |-> [status |-> "kNull", err |-> "kNone",
                               cnt |-> 0, op |-> NoOp]]
    /\ s2a = [r \in Ranks |-> <<>>]
    /\ a2s = [r \in Ranks |-> <<>>]
    /\ used = [kind \in DOMAIN Budget |-> 0]

=============================================================================
