--------------------------- MODULE OpRetryDevice ---------------------------
(***************************************************************************)
(* The executor of one operator on the device (HcclCommAicpu): the state   *)
(* machine that launches the operator, waits for its tasks, stops on a     *)
(* task exception or on the host's command, and re-executes it.            *)
(*                                                                         *)
(* A transition to the state ERROR is followed, with nothing read in       *)
(* between, by the publication of kRetryError and the return of the        *)
(* kernel; the two are one step here and leave the device "FAILED".        *)
(* Likewise END publishes kEnd and returns, leaving the device "IDLE".     *)
(***************************************************************************)
EXTENDS OpRetryChannels

VARIABLES
    dev,       \* dev[r]: the executor's locals
    devPort    \* devPort[r][q]: does r's device reach q by the default port

deviceVars == <<dev, devPort>>

FsmStates == {"IDLE", "LAUNCH", "WAIT_END", "STOPPING", "STOPPED",
              "WAIT_RETRY", "CHANGE_LINK", "RETRY", "FAILED"}

Devices == [fsm : FsmStates,
            pc : Nat,               \* operators launched so far
            err : KfcErrors,        \* errorCode
            cnt : Nat,              \* retryCnt
            lastCmd : KfcCommands,  \* lastCmd of WAIT_RETRY
            exc : BOOLEAN]          \* pollStatus is kStopAsException

DeviceInit ==
    /\ dev = [r \in Ranks |-> [fsm |-> "IDLE", pc |-> 0, err |-> "kNone",
                               cnt |-> 0, lastCmd |-> "kNone", exc |-> FALSE]]
    /\ devPort = [r \in Ranks |-> [q \in Ranks |-> TRUE]]

CurOp(r) == IF dev[r].pc = 0 THEN NoOp ELSE Prog[r][dev[r].pc]

Launched(r, op) == \E i \in 1 .. dev[r].pc : SameOp(Prog[r][i], op)

(* UpdateOpExecStatus: the status, the error and the count are written,    *)
(* the operator already in the word stays.                                 *)
Publish(r, status, err, cnt) ==
    d2h' = [d2h EXCEPT ![r] = [@ EXCEPT !.status = status, !.err = err,
                                        !.cnt = cnt]]

(* A re-execution counts itself before it is attempted.                    *)
RetryCnt(r) == IF dev[r].fsm = "RETRY" THEN dev[r].cnt + 1 ELSE dev[r].cnt

Fail(r, err) ==
    /\ dev' = [dev EXCEPT ![r] = [@ EXCEPT !.fsm = "FAILED", !.err = err,
                                           !.cnt = RetryCnt(r)]]
    /\ Publish(r, "kRetryError", err, RetryCnt(r))
    /\ UNCHANGED devPort

(* The kernel of the next operator starts: INIT publishes kRuning.         *)
InitProcess(r) ==
    /\ dev[r].fsm = "IDLE"
    /\ dev[r].pc < Len(Prog[r])
    /\ dev' = [dev EXCEPT ![r] = [fsm |-> "LAUNCH", pc |-> dev[r].pc + 1,
                                  err |-> "kNone", cnt |-> 0,
                                  lastCmd |-> "kNone", exc |-> FALSE]]
    /\ d2h' = [d2h EXCEPT ![r] = [status |-> "kRuning", err |-> "kNone",
                                  cnt |-> 0, op |-> Prog[r][dev[r].pc + 1]]]
    /\ UNCHANGED <<h2d, h2dLink, s2a, a2s, used, devPort>>

LaunchProcess(r) ==
    /\ dev[r].fsm = "LAUNCH"
    /\ dev' = [dev EXCEPT ![r] = [@ EXCEPT !.fsm = "WAIT_END"]]
    /\ UNCHANGED <<channels, devPort>>

(* The hardware reports an SDMA task exception that can be retried.        *)
TaskException(r) ==
    /\ dev[r].fsm \in {"LAUNCH", "WAIT_END", "RETRY"}
    /\ ~dev[r].exc
    /\ "sdma" \in Faults
    /\ Spend("fault")
    /\ dev' = [dev EXCEPT ![r] = [@ EXCEPT !.exc = TRUE]]
    /\ UNCHANGED <<h2d, h2dLink, d2h, s2a, a2s, devPort>>

(* The tasks finish: every participant has launched the operator.  The     *)
(* queue is empty before the command word is looked at again.              *)
WaitEndProcess(r) ==
    /\ dev[r].fsm = "WAIT_END"
    /\ ~dev[r].exc
    /\ \A p \in Participants(CurOp(r)) : Launched(p, CurOp(r))
    /\ dev' = [dev EXCEPT ![r] = [@ EXCEPT !.fsm = "IDLE"]]
    /\ Publish(r, "kEnd", "kNone", dev[r].cnt)
    /\ UNCHANGED <<h2d, h2dLink, s2a, a2s, used, devPort>>

(* CheckOpExecStatus says HCCL_E_SUSPENDING, UpdateSuspendStatus reports   *)
(* it.                                                                     *)
Suspend(r) ==
    LET err == IF dev[r].exc THEN "kSdma" ELSE dev[r].err
    IN  /\ dev[r].fsm \in {"LAUNCH", "WAIT_END", "RETRY"}
        /\ dev[r].exc \/ h2d[r] = "kStopLaunch"
        /\ dev' = [dev EXCEPT ![r] = [@ EXCEPT !.fsm = "STOPPING",
                                               !.err = err,
                                               !.cnt = RetryCnt(r)]]
        /\ Publish(r, "kStoplaunch", err, RetryCnt(r))
        /\ UNCHANGED <<h2d, h2dLink, s2a, a2s, used, devPort>>

(* CheckOpExecStatus says HCCL_E_INTERNAL because of kExit.                *)
AbortOnExit(r) ==
    /\ dev[r].fsm \in {"LAUNCH", "WAIT_END", "RETRY"}
    /\ ~dev[r].exc
    /\ h2d[r] = "kExit"
    /\ Fail(r, IF dev[r].fsm = "WAIT_END" THEN "kExec" ELSE "kInner")
    /\ UNCHANGED <<h2d, h2dLink, s2a, a2s, used>>

(* CheckTaskTimeout: the tasks did not finish in time.                     *)
ExecTimeout(r) ==
    /\ dev[r].fsm = "WAIT_END"
    /\ Spend("dev")
    /\ Fail(r, "kExec")
    /\ UNCHANGED <<h2d, h2dLink, s2a, a2s>>

StoppingProcess(r) ==
    /\ dev[r].fsm = "STOPPING"
    /\ \/ /\ h2d[r] \in {"kExit", "kReportRetryErr"}
          /\ Fail(r, "kExit")
       \/ /\ h2d[r] = "kStopExec"
          /\ dev' = [dev EXCEPT ![r] = [@ EXCEPT !.fsm = "STOPPED"]]
          /\ UNCHANGED <<d2h, devPort>>
       \/ /\ h2d[r] = "kChangeLink"
          /\ Fail(r, "kExec")
    /\ UNCHANGED <<h2d, h2dLink, s2a, a2s, used>>

(* The command word is read again.  Where the stream stopped decides       *)
(* whether the operator can be retried: not before its first task and not  *)
(* after its last one, and not when its input was overwritten.             *)
StoppedProcess(r) ==
    /\ dev[r].fsm = "STOPPED"
    /\ \/ /\ h2d[r] \in {"kExit", "kReportRetryErr"}
          /\ Fail(r, "kExit")
       \/ /\ h2d[r] \notin {"kExit", "kReportRetryErr"}
          /\ \E err \in {"kExecConstraint", "kExec"} : Fail(r, err)
       \/ /\ h2d[r] \notin {"kExit", "kReportRetryErr"}
          /\ dev' = [dev EXCEPT ![r] = [@ EXCEPT !.fsm = "WAIT_RETRY",
                                                 !.err = "kNone"]]
          /\ Publish(r, "kStopExec", "kNone", dev[r].cnt)
          /\ UNCHANGED devPort
    /\ UNCHANGED <<h2d, h2dLink, s2a, a2s, used>>

WaitRetryProcess(r) ==
    /\ dev[r].fsm = "WAIT_RETRY"
    /\ \/ /\ h2d[r] = "kRetry"
          /\ dev' = [dev EXCEPT ![r] = [@ EXCEPT !.fsm = "RETRY",
                                                 !.exc = FALSE,
                                                 !.lastCmd = "kRetry"]]
          /\ UNCHANGED <<d2h, devPort>>
       \/ /\ h2d[r] = "kChangeLink"
          /\ dev[r].lastCmd # "kChangeLink"
          /\ dev' = [dev EXCEPT ![r] = [@ EXCEPT !.fsm = "CHANGE_LINK",
                                                 !.lastCmd = "kChangeLink"]]
          /\ UNCHANGED <<d2h, devPort>>
       \/ /\ h2d[r] \in {"kExit", "kReportRetryErr"}
          /\ Fail(r, "kExit")
       \/ /\ h2d[r] \in {"kNone", "kStopLaunch", "kStopExec"}
          /\ dev[r].lastCmd # h2d[r]
          /\ dev' = [dev EXCEPT ![r] = [@ EXCEPT !.lastCmd = h2d[r]]]
          /\ UNCHANGED <<d2h, devPort>>
    /\ UNCHANGED <<h2d, h2dLink, s2a, a2s, used>>

(* The ports are read with a second access of the H2D word.                *)
ChangeLinkProcess(r) ==
    /\ dev[r].fsm = "CHANGE_LINK"
    /\ devPort' = [devPort EXCEPT ![r] = h2dLink[r]]
    /\ dev' = [dev EXCEPT ![r] = [@ EXCEPT !.fsm = "WAIT_RETRY",
                                           !.err = "kNone"]]
    /\ Publish(r, "kChanged", "kNone", dev[r].cnt)
    /\ UNCHANGED <<h2d, h2dLink, s2a, a2s, used>>

RetryProcess(r) ==
    /\ dev[r].fsm = "RETRY"
    /\ dev' = [dev EXCEPT ![r] = [@ EXCEPT !.fsm = "WAIT_END",
                                           !.err = "kNone",
                                           !.cnt = RetryCnt(r)]]
    /\ Publish(r, "kRuning", "kNone", RetryCnt(r))
    /\ UNCHANGED <<h2d, h2dLink, s2a, a2s, used, devPort>>

(* Launching, refreshing the links or launching again fails.               *)
DeviceCallFails(r) ==
    /\ dev[r].fsm \in {"LAUNCH", "CHANGE_LINK", "RETRY"}
    /\ Spend("dev")
    /\ Fail(r, IF dev[r].fsm = "CHANGE_LINK" THEN "kExec" ELSE "kInner")
    /\ UNCHANGED <<h2d, h2dLink, s2a, a2s>>

(* No command for 200 s or more while stopped.                             *)
WaitHostTimeout(r) ==
    /\ dev[r].fsm \in {"STOPPING", "WAIT_RETRY"}
    /\ Spend("dev")
    /\ Fail(r, "kTimeout")
    /\ UNCHANGED <<h2d, h2dLink, s2a, a2s>>

DeviceStep(r) ==
    \/ InitProcess(r)      \/ LaunchProcess(r)    \/ TaskException(r)
    \/ WaitEndProcess(r)   \/ Suspend(r)          \/ AbortOnExit(r)
    \/ ExecTimeout(r)      \/ StoppingProcess(r)  \/ StoppedProcess(r)
    \/ WaitRetryProcess(r) \/ ChangeLinkProcess(r)
    \/ RetryProcess(r)     \/ DeviceCallFails(r)  \/ WaitHostTimeout(r)

DeviceTypeOK ==
    /\ dev \in [Ranks -> Devices]
    /\ \A r \in Ranks : dev[r].pc <= Len(Prog[r])
    /\ devPort \in [Ranks -> PortMap]

=============================================================================
