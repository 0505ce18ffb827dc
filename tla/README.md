# HCOMM: models, checks and proofs

HCOMM is the communication library under HCCL on Ascend devices. This directory
holds TLA+ models of two of its distributed protocols: the fault recovery,
*operator retry*, with the host-device channel it runs on and the set-up of its
sockets; and the *rank table exchange*, by which the ranks of a communicator find
each other.

**Operator retry.** When a task of a collective operator fails on one device (an
SDMA exception, an RDMA completion error), all ranks that take part in the
operator are stopped, their streams, links and notifies are repaired, possibly on
another network port, and the operator is executed again. Three kinds of parties
must agree on every step over sockets and shared memory, and any of them can fail
or be late.

**Rank table exchange.** A thread in the root's process accepts every rank,
gathers their entries into one table and sends it back to all with a pool of
workers; every rank checks what it got. Ranks come in any order, may be
misconfigured, and may die between two messages.

Both are where the repository's own distributed logic is, and where a unit test
reaches least.

Paths below are relative to `src/legacy/ascend910/framework` in the repository's
source directory unless said otherwise; `retry/` stands for
`cluster_maintenance/recovery/operator_retry/`.

## Inventory

| Part | Where | State it owns | Here |
|---|---|---|---|
| Retry server: one thread on the root rank | `retry/opretry_server.cc` | current state, error list, last answer of each rank | `OpRetryServer` (core protocol) |
| Retry agent: one thread per rank | `retry/opretry_agent.cc` | current state, local copy of the device's status, ports | `OpRetryAgent` (core protocol) |
| Device executor of an operator | `device/framework/aicpu_communicator.cc` | state machine of the operator, retry count | `OpRetryDevice` |
| Frames, command and status words | `retry/hccl_op_retry_pub.h`, `retry/opretry_base.*`, `pub_inc/aicpu_operator_pub.h` | sockets and shared words | `OpRetryChannels` |
| Thread loop of the state machines | `retry/opretry_manager.cc` | threads, pause flags | step structure of `OpRetry` |
| Link registry | `retry/opretry_link_manage.cc` | remote ranks per tag and per communicator | `LinkManage` |
| Host-device channel | `platform/resource/mem/hdc.cc` | shared memory, two counters, reader's cache | `HDCommunicate` |
| Heartbeat: completion errors | `cluster_maintenance/health/heartbeat/heartbeat.cc` | errors kept per link | variable `cqe` of `OpRetryAgent` |
| Connection set-up of the retry | `retry/opretry_connection.cc` | instances by group, listener, accept thread, sockets | `OpRetryConnection` |
| Broadcast of the rank table | `src/coll_communicator_mgr/rank_info_detect/rank_info_dispatcher.cc` | task queue, workers, epoll, progress of every socket | `RankInfoDispatcher` |
| Service, client and status of the exchange | the other files there | connections, table, failed ids, status by port | `RankInfoDetect` (not the construction of an entry) |
| Active NIC switch, wait-resume, snapshots | same files as server and agent | further states of both machines | not modelled |
| Cluster monitor | `src/coll_communicator_mgr/dfx` | sockets, error queues | not modelled |
| Collective algorithms, topology, transports, C interface | `algorithm`, `rank_graph`, `base_comm`, `platform`, ... | task lists, graphs, driver handles | not modelled |

`PROJECT.json` lists every part with the reason where one is left out.

## How the parts interact

An agent in `AGENT_RUNNING` looks at the status word of its device and at the
heartbeat's completion errors. An error makes it report (`RESP_AICPU_ERR`). The
server collects reports (`HANDLE_ALL_ERR`), picks an operator and with it the
ranks of the *round*: both ends of a send/receive, or everybody. It then leads
them through nine phases, each a command to every rank and a wait for the answer
of each:

1. `STOP_AICPU`: the device stops launching tasks
2. `STOP_STREAM`: the device stops executing
3. `CLEAR_STREAM`
4. `STOP_TRANSPORT`
5. `CHECK_OPNAME`: every rank reports its operator and count; the server compares
6. `CHECK_LINK`: every rank reports its ports; the server picks one per link
7. `RESUME_TRANSPORT`: links come back, the device is told their ports
8. `RESET_NOTIFY`
9. `CAN_RETRY`: the device re-executes

A failure in any phase leads to `RETRY_FAIL` or `RETRY_CONSTRAINT_FAIL` for all
ranks of the round.

The sockets between server and agents are made when a communicator is
registered: the root listens, its background thread accepts every rank, its own
included, acknowledges it and reads its id; a rank connects, sends its id and
waits for the acknowledgement, again from the start if the socket breaks.

In the exchange, a client sends its id, the communicator size and its entry. The
service reads id and size while it accepts, and the first size it receives is the
number of ranks it waits for. Whatever ends the accepting, it gathers the entries
of those that are there and broadcasts the table with the ids that are missing,
the *last words*. The root's own client in the end waits for a status that the
service publishes.

## Modules

**`OpRetryChannels`** declares the constants, the two shared words per rank
(`h2d`/`h2dLink` and `d2h`), the two FIFO sockets per rank (`s2a`, `a2s`), and
the four frame kinds. The bytes of a frame have no type that its reader checks;
the model's `kind` is what was *written*, and each reading action says what it
expects, so a misread shows. `used` counts how much of each fault budget is
spent.

**`OpRetryDevice`** is the loop of `HcclCommAicpu::Orchestrate`, one action per
state's handler. A transition to the error state, the publication of
`kRetryError` and the return of the kernel are one step, since nothing is read in
between.

**`OpRetryAgent`** and **`OpRetryServer`** have one action per handler and
branch. State names are those of `RetryState` without the prefix. Three are
ours: `WAIT_CHANGE_LINK_PUT` is the point between the two writes of
`SetOpChangeLinkInfo`; `ISSUE_RESUME_TRANSPORT` is the second half of
`CMD_RESUME_TRANSPORT`; `QUIT` is a state machine whose thread has left its loop
because a handler returned an error. The variables `agRound`, `level`, `round`
and `hist`, and the field `round` of a command frame, are history: no guard reads
them except the bound on rounds.

**`OpRetry`** composes the three, and states the properties and the fairness.
`MCOpRetry` defines the small programs of operators for TLC.

**`LinkManage`** has the two maps of `OpretryLinkManage`; every method holds one
mutex, so each branch of a method is one action. The order inside a list is never
read, so a list is a set.

**`HDCommunicate`** takes one step per word copied, on both sides. `Exclusive`
selects the lock: `TRUE` is the plain mutex of the copy of this class for the 950
(`src/legacy/ascend950/framework/communicator/hdc.cc`), `FALSE` the shared lock
that `Get` takes in the 910's.

**`OpRetryConnection`** has one action per step of a rank's `Init` that can
interleave with another rank or with the background thread, and one per step of
that thread. `<<r, n>>` is the n-th socket of rank r; `broken` holds those reset
or closed at either end. A process makes communicators of one group in turn
(`inits`), through `RegisterOpRetryMachine` and `UnRegisterOpRetryManager`, so
that what one leaves behind meets the next. `aborted` is `std::terminate`.

**`RankTableExchange`** is the abstract specification: one table is fixed, once;
a rank that succeeds holds it, finds itself in it, and the table has exactly one
entry for each id below that rank's size. A rank may fail at any time.

**`RankInfoDispatcher`** has the main thread (`mpc`), the workers (`wpc`) and
epoll (`armed`), with a step wherever a lock is released or an atomic is read. A
socket carries `HeaderLen + BodyLen` units; a send moves any part of what is
left. **`RankInfoDetect`** extends it with the service (`spc`), the clients
(`cpc`) and the status. What the application passes to the ranks is part of the
initial state (`cfg`). `Exchange` is the refinement mapping: the table is
`rankTable` from the moment the dispatcher has it, and a client's outcome is its
own.

The modules whose name ends in `Proofs` hold the theorems: one for each component,
for operator retry one with the types and one with the list of errors, and for the
exchange one with the steps of the broadcast (`RankInfoDispatcherProofs`), one with
those of service and clients (`RankInfoDetectProofs`) and one that puts the two
together (`RankInfoExchangeProofs`). Definitions whose name ends in an
underscore and a word (`WaitResp_AnyState`) are deliberately wrong variants,
used to see that a property can fail.

### Abstractions worth knowing

- A broadcast is one step. The sockets are separate queues, so a send that comes
  later is the same as a receiver that reads later. A broadcast that *fails* half
  way is an action of its own (`SendFails`). A failed keep-alive is not modelled.
- Time is a choice: a wait may give up at any moment, within a budget. A poll of
  the device gives up only if its last look found no answer, as in the code.
- A word of shared memory is read and written whole in the retry model. That this
  is justified is what `HDCommunicate` is about; `hdc_shared_lock` shows where it
  is not. The one place where the host splits a message over two words that matter
  to each other (`SetOpChangeLinkInfo`) is split in the model too.
  `SetOpExecCmdWithOpId` also uses two writes, but only batch send/receive reads
  the operator written.
- `isEnableSdmaRetry_` and `isEnableBackupLink_` are on.
- `WaitEndProcess` lets tasks finish as soon as every participant has launched
  the operator, which allows more than the hardware does.
- The memory accesses of `HDCommunicate` take effect in program order (the
  functions are compiled without optimisation, the memory is mapped as device
  memory), and the final copy from the cache to the caller is one step. In the
  shared-lock run this hides some mixtures, never invents one.
- The counters of `HDCommunicate` do not wrap; in the code they are 32 bits wide
  and count Puts.
- In the two set-up protocols every time-out, crash, reset and failing call is a
  *fault* and counts against one budget. A time-out that is certain, because what
  is waited for cannot come any more, is free: otherwise a used-up budget would
  look like a deadlock.
- The order in which `SendOnce` and the gathering visit the sockets is that of a
  hash map, hence any. The clients' messages are three tokens; an entry is its
  rank, since all that the checks compare is in `cfg`.
- A peer that is gone may still let a send pass, as TCP does.

## Runs

| Run | Instance | Checks |
|---|---|---|
| `link_manage` | 2 communicators, 2 tags, 2 ranks | both views of the links agree; no tag loses a link |
| `hdc_exclusive` | 2 words, 2 readers, 2 Puts, 1 failed copy, 1 abandoned update, exclusive lock, fair | a Get that refilled its cache returns one complete Put, not older than its start; a Get returns unless a Put has failed |
| `retry_two_rounds` | 2 ranks, any fault, one failed runtime call, polls give up, 2 rounds | types, `PhaseBarrier`, `QuietWhileRepairing`, `FramesReadAsSent` |
| `retry_send_recv` | 3 ranks, a send/receive beside a collective, 2 faults, a half broadcast, a wait time-out | `PhaseBarrier`, `ReportedErrorsKept` |
| `retry_decisions` | 2 ranks, 2 collectives, either port down at any rank, 2 faults, a device time-out, 2 rounds, limit 1 | `PhaseBarrier`, `QuietWhileRepairing` and the server's three decisions: `SameOpRetried`, `HostPortsAgree`, `RetryCountBounded` |
| `retry_liveness` | 2 ranks, polls give up, fair | `RoundEnds`, `MembersReleased`, `EarlyFailReachesAll` |
| `retry_connect` | 3 ranks, 2 communicators in turn, 3 sockets per rank, 2 faults | types, `SocketsMatched`, `CleanSetupSucceeds`, no deadlock |
| `rank_info_exchange` | 2 ranks, 2 workers, a header and a body unit; well configured with 1 fault, or one of four misconfigurations; fair | the refinement `ImplementsExchange`, `ExchangeEnds`, and the invariants below; no deadlock |

`PhaseBarrier` is the property that makes the retry sound: no rank executes the
command of a phase before every rank of the round has completed the phase before.
It is not obvious, because frames carry no round number: an answer left over from
a round that failed is read by the next one. In round k it holds from phase k + 1
on, and not before. A `RESP_AICPU_STOPED` left from a failed first round is
counted in the second, so a rank may be told to stop its streams while another has
not stopped launching. The third phase repairs this, since its answers cannot be
old in the same way (`STOP_STREAM` is only executed after `STOP_AICPU` of the same
round). But every round that is given up may leave an answer of one phase more, so
that in a third round the third phase is not safe either: TLC finds a behaviour of
three rounds in which one rank has cleared its streams before the other has begun
the round. The runs here have at most two rounds.
`QuietWhileRepairing` says what the barrier is for: no device of the
round executes while any rank repairs.

`ImplementsExchange` says that the exchange is all-or-nothing where it matters:
however sockets, workers, deaths and misconfiguration interleave, ranks that
succeed hold the same complete table. It rests on the client's own checks, since
the service sends an incomplete table as its last words. `ExchangeEnds` says that
nobody is left waiting: the workers can be joined however the broadcast ended, and
the root's client gets its status. The other properties are the reasons:
`NoTaskStranded` (a queued task always finds a worker that is awake, although
`ready_` is set and cleared under different mutexes), `OneWriterPerSocket` (what
one-shot events are for), `SuccessMeansSent` (the count raised by several threads
counts every socket once), `SocketsOutliveWorkers`, `LastWordsExact` and
`CleanExchangeSucceeds` (no order of steps makes a healthy exchange fail).

`SocketsMatched` is about a rank that has to connect again: once both sides have
succeeded, the server's socket for a rank is the other end of the agent's. It
holds because the root gives up when an id comes a second time.

### Runs that show a disagreement

| Run | What the code says of itself | What happens |
|---|---|---|
| `retry_link_fail` | "could not retry, command all rank" | after the link check agents read the fail command as the start of a `ChangeLinkInfo` and their threads end |
| `retry_device_ports` | after rebuilding the links, tell the aicpu to switch | the device can read the ports between the two writes and acknowledges the old ones |
| `retry_force_new` | `forceNew` releases an instance that exists | `emplace` keeps it; after a failed set-up the root starts a thread over an unjoined one and the process ends |
| `hdc_shared_lock` | data with differing counts is discarded | two readers under the shared lock refill one cache at once |

The quotes, with their lines, are in `PROJECT.json`.

A related limit of the design shows in the model but contradicts no document: in
the last phase ranks answer one by one and return to `AGENT_RUNNING`. If another
rank then fails the phase, the fail command is dropped by those that are through.
`EarlyFailReachesAll` therefore speaks of the phases before the link check.

Two more disagreements are in the models without a run of their own.
`ProcessError` of the agent says that the error will be reported to the server
(`retry/opretry_agent.cc:105`), but the thread ends before the reporting state
runs: `QUIT` is final. And an update of the `HDCommunicate` cache that was given
up leaves the new tail count with an old or mixed content, which the next `Get`
takes for current; `UpdatedGetIsSnapshot` excludes exactly that case, and `GetIsSnapshot`,
which does not, fails in it even under the exclusive lock.

### Bounds

Two ranks are the smallest number with a peer to wait for, and three the
smallest where a round leaves a rank out. One fault starts a round; the second
round of `retry_two_rounds` is started by what the first one left behind, which is
the interesting case for stale answers. `MaxQueue = 1` limits only the keep-alive
commands, which carry nothing; phase commands are never dropped by the bound.
`RetryMaxCnt` is 2 where it must not interfere and 1 where it is the subject. In
`HDCommunicate`, two words are what a mixture needs; with the initial content, two
Puts allow one before and one during an update, or one that fails and one that
repairs it. `SnapshotTheorem` covers every larger number.

In `retry_connect` three ranks allow the root, a rank that connects again and one
that is still to come; two communicators are what a leftover needs; two faults
break a handshake and its repetition. In `rank_info_exchange` two ranks and two
workers are the smallest instance where a socket finishes while another is
unfinished and two workers compete for tasks; a message of two units can stop
between header and body, and a send of nothing makes a third round through epoll.
The bound on faults is part of a configuration, so that misconfigured ranks are
checked without multiplying them by every fault.

Deadlock is not checked in the retry and channel runs (it is in `link_manage`,
`retry_connect` and `rank_info_exchange`): an application that
launches no more operators, and a bound that is used up, end the system
legitimately. `RoundEnds` and `MembersReleased` say that it does not stop in the
middle of a round.

### Fairness

`FairSpec` of `OpRetry` assumes weak fairness of each thread and each device
kernel: they are loops with a bounded sleep. A poll that finds no answer does
give up: it counts five seconds. Nothing is assumed of faults, failing calls, of
the application launching an operator, of tasks finishing, or of the long
time-outs. `FairSpec` of `HDCommunicate` assumes that a thread inside `Put` or
`Get` runs on; with finitely many Puts the counters then agree at last. A writer
that never pauses could keep a reader busy until its ten seconds are over, which
is why that time-out exists. `Fairness` of `RankInfoDetect` assumes that the
service's thread, each worker, and the clients go on wherever they can without a
fault: they are threads that block only on what the model has. Faults are never
forced. A client's process also reads what has arrived (`Drain`), without which a
full socket would stay full.

## Proofs

All theorems are checked by TLAPS down to the last leaf, for every value of the
constants that satisfies the named assumptions. The assumptions on constants are
types, finiteness of the sets of ranks, and two that say something of the code:
`OwnProgAssumption` (a rank takes part in the operators it runs, which is what
`InitSendRecvOpId` establishes when an operator starts) and `MaxInits <=
MaxSockets` in `OpRetryConnection` (the bound on sockets leaves one for every
communicator a rank makes; a bound of the model, which the code does not have).
Each proof module names the provers of its leaves once, in a `USE`; the leaves that
need another name it.

**`LinkManageProofs`.** `GroupViewIsExact`: the views agree in every state. The
invariant `ViewsAgree` adds that both maps have the same domain; the lemma
`UnionWith` says what extending a map does to the union of its values.
`RegistryTypes`: both maps keep their type; since they are partial and nested,
the invariant `Typed` says it entry by entry. `LinksOnlyGrow`: the action property
`TagListOnlyGrows`, for every step and without an invariant.

**`HDCommunicateProofs`.** `CounterTypes`, under either lock. `SnapshotTheorem`,
under `Exclusive`: the property speaks of a value that was returned, so it is far
from inductive. `IInv` adds: the order of the four counters, and that equal
counters mean complete content (`WriterInv`); at most one reader inside `Get`
(`OneAtATime`); what a reader knows at each step (`ReaderInv`): as long as
`head_cnt` still equals the cached `tail_cnt`, no Put has begun since, so the
words copied are the words shared; and that the cache is complete between two Gets
unless an update was given up (`CacheInv`). Neither the last condition nor
`Exclusive` can be dropped (`hdc_shared_lock`).

**`OpRetryProofs`.** `TypeCorrect`, one lemma per action. It is more than
bookkeeping: state names index the tables `RespNext`, `AwaitedCmd`,
`IssueStates` and `WaitStates`, frames are unions of record types, and the ranks
of a round come out of a received frame.

**`OpRetryErrorProofs`.** `ErrorsKept`, that is `Spec => ReportedErrorsKept`: an
error leaves the server's list only through a round in which its rank takes part.
The server strikes off the reporting rank and the peer named in the *reported*
operator. So the argument needs that a reported operator is always one in which
the reporting rank takes part, wherever it is kept on the way: in the status word,
in the agent's copy, in a frame and in the list (`OwnOps`).

**`OpRetryConnectionProofs`.** `ConnectionTypes` and `SocketsMatch` from `IInv`:
where the socket of a rank that has been acknowledged can be (`Acknowledged`:
entered, in the hands of the background thread, of a thread that has failed, or
left from the session before), what the thread leaves behind when it ends
(`ThreadInv`) and what the root has seen when it is through (`RootInv`). The last
case is why the property asks that both are at the same communicator.
`CleanSetups` from `CleanInv`: without a fault every rank is at one of five places
relative to the root's communicator (`Place`), a socket is in the listener, in the
thread's hands or entered but never in two of them (`Waiting`, `InHand`), and the
thread's count is the number of ranks not entered (`Counted`), so that it neither
stops early nor waits in vain.

**`RankInfoDispatcherProofs` and `RankInfoDetectProofs`, put together in
`RankInfoExchangeProofs`.** The invariant of the broadcast, `DispInv`, says that a
send in flight is in at most one place: the main thread's list, the queue, one
worker's hands or epoll (`OnePlace`); that the count is the number of finished
sockets (`CountInv`); and that a queued task finds a worker that is awake or will
be woken (`NoTaskStranded` is inductive with the threads' program counters). From
it follow `TasksNotStranded`, `WritersExclusive`, `SuccessIsComplete` and, with
the service's phases, `WorkersJoinedFirst`. The invariant of the service,
`DetectInv`, ties its phases to those of the broadcast (`PhaseInv`), says where a
socket is (`SocketInv`), what is read next from it (`MessageInv`), how many are
still expected (`ExpectInv`) and which ids are missing (`LastWordsInv`):
`DetectTypes` and `LastWords` follow. `DetectImplementsExchange` is the refinement
`ImplementsExchange` for any number of ranks and workers, any lengths, faults and
misconfigurations: initial states map to initial states (`InitMapped`) and every
step to a step of `RankTableExchange` or a stutter (`StepMapped`); what carries it
is that a client that is through has checked the table that was sent, and that the
table no longer changes once the dispatcher has it. `CleanExchanges`: a healthy
exchange never fails; its invariant follows every client from its first message to
the end, and uses that ranks of which there are as many as the size have all the
ids (`AllIds`, a pigeonhole argument from the theorems on finite sets).

**Only model-checked.** All liveness (`RoundEnds`, `MembersReleased`,
`EarlyFailReachesAll`, `ExchangeEnds`, the return of a Get) is outside the
prover's reach. In the retry, `PhaseBarrier` and what rests on it
(`QuietWhileRepairing`, `SameOpRetried`, `HostPortsAgree`) need an invariant over
all commands, work and answers that are in flight between server and agent, from
every round that may still have left something; `FramesReadAsSent` and
`RetryCountBounded` need the part of it that says which frames can be next. That
proof is not part of this project yet.

## Not modelled

In the retry: batch send/receive (two operators per rank and a remaining one of
each side), the active NIC switch, wait-resume and snapshots, loss of a retry
socket in use (`disableAgent_`), the NsRecovery stop. Wait-resume and the NIC
switch reuse the sockets of the retry with further frame kinds; they can interrupt
a round at any point, and nothing in the code separates the frames of the
interrupted round from their own, so few properties would hold of them beyond
those of the retry itself. In the set-up: white lists, an acknowledgement from a
foreign listener, the switch `enable_`.

In the exchange: the construction of a rank's entry and its content, several
exchanges through one port, more than 20 epoll events at once.

Elsewhere: the collective algorithms, topology, transports, resources and the C
interface, which are either data transformation or driver calls.

## Plan

1. Proofs: `PhaseBarrier` from the invariant over what is in flight, then
   `FramesReadAsSent`, `RetryCountBounded` and `QuietWhileRepairing`.
2. An abstract specification of a retry round, a sequence of barriers with a
   common outcome, and `OpRetry` shown to implement it where the code does.
3. Wait-resume with the uninitialised command as a choice and the plain flags
   written by another thread; the active NIC switch; batch send/receive.
4. Two rounds with three ranks, loss of a socket, two exchanges through one port.
