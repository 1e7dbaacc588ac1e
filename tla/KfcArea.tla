------------------------------- MODULE KfcArea -------------------------------
(***************************************************************************)
(* The state shared by the three parties of the decoupled KFC channel: the  *)
(* AI-core client (HcclClient), the AICPU server (KfcDispatcher) and the    *)
(* task streams of the device (SqStream).  One HcclMsgArea per group holds   *)
(* the message slots, the extension slots and the two turn counters of each *)
(* position (include/collective_comm/device/hccl_msg.h).                    *)
(***************************************************************************)
EXTENDS Integers, Sequences

CONSTANTS
    NGroups,        \* groups (HcclMsgArea's) the operator uses
    MsgCnt,         \* HCCL_MSG_CNT
    MaxHandle,      \* HCCL_MAX_HANDLE_ID
    Repeats,        \* values of Prepare's repeat parameter
    SeqMod,         \* 2^8: width of seqNum
    MaxRetry,       \* MAX_RETRY_CNT
    FinalizeCnt,    \* FINALIZE_FINISH_CNT
    Launches,       \* bound: launches of the operator on the same areas
    MaxTasks        \* bound: Prepare calls that send a message, over all launches

ASSUME NGroupsAssumption == NGroups \in Nat \ {0}
ASSUME MsgCntAssumption == MsgCnt \in Nat \ {0, 1}
ASSUME MaxHandleAssumption == MaxHandle \in Nat \ {0}
\* repeat is a uint8_t (hccl.h:74).
ASSUME RepeatsAssumption == Repeats \subseteq 1 .. 255
ASSUME SeqModAssumption == SeqMod \in Nat \ {0}
ASSUME MaxRetryAssumption == MaxRetry \in Nat
\* The finish marker cannot be mistaken for a number of turns.
ASSUME FinalizeCntAssumption == FinalizeCnt \in Nat \ {0} /\ \A r \in Repeats : r < FinalizeCnt
ASSUME BoundsAssumption == Launches \in Nat \ {0} /\ MaxTasks \in Nat

Groups == 0 .. NGroups - 1
Pos == 0 .. MsgCnt - 1
Handles == 0 .. MaxHandle - 1

VARIABLES
    \* HcclMsgArea of each group
    sendMsgs,           \* message slots
    paramExt,           \* valid flag of the AlltoAllV extension slots
    commitTurnCnt,      \* turns committed, per position: client -> stream
    finishedTurnCnt,    \* turns finished, per position: stream, server -> client
    \* the AI-core program and its Hccl objects
    pc, call,           \* where the current API call is, and its arguments
    primitiveId,        \* static counter: the seqNum of the next Prepare
    curHandleId, curMsgPosition,
    handles,            \* the handleId... tables, one record per handle
    deps,               \* tasks InterHcclGroupSync was called for
    finalized,          \* Finalize was called
    launch,             \* launches of the client so far
    \* the server
    server,             \* "run", "exit" or "fail"
    visit,              \* index of the group the dispatcher visits
    expectSeqNum,
    rcvMsg, msgPos, retryCnt, finalizeFlag, finishFlag,     \* AscCommServerInfo
    handleToMsgPos, handleToRepeat,
    timeout,            \* soft timeouts reported so far
    serverLaunch,
    \* the device streams
    stream,
    \* history: every Prepare call (see KfcTasks)
    tasks

areaVars   == <<sendMsgs, paramExt, commitTurnCnt, finishedTurnCnt>>
clientVars == <<pc, call, primitiveId, curHandleId, curMsgPosition, handles,
                deps, finalized, launch>>
serverVars == <<server, visit, expectSeqNum, rcvMsg, msgPos, retryCnt, finalizeFlag,
                finishFlag, handleToMsgPos, handleToRepeat, timeout, serverLaunch>>
vars == <<areaVars, clientVars, serverVars, stream, tasks>>

----------------------------------------------------------------------------
\* HcclMsg.  A control message has no handle of its own: "sync" carries the
\* handle and the group it depends on, "finalize" only its type.  task is
\* the index of the Prepare call in the history.
MsgTypes == {"none", "prepare", "sync", "finalize"}

Msg == [type : MsgTypes, handle : Handles, repeat : Nat, ext : BOOLEAN,
        dep : Groups, seq : Nat, task : Nat]

\* HcclMsg tmp{}: all fields zero.  A slot without a valid message.
NoMsg == [type |-> "none", handle |-> 0, repeat |-> 0, ext |-> FALSE,
          dep |-> 0, seq |-> 0, task |-> 0]

\* A queue entry of a stream: wait until a counter of a position reaches val
\* (clearing it if last), run one turn of a task, or write val to finishedTurnCnt.
SqeTypes == {"waitCommit", "waitFinish", "kernel", "post"}

Sqe == [type : SqeTypes, group : Groups, pos : Pos, val : Nat, last : BOOLEAN, task : Nat]

\* A row of the client's tables: position, repeat, turns committed, Wait calls.
Handle == [pos : Pos, repeat : Nat, commit : Nat, wait : Nat, task : Nat]

\* The promise of the API, over the same history.
Api == INSTANCE KfcTasks WITH Groups <- Groups, Repeats <- Repeats, Synced <- Groups,
                              tasks <- tasks

\* A counter has 64 bits, of which a number of turns needs the low 16.
Half == 65536

PerGroup(v) == [g \in Groups |-> v]
PerPos(v) == [g \in Groups |-> [p \in Pos |-> v]]

\* The area is allocated cleared, and kept over the launches.
InitArea ==
    /\ sendMsgs = PerPos(NoMsg) /\ paramExt = PerPos(FALSE)
    /\ commitTurnCnt = PerPos(0) /\ finishedTurnCnt = PerPos(0)
=============================================================================
