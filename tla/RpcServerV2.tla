----------------------------- MODULE RpcServerV2 -----------------------------
(***************************************************************************)
(* The other server of the message areas: AicpuKfcRpcServerV2 and the loop   *)
(* RunRpcServerInnerProcessV2 that visits the groups of a launch            *)
(* (framework/aicpu_kfc_rpc_serverv2.cc, aicpu_kfc_process.cc), with one     *)
(* queue per group.  One iteration of RunRpcServerLoopProcess is one action. *)
(*                                                                          *)
(* It keeps its state in the variables of KfcArea: expectSeqNum is           *)
(* g_expectPrepareId, retryCnt is 1 when needReProcess_ is set, rcvMsg the   *)
(* contents of the slot last taken, finalizeFlag isFinalize_, finishFlag     *)
(* finalizeMask, handleToMsgPos handleIdMsgPosition_, and handleToRepeat     *)
(* repeatCnt_ at that position.                                             *)
(***************************************************************************)
EXTENDS KfcArea

VARIABLE buffered   \* queue entries of a main stream that LaunchTask has not sent yet

NotSeen == -1       \* handleIdMsgPosition_ after Reset

\* Init of the server of each group: Reset.  The expected number belongs to the
\* thread, and neither it nor needReProcess_ is among what Reset sets.
ResetServers ==
    /\ msgPos' = PerGroup(0)
    /\ finalizeFlag' = PerGroup(FALSE)
    /\ handleToMsgPos' = [g \in Groups |-> [h \in Handles |-> NotSeen]]

InitServer ==
    /\ server = "run" /\ serverLaunch = 1 /\ visit = 0
    /\ expectSeqNum = 0 /\ retryCnt = PerGroup(0) /\ rcvMsg = PerGroup(NoMsg)
    /\ msgPos = PerGroup(0)
    /\ finalizeFlag = PerGroup(FALSE) /\ finishFlag = PerGroup(FALSE)
    /\ handleToMsgPos = [g \in Groups |-> [h \in Handles |-> NotSeen]]
    /\ handleToRepeat = [g \in Groups |-> [h \in Handles |-> 0]]
    /\ timeout = PerGroup(0)
    /\ buffered = PerGroup(<<>>)

\* The next operator's server kernel.
Relaunch ==
    /\ server = "exit" /\ serverLaunch < Launches
    /\ server' = "run" /\ serverLaunch' = serverLaunch + 1 /\ visit' = 0
    /\ ResetServers
    /\ finishFlag' = PerGroup(FALSE)
    /\ UNCHANGED <<areaVars, expectSeqNum, rcvMsg, retryCnt, handleToRepeat, timeout,
                   stream, buffered, tasks>>

----------------------------------------------------------------------------
NextGroup(g) == visit' = (g + 1) % NGroups

\* The loop is at a group that is not over.
At(g) ==
    /\ server = "run" /\ visit = g /\ ~finishFlag[g]
    /\ UNCHANGED <<serverLaunch, timeout>>

\* ReadValidMsg: a message that is processed again is the slot as it is now, valid
\* or not; a new one needs its valid mask, and AlltoAllV its extension's.
SlotNow(g) == IF sendMsgs[g][msgPos[g]] # NoMsg THEN sendMsgs[g][msgPos[g]] ELSE rcvMsg[g]

Readable(g) ==
    \/ retryCnt[g] = 1
    \/ /\ sendMsgs[g][msgPos[g]] # NoMsg
       /\ sendMsgs[g][msgPos[g]].ext => paramExt[g][msgPos[g]]

GiveBack(g) ==
    IF retryCnt[g] = 1 THEN UNCHANGED <<sendMsgs, paramExt>>
    ELSE /\ sendMsgs' = [sendMsgs EXCEPT ![g][msgPos[g]] = NoMsg]
         /\ paramExt' = [paramExt EXCEPT ![g][msgPos[g]] = @ /\ ~SlotNow(g).ext]

Process(g, type) ==
    /\ At(g) /\ ~finalizeFlag[g]
    /\ Readable(g) /\ SlotNow(g).type = type
    /\ GiveBack(g)
    /\ rcvMsg' = [rcvMsg EXCEPT ![g] = SlotNow(g)]
    /\ UNCHANGED <<commitTurnCnt, finishedTurnCnt, finishFlag>>

\* SetMsgEnableFlag(true): the loop stays at the group for its next message.
Proceed(g) ==
    /\ retryCnt' = [retryCnt EXCEPT ![g] = 0]
    /\ msgPos' = [msgPos EXCEPT ![g] = (@ + 1) % MsgCnt]
    /\ UNCHANGED <<server, visit, finalizeFlag>>

\* HCCL_E_UNAVAIL: the message is processed again when the loop comes back, as
\* often as it takes.
ProcessAgain(g) ==
    /\ retryCnt' = [retryCnt EXCEPT ![g] = 1]
    /\ NextGroup(g)
    /\ UNCHANGED <<server, expectSeqNum, msgPos, finalizeFlag, handleToMsgPos,
                   handleToRepeat, stream, buffered, tasks>>

Fail ==
    /\ server' = "fail"
    /\ UNCHANGED <<visit, expectSeqNum, retryCnt, msgPos, finalizeFlag, handleToMsgPos,
                   handleToRepeat, stream, buffered, tasks>>

\* LaunchTask sends what was buffered for the stream, and sqes after it.
LaunchTask(g, sqes) ==
    /\ stream' = [stream EXCEPT ![g] = @ \o buffered[g] \o sqes]
    /\ buffered' = [buffered EXCEPT ![g] = <<>>]

----------------------------------------------------------------------------
\* ProcessExpectPrepareMsg.  0 is taken for the first message after another
\* group's FINALIZE, whatever is expected.
FinalizedEarly(m) == m.seq = 0 /\ expectSeqNum > 0
Ahead(m) == m.seq > expectSeqNum
Behind(m) == m.seq < expectSeqNum /\ ~FinalizedEarly(m)

\* A mutant of NotAhead: a later message is not held back.
TakenAhead(m) == TRUE

NotAhead(m) == ~Ahead(m)

\* A mutant of TurnSqes: the turn does not wait for its Commit.
NoNotifyWait(g, p, m) ==
    [i \in 1 .. 2 * m.repeat |->
        [type |-> IF i % 2 = 1 THEN "kernel" ELSE "post",
         group |-> g, pos |-> p, val |-> (i + 1) \div 2, last |-> FALSE, task |-> m.task]]

\* AddTaskForHcclMsgV2: for each turn KfcNotifyWait, the collective, KfcNotifyPost.
\* No wait is the last: the counts of commits are cleared with FINALIZE.
TurnSqes(g, p, m) ==
    [i \in 1 .. 3 * m.repeat |->
        [type |-> CASE i % 3 = 1 -> "waitCommit" [] i % 3 = 2 -> "kernel" [] OTHER -> "post",
         group |-> g, pos |-> p, val |-> (i + 2) \div 3, last |-> FALSE, task |-> m.task]]

PrepareTask(g) ==
    LET m == SlotNow(g) IN
    /\ Process(g, "prepare")
    /\ NotAhead(m) /\ ~Behind(m)
    /\ LaunchTask(g, TurnSqes(g, msgPos[g], m))
    /\ handleToMsgPos' = [handleToMsgPos EXCEPT ![g][m.handle] = msgPos[g]]
    /\ handleToRepeat' = [handleToRepeat EXCEPT ![g][m.handle] = m.repeat]
    /\ expectSeqNum' = (m.seq + 1) % SeqMod
    /\ tasks' = [tasks EXCEPT ![m.task].launched = TRUE]
    /\ Proceed(g)

PrepareAhead(g) == Process(g, "prepare") /\ ~NotAhead(SlotNow(g)) /\ ProcessAgain(g)

PrepareBehind(g) == Process(g, "prepare") /\ Behind(SlotNow(g)) /\ Fail

\* AddTaskForGroupSyncMsg: the wait stays in the buffer until the next task of the
\* group, or its FINALIZE, is launched.
HandleSeen(m) == handleToMsgPos[m.dep][m.handle] # NotSeen

\* A mutant of SyncWait: the count of one turn.
WaitOneTurn(m) ==
    [type |-> "waitFinish", group |-> m.dep, pos |-> handleToMsgPos[m.dep][m.handle],
     val |-> 1, last |-> FALSE, task |-> 0]

SyncWait(m) ==
    [type |-> "waitFinish", group |-> m.dep, pos |-> handleToMsgPos[m.dep][m.handle],
     val |-> handleToRepeat[m.dep][m.handle], last |-> FALSE, task |-> 0]

GroupSync(g) ==
    LET m == SlotNow(g) IN
    /\ Process(g, "sync")
    /\ HandleSeen(m)
    /\ buffered' = [buffered EXCEPT ![g] = Append(@, SyncWait(m))]
    /\ Proceed(g)
    /\ UNCHANGED <<expectSeqNum, handleToMsgPos, handleToRepeat, stream, tasks>>

GroupSyncAgain(g) == Process(g, "sync") /\ ~HandleSeen(SlotNow(g)) /\ ProcessAgain(g)

\* A mutant of ResetCommitTask: the counts of commits stay.
KeepCommits(g) == <<>>

\* ResetCommitTaskAdd: a wait for 0 that clears the count, for each position used.
ResetCommitTask(g) ==
    [i \in 1 .. msgPos[g] |->
        [type |-> "waitCommit", group |-> g, pos |-> i - 1, val |-> 0, last |-> TRUE,
         task |-> 0]]

\* The position stays at FINALIZE; the numbers of all groups start again.
FinalizeMsg(g) ==
    /\ Process(g, "finalize")
    /\ finalizeFlag' = [finalizeFlag EXCEPT ![g] = TRUE]
    /\ LaunchTask(g, ResetCommitTask(g))
    /\ expectSeqNum' = 0
    /\ UNCHANGED <<server, visit, msgPos, retryCnt, handleToMsgPos, handleToRepeat, tasks>>

----------------------------------------------------------------------------
Unmoved == <<areaVars, expectSeqNum, rcvMsg, msgPos, retryCnt, finalizeFlag,
             handleToMsgPos, handleToRepeat, timeout, serverLaunch, stream, buffered, tasks>>

\* ReadAddrMsg finds nothing, or the stream of a finalized group is not done.
NothingRead(g) ==
    /\ At(g)
    /\ IF finalizeFlag[g] THEN stream[g] # <<>> ELSE ~Readable(g)
    /\ NextGroup(g)
    /\ UNCHANGED <<server, finishFlag, Unmoved>>

\* A mutant of StreamDone: the check of the stream is left out.
AnyStream(g) == TRUE

\* CheckFinishByStream: the head of the main stream's queue is at its tail.
StreamDone(g) == stream[g] = <<>>

\* RpcServerPreCheck of a finalized group: WriteFinishWhenAllFinalize.
GroupDone(g) ==
    /\ At(g) /\ finalizeFlag[g] /\ StreamDone(g)
    /\ finishedTurnCnt' = [finishedTurnCnt EXCEPT ![g][msgPos[g]] = FinalizeCnt]
    /\ finishFlag' = [finishFlag EXCEPT ![g] = TRUE]
    /\ NextGroup(g)
    /\ UNCHANGED <<sendMsgs, paramExt, commitTurnCnt, server, expectSeqNum, rcvMsg, msgPos,
                   retryCnt, finalizeFlag, handleToMsgPos, handleToRepeat, stream, buffered,
                   tasks>>

SkipGroup(g) ==
    /\ server = "run" /\ visit = g /\ finishFlag[g]
    /\ \E g2 \in Groups : ~finishFlag[g2]
    /\ NextGroup(g)
    /\ UNCHANGED <<server, finishFlag, Unmoved>>

\* A round over the groups that finds all of them masked ends the loop.
LoopEnds ==
    /\ server = "run" /\ \A g \in Groups : finishFlag[g]
    /\ server' = "exit"
    /\ UNCHANGED <<visit, finishFlag, Unmoved>>

\* CheckMsgTimeOut at the end of a round, KERNEL_TIMEOUT after the start.
KernelTimedOut ==
    /\ server = "run" /\ visit = 0
    /\ server' = "fail"
    /\ UNCHANGED <<visit, finishFlag, Unmoved, clientVars>>

LoopProcess(g) ==
    \/ PrepareTask(g) \/ PrepareAhead(g) \/ PrepareBehind(g)
    \/ GroupSync(g) \/ GroupSyncAgain(g)
    \/ FinalizeMsg(g) \/ GroupDone(g) \/ NothingRead(g) \/ SkipGroup(g)

ServerNext ==
    /\ Relaunch \/ LoopEnds \/ \E g \in Groups : LoopProcess(g)
    /\ UNCHANGED clientVars
=============================================================================
