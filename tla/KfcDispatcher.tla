---------------------------- MODULE KfcDispatcher ----------------------------
(***************************************************************************)
(* The AICPU server of a launch: CommKfcDispatcher::Run visits the groups   *)
(* in turn; a visit is GroupServerProcess (decoupler/comm_kfc_dispatcher.cc *)
(* and comm_kfc_aicpu_server.cc).  A visit touches the shared area at one   *)
(* position of one group, and is one action.                                *)
(***************************************************************************)
EXTENDS KfcArea

CONSTANTS
    Legacy,         \* the resource type is LEGACY, not NEXT_AICPU
    TimeoutsFire    \* waits may exceed the timeouts of CheckTimeOut

ASSUME ServerConstants == Legacy \in BOOLEAN /\ TimeoutsFire \in BOOLEAN

Unknown == -1   \* no entry in handleIdToMsgPos_, handleIdToRepeat_
MaxTimeout == 2 \* timeout_ is 30, 60 and then TIMEOUT_ERROR_THRESHOLD = 120

FreshServer ==
    [visit |-> 0, expectSeqNum |-> 0, rcvMsg |-> PerGroup(NoMsg), msgPos |-> PerGroup(0),
     retryCnt |-> PerGroup(0), flag |-> PerGroup(FALSE), timeout |-> PerGroup(0),
     table |-> [g \in Groups |-> [h \in Handles |-> Unknown]]]

InitServer ==
    /\ server = "run" /\ serverLaunch = 1
    /\ visit = 0 /\ expectSeqNum = 0
    /\ rcvMsg = FreshServer.rcvMsg /\ msgPos = FreshServer.msgPos
    /\ retryCnt = FreshServer.retryCnt /\ timeout = FreshServer.timeout
    /\ finalizeFlag = FreshServer.flag /\ finishFlag = FreshServer.flag
    /\ handleToMsgPos = FreshServer.table /\ handleToRepeat = FreshServer.table

\* The next operator's server kernel: Run with a new serverList.
RestartServer ==
    /\ server = "exit" /\ serverLaunch < Launches
    /\ server' = "run" /\ serverLaunch' = serverLaunch + 1
    /\ visit' = 0 /\ expectSeqNum' = 0
    /\ rcvMsg' = FreshServer.rcvMsg /\ msgPos' = FreshServer.msgPos
    /\ retryCnt' = FreshServer.retryCnt /\ timeout' = FreshServer.timeout
    /\ finalizeFlag' = FreshServer.flag /\ finishFlag' = FreshServer.flag
    /\ handleToMsgPos' = FreshServer.table /\ handleToRepeat' = FreshServer.table
    /\ UNCHANGED <<areaVars, stream, tasks>>

----------------------------------------------------------------------------
Visit(g) ==
    /\ server = "run" /\ visit = g
    /\ visit' = (g + 1) % NGroups
    /\ UNCHANGED serverLaunch

\* GetCurrentMsg: a message being retried, or else the slot at msgPos.
HasMsg(g) == retryCnt[g] > 0 \/ sendMsgs[g][msgPos[g]] # NoMsg
CurrentMsg(g) == IF retryCnt[g] > 0 THEN rcvMsg[g] ELSE sendMsgs[g][msgPos[g]]

\* A mutant of TakeMsg: the valid mask is not cleared.
SlotNotGivenBack(g) == UNCHANGED <<sendMsgs, paramExt>>

\* ReadMsgFromMemory: copy the slot and give it back, the extension too, which is
\* there (ExtensionFirst; without it the message, given back already, would be lost).
TakeMsg(g) ==
    IF retryCnt[g] > 0 THEN UNCHANGED <<sendMsgs, paramExt>>
    ELSE /\ sendMsgs' = [sendMsgs EXCEPT ![g][msgPos[g]] = NoMsg]
         /\ paramExt' = [paramExt EXCEPT ![g][msgPos[g]] = @ /\ ~CurrentMsg(g).ext]

\* A message of a type is handled, unless it was retried too often.
Serve(g, type) ==
    /\ Visit(g)
    /\ ~finalizeFlag[g] /\ HasMsg(g) /\ retryCnt[g] <= MaxRetry
    /\ CurrentMsg(g).type = type
    /\ TakeMsg(g)
    /\ UNCHANGED <<commitTurnCnt, finishedTurnCnt, server, finishFlag, timeout>>

\* The copy is kept for a retry only.
NextMsg(g) ==
    /\ rcvMsg' = [rcvMsg EXCEPT ![g] = NoMsg]
    /\ msgPos' = [msgPos EXCEPT ![g] = (@ + 1) % MsgCnt]
    /\ retryCnt' = [retryCnt EXCEPT ![g] = 0]

RetryMsg(g) ==
    /\ rcvMsg' = [rcvMsg EXCEPT ![g] = CurrentMsg(g)]
    /\ retryCnt' = [retryCnt EXCEPT ![g] = @ + 1]
    /\ UNCHANGED <<msgPos, expectSeqNum, finalizeFlag, handleToMsgPos, handleToRepeat,
                   stream, tasks>>

Enqueue(g, sqes) == stream' = [stream EXCEPT ![g] = @ \o sqes]

----------------------------------------------------------------------------
\* A mutant of InSequence: messages are taken as they come.
AnyOrder(m) == TRUE

InSequence(m) == m.seq = expectSeqNum

\* A mutant of TaskSqes: the turn is posted before it runs.
PostBeforeKernel(g, p, m) ==
    [i \in 1 .. 3 * m.repeat |->
        LET turn == (i + 2) \div 3 IN
        [type |-> CASE i % 3 = 1 -> "waitCommit" [] i % 3 = 2 -> "post" [] OTHER -> "kernel",
         group |-> g, pos |-> p, val |-> turn, last |-> turn = m.repeat, task |-> m.task]]

\* Orchestrate: for each turn, wait for the commit, run the kernel, post.
TaskSqes(g, p, m) ==
    [i \in 1 .. 3 * m.repeat |->
        LET turn == (i + 2) \div 3 IN
        [type |-> CASE i % 3 = 1 -> "waitCommit" [] i % 3 = 2 -> "kernel" [] OTHER -> "post",
         group |-> g, pos |-> p, val |-> turn, last |-> turn = m.repeat, task |-> m.task]]

PrepareProcess(g) ==
    LET m == CurrentMsg(g) IN
    /\ Serve(g, "prepare")
    /\ InSequence(m)
    /\ Enqueue(g, TaskSqes(g, msgPos[g], m))
    /\ handleToMsgPos' = [handleToMsgPos EXCEPT ![g][m.handle] = msgPos[g]]
    /\ handleToRepeat' = [handleToRepeat EXCEPT ![g][m.handle] = m.repeat]
    /\ NextMsg(g)
    /\ expectSeqNum' = expectSeqNum + 1
    /\ tasks' = [tasks EXCEPT ![m.task].launched = TRUE]
    /\ UNCHANGED finalizeFlag

\* Another group's message comes first.
PrepareRetry(g) == Serve(g, "prepare") /\ ~InSequence(CurrentMsg(g)) /\ RetryMsg(g)

\* syncExecCtx_ points into execCtxList_ of a server that CreateServerList copies
\* when the list grows: only the server of the last group is certain not to be copied
\* after AddOpContext.
Synced == {NGroups - 1}

\* The stream that is made to wait: of any other group syncExecCtx_ points to freed
\* memory, which holds the old context still or that of another group.
SyncStreams(g) == IF g \in Synced THEN {g} ELSE Groups

\* GetServerInfoForSync finds the handle, and the stream waits for its last turn.

SyncKnown(m) == handleToMsgPos[m.dep][m.handle] # Unknown

\* A mutant of SyncSqe: the first turn of the task suffices.
FirstTurnOnly(m) ==
    [type |-> "waitFinish", group |-> m.dep, pos |-> handleToMsgPos[m.dep][m.handle],
     val |-> 1, last |-> FALSE, task |-> 0]

SyncSqe(m) ==
    [type |-> "waitFinish", group |-> m.dep, pos |-> handleToMsgPos[m.dep][m.handle],
     val |-> handleToRepeat[m.dep][m.handle], last |-> FALSE, task |-> 0]

InterGroupSyncProcess(g) ==
    LET m == CurrentMsg(g) IN
    /\ Serve(g, "sync")
    /\ SyncKnown(m) /\ ~Legacy
    /\ \E s \in SyncStreams(g) : Enqueue(s, <<SyncSqe(m)>>)
    /\ NextMsg(g)
    /\ UNCHANGED <<expectSeqNum, finalizeFlag, handleToMsgPos, handleToRepeat, tasks>>

InterGroupSyncRetry(g) == Serve(g, "sync") /\ ~SyncKnown(CurrentMsg(g)) /\ RetryMsg(g)

\* The group's position stays at FINALIZE.
FinalizeProcess(g) ==
    /\ Serve(g, "finalize")
    /\ finalizeFlag' = [finalizeFlag EXCEPT ![g] = TRUE]
    /\ UNCHANGED <<rcvMsg, msgPos, retryCnt, expectSeqNum, handleToMsgPos, handleToRepeat,
                   stream, tasks>>

\* A mutant of LastToFinish: the groups are counted before this visit.
CountedBefore(g) == \A g2 \in Groups : finishFlag[g2]

\* Run returns when every group server is done.
LastToFinish(g) == \A g2 \in Groups \ {g} : finishFlag[g2]

\* IsAllTaskFinished: on NEXT_AICPU the tasks are "treated as finished".
GroupFinish(g) ==
    /\ Visit(g)
    /\ finalizeFlag[g] /\ ~finishFlag[g] /\ ~Legacy
    /\ finishedTurnCnt' = [finishedTurnCnt EXCEPT ![g][msgPos[g]] = FinalizeCnt]
    /\ finishFlag' = [finishFlag EXCEPT ![g] = TRUE]
    /\ server' = IF LastToFinish(g) THEN "exit" ELSE "run"
    /\ UNCHANGED <<sendMsgs, paramExt, commitTurnCnt, expectSeqNum, rcvMsg, msgPos, retryCnt,
                   finalizeFlag, handleToMsgPos, handleToRepeat, timeout, stream, tasks>>

----------------------------------------------------------------------------
\* Visits that do nothing, and the ways a visit ends Run with an error.
OtherServerVars == <<expectSeqNum, rcvMsg, msgPos, retryCnt, finalizeFlag, finishFlag,
                     handleToMsgPos, handleToRepeat, stream, tasks, areaVars>>

Finished(g) == finishFlag[g] /\ Visit(g) /\ UNCHANGED <<server, timeout, OtherServerVars>>

\* GetCurrentMsg has nothing to read.
Idle(g) == ~finalizeFlag[g] /\ ~HasMsg(g)

InTime(g) == Idle(g) /\ Visit(g) /\ UNCHANGED <<server, timeout, OtherServerVars>>

\* CheckTimeOut: the first two timeouts are reported, the third is an error;
\* ErrorDfxProcess makes any of them one on a legacy resource (see NoOpHandle).
TimedOut(g) ==
    /\ TimeoutsFire /\ Idle(g) /\ Visit(g)
    /\ IF timeout[g] = MaxTimeout \/ Legacy
       THEN server' = "fail" /\ UNCHANGED timeout
       ELSE timeout' = [timeout EXCEPT ![g] = @ + 1] /\ UNCHANGED server
    /\ UNCHANGED OtherServerVars

RetryExceeded(g) ==
    /\ Visit(g) /\ ~finalizeFlag[g] /\ retryCnt[g] > MaxRetry
    /\ server' = "fail"
    /\ UNCHANGED <<timeout, OtherServerVars>>

\* IsAllTaskFinished and InterGroupSync take the first of ctxToOpHandle_ on a
\* legacy resource, and nothing was put into it.
NoOpHandle(g) ==
    /\ Legacy /\ Visit(g)
    /\ server' = "fail"
    /\ \/ finalizeFlag[g] /\ UNCHANGED <<sendMsgs, paramExt>>
       \/ /\ ~finalizeFlag[g] /\ HasMsg(g) /\ retryCnt[g] <= MaxRetry
          /\ CurrentMsg(g).type = "sync" /\ SyncKnown(CurrentMsg(g))
          /\ TakeMsg(g)
    /\ UNCHANGED <<commitTurnCnt, finishedTurnCnt, expectSeqNum, rcvMsg, msgPos, retryCnt,
                   finalizeFlag, finishFlag, handleToMsgPos, handleToRepeat, timeout,
                   stream, tasks>>

GroupServerProcess(g) ==
    \/ PrepareProcess(g) \/ PrepareRetry(g)
    \/ InterGroupSyncProcess(g) \/ InterGroupSyncRetry(g)
    \/ FinalizeProcess(g) \/ GroupFinish(g)
    \/ Finished(g) \/ InTime(g) \/ TimedOut(g)
    \/ RetryExceeded(g) \/ NoOpHandle(g)

ServerNext ==
    /\ RestartServer \/ \E g \in Groups : GroupServerProcess(g)
    /\ UNCHANGED clientVars
=============================================================================
