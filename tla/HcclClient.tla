----------------------------- MODULE HcclClient -----------------------------
(***************************************************************************)
(* The AI-core side: one thread calls the Hccl objects of all groups        *)
(* (hccl_aicpu_impl.h, hccl_aicpu.h, hccl_aicpu_common.h), in a build with  *)
(* ASCENDC_HCCL_API_ASSERT on.  A call is split where it reads or writes    *)
(* the shared area; at a spin loop the step is enabled when the loop ends.  *)
(***************************************************************************)
EXTENDS KfcArea

CONSTANTS
    SyncModes,          \* values of Finalize's template parameter
    Exts,               \* whether Prepare may be AlltoAllV
    FinalizeLast,       \* callers: no Prepare or sync once a group is finalized
    DependentsFirst,    \* callers: a group is finalized after the groups waiting for it
    ExcessPrepare       \* callers may call Prepare once too often

ASSUME ClientConstants == /\ SyncModes \subseteq BOOLEAN /\ Exts \subseteq BOOLEAN
                          /\ FinalizeLast \in BOOLEAN /\ DependentsFirst \in BOOLEAN
                          /\ ExcessPrepare \in BOOLEAN

ApiCall(g, h, m, flag) == [group |-> g, handle |-> h, msg |-> m, flag |-> flag]
NoCall == ApiCall(0, 0, NoMsg, FALSE)

InitClient ==
    /\ pc = "ready" /\ call = NoCall
    /\ primitiveId = 0
    /\ curHandleId = PerGroup(-1)
    /\ curMsgPosition = PerGroup(0)
    /\ handles = PerGroup(<<>>)
    /\ deps = PerGroup({})
    /\ finalized = PerGroup(FALSE)
    /\ launch = 1

----------------------------------------------------------------------------
(* What a correct caller keeps to.  hccl.h asks for one Commit and one Wait *)
(* per repeat, and for Wait in the order of Prepare.  A slot is kept for    *)
(* FINALIZE, and nobody blocks on work he has not committed himself.        *)

CommittedAll(g) == \A i \in DOMAIN handles[g] : handles[g][i].commit = handles[g][i].repeat

DepsCommitted(g) == deps[g] # {} => \A g2 \in Groups : CommittedAll(g2)

MaySend(g) ==
    /\ ~finalized[g] /\ curMsgPosition[g] + 1 < MsgCnt
    /\ FinalizeLast => \A g2 \in Groups : ~finalized[g2]

MayWait(g, h) ==
    /\ \A i \in 1 .. h : handles[g][i].wait = handles[g][i].repeat
    /\ DepsCommitted(g)

\* The last message of a group is not an InterHcclGroupSync, which would order
\* nothing; under DependentsFirst, a group is finalized after those waiting for it.
MayFinalize(g) ==
    /\ ~finalized[g] /\ CommittedAll(g) /\ DepsCommitted(g)
    /\ deps[g] # {} => LET n == Len(handles[g])
                       IN n > 0 /\ handles[g][n].pos + 1 = curMsgPosition[g]
    /\ DependentsFirst => \A g2 \in Groups \ {g} :
                            ~finalized[g2] => \A i \in deps[g2] : tasks[i].group # g

----------------------------------------------------------------------------
\* AlltoAllV writes its extension slot before its message slot.
FirstStep(ext) == IF ext THEN "ext" ELSE "send"

\* Prepare enters: the handle is taken before anything can fail.
Prepare(g, r, ext, commit) ==
    /\ pc = "ready" /\ MaySend(g)
    /\ Len(tasks) < MaxTasks
    /\ curHandleId[g] + 1 < MaxHandle
    /\ curHandleId' = [curHandleId EXCEPT ![g] = @ + 1]
    /\ pc' = FirstStep(ext)
    /\ call' = ApiCall(g, curHandleId[g] + 1,
                       [NoMsg EXCEPT !.type = "prepare", !.handle = curHandleId[g] + 1,
                                     !.repeat = r, !.ext = ext], commit)
    /\ UNCHANGED <<areaVars, primitiveId, curMsgPosition, handles, deps, finalized,
                   launch, tasks>>

\* The assertion on the handle fails: curHandleId_ stays incremented.  Bound:
\* one such call per object.
PrepareRefused(g) ==
    /\ ExcessPrepare /\ pc = "ready" /\ ~finalized[g]
    /\ curHandleId[g] + 1 = MaxHandle
    /\ curHandleId' = [curHandleId EXCEPT ![g] = @ + 1]
    /\ UNCHANGED <<areaVars, pc, call, primitiveId, curMsgPosition, handles, deps,
                   finalized, launch, tasks>>

\* The call goes on at state, or returns, which is the end of its arguments.
GoOn(state) == pc' = state /\ UNCHANGED call
Return == pc' = "ready" /\ call' = NoCall

\* A mutant of ExtFree: the slot is not waited for.
ExtOverwrites(g) == TRUE

\* The slot of an extension is free once the server has taken the last one.
ExtFree(g) == ~paramExt[g][curMsgPosition[g]]

SendExt ==
    LET g == call.group IN
    /\ pc = "ext" /\ ExtFree(g)
    /\ paramExt' = [paramExt EXCEPT ![g][curMsgPosition[g]] = TRUE]
    /\ GoOn("send")
    /\ UNCHANGED <<sendMsgs, commitTurnCnt, finishedTurnCnt, primitiveId, curHandleId,
                   curMsgPosition, handles, deps, finalized, launch, tasks>>

\* SendMsgToServer: wait for the slot of curMsgPosition_, fill it.
PutMsg(type, m) ==
    LET g == call.group IN
    /\ pc = "send" /\ call.msg.type = type
    /\ sendMsgs[g][curMsgPosition[g]] = NoMsg
    /\ sendMsgs' = [sendMsgs EXCEPT ![g][curMsgPosition[g]] = m]
    /\ UNCHANGED <<paramExt, commitTurnCnt, finishedTurnCnt, curHandleId, launch>>

AdvancePosition(g) == curMsgPosition' = [curMsgPosition EXCEPT ![g] = @ + 1]

\* Mutants of NextSeq: a wider number, and none.
NoWrap == primitiveId + 1
NoNextSeq == primitiveId

NextSeq == (primitiveId + 1) % SeqMod

\* The rest of CommonPrepareImpl; a committing Prepare goes on to CommitWrite.
SendPrepare ==
    LET g == call.group
        r == call.msg.repeat
    IN
    /\ PutMsg("prepare", [call.msg EXCEPT !.seq = primitiveId, !.task = Len(tasks) + 1])
    /\ primitiveId' = NextSeq
    /\ handles' = [handles EXCEPT ![g] =
                     Append(@, [pos |-> curMsgPosition[g], repeat |-> r,
                                commit |-> IF call.flag THEN r ELSE 0,
                                wait |-> 0, task |-> Len(tasks) + 1])]
    /\ tasks' = Append(tasks, Api!NewTask(g, r, deps[g]))
    /\ AdvancePosition(g)
    /\ IF call.flag THEN pc' = "commit" /\ call' = ApiCall(g, call.msg.handle, NoMsg, TRUE)
       ELSE Return
    /\ UNCHANGED <<deps, finalized>>

InterHcclGroupSync(g, g2, h) ==
    /\ pc = "ready" /\ MaySend(g)
    /\ g2 # g /\ h < Len(handles[g2])
    /\ pc' = "send"
    /\ call' = ApiCall(g, 0, [NoMsg EXCEPT !.type = "sync", !.handle = h, !.dep = g2], FALSE)
    /\ UNCHANGED <<areaVars, primitiveId, curHandleId, curMsgPosition, handles, deps,
                   finalized, launch, tasks>>

\* A sync message takes no sequence number.
SendSync ==
    LET g == call.group
        m == call.msg
    IN
    /\ PutMsg("sync", m)
    /\ deps' = [deps EXCEPT ![g] = @ \cup {handles[m.dep][m.handle + 1].task}]
    /\ AdvancePosition(g)
    /\ Return
    /\ UNCHANGED <<primitiveId, handles, finalized, tasks>>

\* Commit: one more turn, unless repeat turns are committed (then it returns).
Commit(g, h) ==
    /\ pc = "ready" /\ ~finalized[g] /\ h < Len(handles[g])
    /\ handles[g][h + 1].commit < handles[g][h + 1].repeat
    /\ handles' = [handles EXCEPT ![g][h + 1].commit = @ + 1]
    /\ pc' = "commit"
    /\ call' = ApiCall(g, h, NoMsg, FALSE)
    /\ UNCHANGED <<areaVars, primitiveId, curHandleId, curMsgPosition, deps, finalized,
                   launch, tasks>>

\* SetCommitTurnCntToGm: a count not below the new one belongs to an earlier
\* user of the position, and must be cleared first.
CommitWritable(g, hd) == commitTurnCnt[g][hd.pos] < hd.commit

CommitWrite ==
    LET g == call.group
        hd == handles[g][call.handle + 1]
    IN
    /\ pc = "commit"
    /\ CommitWritable(g, hd)
    /\ commitTurnCnt' = [commitTurnCnt EXCEPT ![g][hd.pos] = hd.commit]
    /\ tasks' = [tasks EXCEPT ![hd.task].committed = hd.commit]
    /\ Return
    /\ UNCHANGED <<sendMsgs, paramExt, finishedTurnCnt, primitiveId, curHandleId,
                   curMsgPosition, handles, deps, finalized, launch>>

\* Wait: refused (it returns at once) when every committed turn was waited for.
Wait(g, h) ==
    /\ pc = "ready" /\ ~finalized[g] /\ h < Len(handles[g]) /\ MayWait(g, h)
    /\ handles[g][h + 1].wait < handles[g][h + 1].commit
    /\ handles' = [handles EXCEPT ![g][h + 1].wait = @ + 1]
    /\ pc' = "wait"
    /\ call' = ApiCall(g, h, NoMsg, FALSE)
    /\ UNCHANGED <<areaVars, primitiveId, curHandleId, curMsgPosition, deps, finalized,
                   launch, tasks>>

\* A mutant of TurnsFinished: the turn before suffices.
OneTurnEarly(g, hd, n) == finishedTurnCnt[g][hd.pos] >= n - 1

TurnsFinished(g, hd, n) == finishedTurnCnt[g][hd.pos] >= n

WaitReturn ==
    LET g == call.group
        hd == handles[g][call.handle + 1]
    IN
    /\ pc = "wait"
    /\ TurnsFinished(g, hd, hd.wait)
    /\ tasks' = [tasks EXCEPT ![hd.task].observed = hd.wait]
    /\ Return
    /\ UNCHANGED <<areaVars, primitiveId, curHandleId, curMsgPosition, handles, deps,
                   finalized, launch>>

----------------------------------------------------------------------------
\* Finalize<sync> first polls Query(curHandleId_).
Finalize(g, sync) ==
    /\ pc = "ready" /\ MayFinalize(g)
    /\ pc' = IF sync /\ curHandleId[g] >= 0 THEN "finQuery" ELSE "send"
    /\ call' = ApiCall(g, 0, [NoMsg EXCEPT !.type = "finalize"], sync)
    /\ UNCHANGED <<areaVars, primitiveId, curHandleId, curMsgPosition, handles, deps,
                   finalized, launch, tasks>>

\* Query fails, and the loop goes on, when its handle is out of range.  It returns an
\* int32_t, which is negative of a FINALIZE_FINISH_CNT that was left behind, its low
\* half overwritten or not.
FinalizeQueried ==
    LET g == call.group IN
    /\ pc = "finQuery"
    /\ curHandleId[g] < MaxHandle
    /\ LET hd == handles[g][curHandleId[g] + 1]
       IN TurnsFinished(g, hd, hd.repeat) /\ finishedTurnCnt[g][hd.pos] < Half
    /\ GoOn("send")
    /\ UNCHANGED <<areaVars, primitiveId, curHandleId, curMsgPosition, handles, deps,
                   finalized, launch, tasks>>

\* FINALIZE restarts the sequence numbers of all groups of the core.
SendFinalize ==
    LET g == call.group IN
    /\ PutMsg("finalize", call.msg)
    /\ primitiveId' = 0
    /\ IF call.flag
       THEN GoOn("finDone") /\ UNCHANGED <<curMsgPosition, finalized>>
       ELSE /\ Return
            /\ AdvancePosition(g)
            /\ finalized' = [finalized EXCEPT ![g] = TRUE]
    /\ UNCHANGED <<handles, deps, tasks>>

\* A mutant of ResetFinishedTurnCnt: the position of FINALIZE is left out.
ResetTaskCntOnly(g) ==
    finishedTurnCnt' = [finishedTurnCnt EXCEPT ![g] =
                          [p \in Pos |-> IF p < curMsgPosition[g] THEN 0 ELSE @[p]]]

\* Every position used is cleared, FINALIZE's included.
ResetFinishedTurnCnt(g) ==
    finishedTurnCnt' = [finishedTurnCnt EXCEPT ![g] =
                          [p \in Pos |-> IF p <= curMsgPosition[g] THEN 0 ELSE @[p]]]

FinalizeDone ==
    LET g == call.group IN
    /\ pc = "finDone"
    /\ finishedTurnCnt[g][curMsgPosition[g]] = FinalizeCnt
    /\ ResetFinishedTurnCnt(g)
    /\ AdvancePosition(g)
    /\ finalized' = [finalized EXCEPT ![g] = TRUE]
    /\ Return
    /\ UNCHANGED <<sendMsgs, paramExt, commitTurnCnt, primitiveId, curHandleId, handles,
                   deps, launch, tasks>>

\* The kernel exits and the next operator constructs new Hccl objects on the
\* same areas; primitiveId is not part of them.
NextLaunch ==
    /\ pc = "ready" /\ \A g \in Groups : finalized[g]
    /\ launch < Launches
    /\ launch' = launch + 1
    /\ curHandleId' = PerGroup(-1)
    /\ curMsgPosition' = PerGroup(0)
    /\ handles' = PerGroup(<<>>)
    /\ deps' = PerGroup({})
    /\ finalized' = PerGroup(FALSE)
    /\ UNCHANGED <<areaVars, pc, call, primitiveId, tasks>>

----------------------------------------------------------------------------
\* The steps the operator's author chooses, and the steps of a call under way.
CallApi ==
    \/ \E g \in Groups :
        \/ \E r \in Repeats, ext \in Exts, commit \in BOOLEAN : Prepare(g, r, ext, commit)
        \/ PrepareRefused(g)
        \/ \E g2 \in Groups, h \in Handles : InterHcclGroupSync(g, g2, h)
        \/ \E h \in Handles : Commit(g, h) \/ Wait(g, h)
        \/ \E sync \in SyncModes : Finalize(g, sync)
    \/ NextLaunch

ContinueCall ==
    \/ SendExt \/ SendPrepare \/ SendSync \/ SendFinalize
    \/ CommitWrite \/ WaitReturn \/ FinalizeQueried \/ FinalizeDone

ClientNext == (CallApi \/ ContinueCall) /\ UNCHANGED <<serverVars, stream>>
=============================================================================
