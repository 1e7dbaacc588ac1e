----------------------------- MODULE KfcPromises -----------------------------
(***************************************************************************)
(* What the client may rely on, whichever server reads its messages: stated *)
(* over the state the two share, for KfcChannel and KfcChannelV2.           *)
(***************************************************************************)
EXTENDS HcclClient

\* What Wait and Query read is never ahead of the work: a turn counted in
\* finishedTurnCnt at the position of a live handle has run.
FinishedIsExecuted ==
    \A g \in Groups : \A i \in DOMAIN handles[g] :
        LET hd == handles[g][i] IN finishedTurnCnt[g][hd.pos] <= tasks[hd.task].executed

\* The server gives up only for a timeout or for too many retries: what it needs
\* of its own tables is there (comm_kfc_aicpu_server.cc:645, "it is guaranteed that
\* opHandles_ is not empty"), and no number is below the one it expects
\* (aicpu_kfc_rpc_serverv2.cc:265).
ServerDoesNotFail == server # "fail"

\* No turn runs that was not committed, and none more than repeat times,
\* whatever was left in the area by the tasks before it.
ExecutedIsCommitted ==
    \A i \in DOMAIN tasks :
        tasks[i].executed <= tasks[i].committed /\ tasks[i].committed <= tasks[i].repeat

\* An AlltoAllV message is never visible before its extension: the server
\* takes both in one visit and cannot come back for the second.
ExtensionFirst ==
    \A g \in Groups, p \in Pos : sendMsgs[g][p].ext => paramExt[g][p]

\* The server never leaves a message of its own launch behind: it will
\* not come back to a position it has passed.
NothingLeftBehind ==
    serverLaunch = launch =>
        \A g \in Groups, p \in Pos :
            p < msgPos[g] \/ finalizeFlag[g] => sendMsgs[g][p] = NoMsg

\* "Once all comm tasks are executed, server can exit" (hccl.h:42): the server
\* of a launch does not leave, or give up, before the work it was given is done.
ServerOutlivesWork ==
    server # "run" /\ serverLaunch = launch =>
        \A i \in DOMAIN tasks : tasks[i].executed = tasks[i].repeat

\* After Finalize of every group the next launch finds the area as the
\* first one did: no message, no count (hccl_aicpu_def.h:97, hccl_aicpu.h:448).
CleanForNextLaunch ==
    (\A g \in Groups : finalized[g]) =>
        /\ sendMsgs = PerPos(NoMsg) /\ paramExt = PerPos(FALSE)
        /\ commitTurnCnt = PerPos(0) /\ finishedTurnCnt = PerPos(0)

\* Every API call returns: no Wait, Finalize or message slot blocks forever.
CallsReturn == pc # "ready" ~> pc = "ready"

\* When every group of a launch is finalized, the Run of that launch returns.
ServerReturns ==
    \A n \in 1 .. Launches :
        (\A g \in Groups : finalized[g]) /\ launch = n
            ~> serverLaunch > n \/ (serverLaunch = n /\ server = "exit")

\* Tasks that are all committed all get executed.
CommittedRun == (\A i \in DOMAIN tasks : tasks[i].committed = tasks[i].repeat)
                    ~> \/ \A i \in DOMAIN tasks : tasks[i].executed = tasks[i].repeat
                       \/ \E i \in DOMAIN tasks : tasks[i].committed # tasks[i].repeat
=============================================================================
