----------------------------- MODULE KfcChannel -----------------------------
(***************************************************************************)
(* The decoupled KFC channel: client, server and streams over the shared     *)
(* message areas, through one or more launches of the operator.             *)
(***************************************************************************)
EXTENDS KfcPromises, KfcDispatcher, SqStream

Init == InitArea /\ InitClient /\ InitServer /\ InitStream /\ Api!Init

\* Everything has run, or the server gave up: nothing more has to happen.
Terminated ==
    /\ \/ server = "fail"
       \/ /\ server = "exit" /\ serverLaunch = Launches
          /\ pc = "ready" /\ launch = Launches /\ \A g \in Groups : finalized[g]
    /\ UNCHANGED vars

Next ==
    \/ ClientNext
    \/ ServerNext
    \/ \E g \in Groups : StreamNext(g)
    \/ Terminated

Spec == Init /\ [][Next]_vars

\* A blocked call re-reads its cell, the dispatcher loops, the device runs its
\* streams; the author of the operator owes no further call.
Fairness ==
    /\ WF_vars(ContinueCall /\ UNCHANGED <<serverVars, stream>>)
    /\ WF_vars(ServerNext)
    /\ \A g \in Groups : WF_vars(StreamNext(g))

FairSpec == Spec /\ Fairness

----------------------------------------------------------------------------
\* The promises of the API (KfcTasks) that the channel keeps: the server launches
\* the tasks of all groups in the order of the Prepare calls, a turn runs only after
\* its Commit, after the earlier tasks of its group and, in a group whose server
\* keeps its context, after the tasks named in InterHcclGroupSync, and Wait returns
\* only after the turn it waits for ran.
Kept == INSTANCE KfcTasks WITH Groups <- Groups, Repeats <- Repeats, Synced <- Synced,
                               tasks <- tasks
ApiSpec == Kept!Spec

DependenciesOver(i) == \A j \in tasks[i].deps : tasks[j].executed = tasks[j].repeat

\* "Subsequent tasks launched by this comm group can only start after the comm
\* task srcHandleID of comm group srcGroupID is executed" (hccl.h:321-322).
DependenciesKept ==
    \A i \in DOMAIN tasks : tasks[i].executed > 0 => DependenciesOver(i)

\* The same of the groups whose server keeps its context: whatever the other groups
\* wait for, and in whatever stream.
SyncedDependenciesKept ==
    \A i \in DOMAIN tasks :
        tasks[i].group \in Synced /\ tasks[i].executed > 0 => DependenciesOver(i)

----------------------------------------------------------------------------
PcStates == {"ready", "ext", "send", "commit", "wait", "finQuery", "finDone"}

Call == [group : Groups, handle : Handles, msg : Msg, flag : BOOLEAN]

Task == [group : Groups, repeat : Repeats, deps : SUBSET (1 .. MaxTasks),
         launched : BOOLEAN, committed : Nat, executed : Nat, observed : Nat]

AreaTypeOK ==
    /\ sendMsgs \in [Groups -> [Pos -> Msg]]
    /\ paramExt \in [Groups -> [Pos -> BOOLEAN]]
    /\ commitTurnCnt \in [Groups -> [Pos -> Nat]]
    /\ finishedTurnCnt \in [Groups -> [Pos -> Nat]]

ClientTypeOK ==
    /\ pc \in PcStates
    /\ call \in Call
    /\ primitiveId \in 0 .. SeqMod - 1
    /\ curHandleId \in [Groups -> -1 .. MaxHandle]
    /\ curMsgPosition \in [Groups -> 0 .. MsgCnt]
    /\ handles \in [Groups -> Seq(Handle)]
    /\ deps \in [Groups -> SUBSET (1 .. MaxTasks)]
    /\ finalized \in [Groups -> BOOLEAN]
    /\ launch \in 1 .. Launches

ServerTypeOK ==
    /\ server \in {"run", "exit", "fail"}
    /\ visit \in Groups
    /\ expectSeqNum \in Nat
    /\ rcvMsg \in [Groups -> Msg]
    /\ msgPos \in [Groups -> Pos]
    /\ retryCnt \in [Groups -> 0 .. MaxRetry + 1]
    /\ finalizeFlag \in [Groups -> BOOLEAN]
    /\ finishFlag \in [Groups -> BOOLEAN]
    /\ handleToMsgPos \in [Groups -> [Handles -> Pos \cup {Unknown}]]
    /\ handleToRepeat \in [Groups -> [Handles -> Nat \cup {Unknown}]]
    /\ timeout \in [Groups -> 0 .. MaxTimeout]
    /\ serverLaunch \in 1 .. Launches

TypeOK ==
    /\ AreaTypeOK /\ ClientTypeOK /\ ServerTypeOK
    /\ stream \in [Groups -> Seq(Sqe)]
    /\ tasks \in Seq(Task)
=============================================================================
