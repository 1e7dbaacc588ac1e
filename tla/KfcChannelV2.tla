---------------------------- MODULE KfcChannelV2 ----------------------------
(***************************************************************************)
(* The channel with the RPC server V2: the same client, areas and streams   *)
(* as KfcChannel, and the same promises, kept in another way.               *)
(***************************************************************************)
EXTENDS KfcPromises, RpcServerV2, SqStream

CONSTANT CarefulTasks   \* bound: Prepare calls of a careful author

ASSUME CarefulTasksAssumption == CarefulTasks \in Nat

\* A parameter of the behaviour, chosen at the start: the operator's author calls
\* Finalize<true>, after Wait for the tasks of the other groups, and his launches
\* take less than KERNEL_TIMEOUT.
VARIABLE careful

varsV2 == <<vars, buffered, careful>>

Init ==
    /\ InitArea /\ InitClient /\ InitServer /\ InitStream /\ Api!Init
    /\ careful \in BOOLEAN

\* FINALIZE of one group starts the numbers the server expects of all groups again.
\* A task of another group that has been waited for was taken before.  Finalize<true>
\* clears the counts of its group: no task is to wait for them afterwards.
CarefulCall ==
    /\ pc = "ready" /\ call'.msg.type = "finalize" =>
        /\ call'.flag
        /\ \A g \in Groups \ {call'.group} : \A i \in DOMAIN handles[g] :
            handles[g][i].wait = handles[g][i].repeat
    /\ pc = "ready" /\ call'.msg.type = "sync" => ~finalized[call'.msg.dep]
    /\ pc = "ready" /\ call'.msg.type = "prepare" => Len(tasks) < CarefulTasks

\* Bounds of an author who is not careful: one launch, tasks that commit themselves,
\* no InterHcclGroupSync, no Wait, and Finalize<false>.
CarelessCall ==
    /\ launch' = 1
    /\ pc = "ready" => pc' # "wait" /\ call'.msg.type # "sync"
    /\ pc = "ready" /\ call'.msg.type \in {"prepare", "finalize"} =>
        call'.flag = (call'.msg.type = "prepare")

ClientStep ==
    /\ ClientNext
    /\ IF careful THEN CarefulCall ELSE CarelessCall
    /\ UNCHANGED <<buffered, careful>>

ServerStep ==
    /\ ServerNext \/ (~careful /\ KernelTimedOut)
    /\ UNCHANGED careful

DeviceStep(g) == StreamNext(g) /\ UNCHANGED <<buffered, careful>>

\* Everything has run, or the server gave up: nothing more has to happen.
Terminated ==
    /\ \/ server = "fail"
       \/ /\ server = "exit" /\ serverLaunch = Launches
          /\ pc = "ready" /\ launch = Launches /\ \A g \in Groups : finalized[g]
    /\ UNCHANGED varsV2

Next == ClientStep \/ ServerStep \/ (\E g \in Groups : DeviceStep(g)) \/ Terminated

Spec == Init /\ [][Next]_varsV2

\* A blocked call re-reads its cell, the loop goes round, the device runs its
\* streams; the author of the operator owes no further call.
Fairness ==
    /\ WF_varsV2(ContinueCall /\ UNCHANGED <<serverVars, stream, buffered, careful>>)
    /\ WF_varsV2(ServerNext /\ UNCHANGED careful)
    /\ \A g \in Groups : WF_varsV2(DeviceStep(g))

FairSpec == Spec /\ Fairness

----------------------------------------------------------------------------
\* The promises of the API (KfcTasks) to a careful author, and none to another: the
\* number 0 after an early FINALIZE is taken out of turn.
Promise == INSTANCE KfcTasks WITH Groups <- Groups, Repeats <- Repeats, Synced <- Groups,
                                  tasks <- IF careful THEN tasks ELSE <<>>
CarefulApi == Promise!Spec

\* To a careful author, the server neither gives up nor leaves a message or a count
\* behind: what a group used is cleared before its end is posted.
CarefulLeavesClean == careful => ServerDoesNotFail /\ CleanForNextLaunch

\* Every call of a careful author returns: no message that is processed again waits
\* for its turn for ever, and no count of an earlier launch blocks a Commit.
CarefulReturns == careful /\ pc # "ready" ~> pc = "ready"
=============================================================================
