------------------------------ MODULE KfcTasks ------------------------------
(***************************************************************************)
(* What the collective-communication API promises an AI-core program        *)
(* (include/collective_comm/device/hccl.h): communication tasks are issued  *)
(* to groups, launched by the server in issue order, executed one turn per  *)
(* commit in the order of their group and after the tasks their group was   *)
(* told to wait for, and observed by Wait only after they were executed.    *)
(*                                                                          *)
(* The whole state is one sequence: tasks[i] is the i-th Prepare call, over *)
(* all groups and all launches of the operator.                             *)
(***************************************************************************)
EXTENDS Naturals, Sequences

CONSTANTS
    Groups,     \* communication groups
    Repeats,    \* values of the repeat parameter of Prepare (see KfcArea)
    Synced      \* the groups whose tasks heed InterHcclGroupSync

VARIABLE tasks

TaskIds == 1 .. Len(tasks)

\* A task: its group, its repeat count, the tasks it must wait for, whether
\* the server has launched it, and how many of its turns have been
\* committed, executed, and reported finished to the caller.
NewTask(g, r, deps) ==
    [group |-> g, repeat |-> r, deps |-> deps, launched |-> FALSE,
     committed |-> 0, executed |-> 0, observed |-> 0]

Completed(i) == tasks[i].executed = tasks[i].repeat

Init == tasks = <<>>

\* Prepare.
Issue == \E g \in Groups, r \in Repeats, deps \in SUBSET TaskIds :
            tasks' = Append(tasks, NewTask(g, r, deps))

\* The server takes the task over: every task issued before it, in whatever
\* group, has been taken over already.
Launch(i) ==
    /\ ~tasks[i].launched
    /\ \A j \in 1 .. i - 1 : tasks[j].launched
    /\ tasks' = [tasks EXCEPT ![i].launched = TRUE]

\* Commit, one turn or (Prepare<commit = true>) all of them.
Commit(i) == \E n \in 1 .. tasks[i].repeat - tasks[i].committed :
                tasks' = [tasks EXCEPT ![i].committed = @ + n]

\* One turn runs: it was committed, the earlier tasks of the group are over,
\* and so are the tasks of other groups it depends on, if its group heeds them.
Execute(i) ==
    /\ tasks[i].launched
    /\ tasks[i].executed < tasks[i].committed
    /\ \A j \in 1 .. i - 1 : tasks[j].group = tasks[i].group => Completed(j)
    /\ tasks[i].group \in Synced => \A j \in tasks[i].deps : Completed(j)
    /\ tasks' = [tasks EXCEPT ![i].executed = @ + 1]

\* Wait returns.
Observe(i) ==
    /\ tasks[i].observed < tasks[i].executed
    /\ tasks' = [tasks EXCEPT ![i].observed = @ + 1]

Next == \/ Issue
        \/ \E i \in TaskIds : Launch(i) \/ Commit(i) \/ Execute(i) \/ Observe(i)

Spec == Init /\ [][Next]_tasks
=============================================================================
