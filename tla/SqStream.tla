------------------------------ MODULE SqStream ------------------------------
(***************************************************************************)
(* The main stream of a group's communicator, executed in order by the      *)
(* device.  Its condition tasks are the little programs that                *)
(* sqe_build_a5.cc builds; what the kernel entry stands for is the          *)
(* collective operation itself, here one turn of one task.                  *)
(***************************************************************************)
EXTENDS KfcArea

InitStream == stream = PerGroup(<<>>)

\* The head of the stream is executed and leaves it.
Execute(g, type) ==
    /\ stream[g] # <<>> /\ Head(stream[g]).type = type
    /\ stream' = [stream EXCEPT ![g] = Tail(@)]
    /\ UNCHANGED <<sendMsgs, paramExt, clientVars, serverVars>>

\* The condition tasks load and store the low 16 bits of a counter.
LoadHalf(cnt) == cnt % Half
StoreHalf(cnt, val) == (cnt - LoadHalf(cnt)) + val

\* Mutants of CounterReached: one turn more, one less.
OneMoreTurn(cnt, sqe) == LoadHalf(cnt) > sqe.val
OneTurnLess(cnt, sqe) == LoadHalf(cnt) >= sqe.val - 1

\* CCoreNotifyWait reloads the counter while it is below the turn, and the
\* last wait of a task stores 0 to it.
CounterReached(cnt, sqe) == LoadHalf(cnt) >= sqe.val

\* A mutant of CounterAfter: the count stays.
NotCleared(cnt, sqe) == cnt

CounterAfter(cnt, sqe) == IF sqe.last THEN StoreHalf(cnt, 0) ELSE cnt

WaitCommit(g) ==
    LET sqe == Head(stream[g]) IN
    /\ Execute(g, "waitCommit")
    /\ CounterReached(commitTurnCnt[sqe.group][sqe.pos], sqe)
    /\ commitTurnCnt' = [commitTurnCnt EXCEPT ![sqe.group][sqe.pos] = CounterAfter(@, sqe)]
    /\ UNCHANGED <<finishedTurnCnt, tasks>>

WaitFinish(g) ==
    LET sqe == Head(stream[g]) IN
    /\ Execute(g, "waitFinish")
    /\ CounterReached(finishedTurnCnt[sqe.group][sqe.pos], sqe)
    /\ UNCHANGED <<commitTurnCnt, finishedTurnCnt, tasks>>

RunKernel(g) ==
    /\ Execute(g, "kernel")
    /\ tasks' = [tasks EXCEPT ![Head(stream[g]).task].executed = @ + 1]
    /\ UNCHANGED <<commitTurnCnt, finishedTurnCnt>>

\* CCoreNotifyRecord stores the turn.
PostFinish(g) ==
    LET sqe == Head(stream[g]) IN
    /\ Execute(g, "post")
    /\ finishedTurnCnt' = [finishedTurnCnt EXCEPT ![sqe.group][sqe.pos] = StoreHalf(@, sqe.val)]
    /\ UNCHANGED <<commitTurnCnt, tasks>>

StreamNext(g) == WaitCommit(g) \/ WaitFinish(g) \/ RunKernel(g) \/ PostFinish(g)
=============================================================================
