--------------------------- MODULE KfcFinishProofs ---------------------------
(***************************************************************************)
(* What Wait and Query read of KfcChannel is true of the work, for every     *)
(* value of the constants: the counts at the positions of a launch are those *)
(* of its own tasks, as long as each launch waits for its work before it     *)
(* finalizes its groups, or is the only one.  And a launch that waits leaves *)
(* areas in which the next finds nothing of it.                              *)
(*                                                                           *)
(* The second part is the API itself: the steps of KfcChannel are those of   *)
(* KfcTasks, for every value of the constants that callers and server keep   *)
(* to.  Tasks of all groups are launched in the order of the Prepare calls,  *)
(* none runs before those it depends on, and the server outlives them.       *)
(***************************************************************************)
EXTENDS KfcChannelProofs

\* Every Finalize waits for the server (the template parameter sync).
Waits == SyncModes \subseteq {TRUE}
Careful == Waits \/ Launches = 1

----------------------------------------------------------------------------
(* The launches of the client and of the server.                            *)

\* The server has marked the end of group g in the client's launch.
Marked(g) == launch < serverLaunch \/ (launch = serverLaunch /\ finishFlag[g])

LaunchInv ==
    /\ launch <= serverLaunch + 1
    /\ launch = serverLaunch + 1 => server = "exit"
    /\ (\A g \in Groups : finishFlag[g]) => server = "exit"
    /\ Waits => \A g \in Groups : finalized[g] => Marked(g)
    /\ \A g \in Groups : Finalizing(g) /\ finishedTurnCnt[g][curMsgPosition[g]] > 0 => Marked(g)

\* The mark is made at the position of FINALIZE, behind every task.
MarkInv ==
    \A g \in Groups :
        /\ launch = serverLaunch /\ finalizeFlag[g]
              => Sent(g) = "closed" /\ msgPos[g] + 1 = End(g)
        /\ Sent(g) = "closed" =>
              \A i \in 1 .. Len(handles[g]) : handles[g][i].pos + 1 < End(g)

FlagInv == call.msg.type = "finalize" => call.flag \in SyncModes

\* Positions not yet used hold no count, nor do those of a finalized group.
UnusedInv ==
    \A g \in Groups, p \in Pos :
        p >= End(g) \/ (Waits /\ finalized[g]) => finishedTurnCnt[g][p] = 0

----------------------------------------------------------------------------
(* The order of the tasks of a group.                                       *)

RowOrder ==
    \A g \in Groups : \A i, j \in 1 .. Len(handles[g]) : i < j =>
        handles[g][i].pos < handles[g][j].pos /\ handles[g][i].task < handles[g][j].task

\* No task gets lost before it is launched, and none overtakes another.
Waiting(g, t) ==
    \/ \E p \in Pos : InSlot(g, p) /\ sendMsgs[g][p].task = t
    \/ InHand(g) /\ rcvMsg[g].task = t
WaitingInv ==
    \A g \in Groups, t \in 1 .. Len(tasks) :
        tasks[t].group = g /\ ~tasks[t].launched => Waiting(g, t)
LaunchOrder ==
    \A t, u \in 1 .. Len(tasks) :
        t < u /\ tasks[t].group = tasks[u].group /\ tasks[u].launched => tasks[t].launched

\* Of the tasks of earlier launches nothing is left.
IsTurn(e) == e.type # "waitFinish"
NoEntry(g, t) == \A j \in 1 .. Len(stream[g]) : IsTurn(stream[g][j]) => stream[g][j].task # t
OldDone ==
    \A t \in 1 .. Len(tasks) :
        InTable(t) \/ (tasks[t].launched /\ \A g \in Groups : NoEntry(g, t))

\* The turns of a task that are over when the entry e is the next of its stream.
Need(e) == IF e.type = "post" THEN e.val ELSE e.val - 1
After(e) == IF e.type = "kernel" THEN Need(e) + 1 ELSE Need(e)

\* Each entry follows the one that makes it ready.
Ready(g, j) ==
    LET e == stream[g][j] IN
    IsTurn(e) /\ Need(e) > 0 =>
        IF j = 1 THEN tasks[e.task].executed >= Need(e)
        ELSE LET d == stream[g][j - 1] IN IsTurn(d) /\ d.task = e.task /\ After(d) >= Need(e)
ReadyInv == \A g \in Groups : \A j \in 1 .. Len(stream[g]) : Ready(g, j)

\* The entries of the tasks of a group come in their order, and the posts of a
\* task in theirs.
Follows(d, e) ==
    IsTurn(d) /\ IsTurn(e) =>
        d.task <= e.task /\ (d.type = "post" /\ d.task = e.task => d.val < e.val)
OrderInv ==
    \A g \in Groups : \A j, k \in 1 .. Len(stream[g]) :
        j < k => Follows(stream[g][j], stream[g][k])

----------------------------------------------------------------------------
(* The counts, and what they tell the client.                               *)

\* A turn that was counted has run, and nothing of it or before it is left.
RowCount(g, i) ==
    LET hd == handles[g][i]
        c == finishedTurnCnt[g][hd.pos]
    IN /\ c <= tasks[hd.task].executed
       /\ c > 0 => \A j \in 1 .. Len(stream[g]) : IsTurn(stream[g][j]) =>
            /\ hd.task <= stream[g][j].task
            /\ hd.task = stream[g][j].task => c < stream[g][j].val
RowCountInv == \A g \in Groups : \A i \in 1 .. Len(handles[g]) : RowCount(g, i)

\* Finalize goes on only when all the tasks of the group are done.
AllDone(g) ==
    /\ \A i \in 1 .. Len(handles[g]) : tasks[handles[g][i].task].launched
    /\ \A j \in 1 .. Len(stream[g]) : ~IsTurn(stream[g][j])
Ending(g) == finalized[g] \/ (pc \in {"send", "finDone"} /\ call.msg.type = "finalize"
                              /\ call.group = g)
DoneInv == Waits => \A g \in Groups : Ending(g) => AllDone(g)

FinishInv ==
    /\ LaunchInv /\ MarkInv /\ FlagInv /\ UnusedInv /\ RowOrder /\ WaitingInv
    /\ LaunchOrder /\ OldDone /\ ReadyInv /\ OrderInv /\ RowCountInv /\ DoneInv

----------------------------------------------------------------------------
(* The steps that issue no task, launch none and begin no launch.           *)

Calm ==
    /\ Len(tasks') = Len(tasks)
    /\ \A t \in 1 .. Len(tasks) :
        /\ tasks'[t].group = tasks[t].group /\ tasks'[t].launched = tasks[t].launched
        /\ tasks'[t].executed \in Nat /\ tasks[t].executed <= tasks'[t].executed
    /\ \A g \in Groups :
        /\ Len(handles'[g]) = Len(handles[g])
        /\ \A i \in 1 .. Len(handles[g]) : /\ handles'[g][i].pos = handles[g][i].pos
                                           /\ handles'[g][i].task = handles[g][i].task
    /\ \A g \in Groups, t \in 1 .. Len(tasks) : Waiting(g, t) => Waiting(g, t)'
    /\ \/ stream' = stream
       \/ \E g \in Groups : SyncAdded(g)
       \/ \E g \in Groups :
            /\ Dropped(g)
            /\ LET e == Head(stream[g])
               IN e.type = "kernel" => tasks'[e.task].executed = tasks[e.task].executed + 1

LEMMA WaitingKeeps ==
    ASSUME MessagesKept, NEW g \in Groups, NEW t, Waiting(g, t) PROVE Waiting(g, t)'
<1>1. CASE InHand(g) /\ rcvMsg[g].task = t
  BY <1>1 DEF MessagesKept, Waiting
<1>2. ASSUME NEW p \in Pos, InSlot(g, p), sendMsgs[g][p].task = t PROVE Waiting(g, t)'
  BY <1>2 DEF MessagesKept, Waiting
<1> QED
  BY <1>1, <1>2 DEF Waiting

LEMMA CalmQuiet == ASSUME TypeInv, Quiet PROVE Calm
<1>1. \A t \in 1 .. Len(tasks) :
        tasks[t].executed \in Nat /\ tasks[t].executed <= tasks[t].executed
  BY TaskFacts
<1>2. \A g \in Groups, t \in 1 .. Len(tasks) : Waiting(g, t) => Waiting(g, t)'
  BY WaitingKeeps DEF Quiet
<1>3. /\ Len(tasks') = Len(tasks)
      /\ \A t \in 1 .. Len(tasks) :
          /\ tasks'[t].group = tasks[t].group /\ tasks'[t].launched = tasks[t].launched
          /\ tasks'[t].executed \in Nat /\ tasks[t].executed <= tasks'[t].executed
  BY <1>1 DEF Quiet, TasksKept, RunsKept
<1>4. \A g \in Groups :
        /\ Len(handles'[g]) = Len(handles[g])
        /\ \A i \in 1 .. Len(handles[g]) : /\ handles'[g][i].pos = handles[g][i].pos
                                           /\ handles'[g][i].task = handles[g][i].task
  BY DEF Quiet, RowsKept
<1> QED
  BY <1>2, <1>3, <1>4 DEF Calm, Quiet

LEMMA CalmCommit ==
    ASSUME TypeInv, UNCHANGED <<serverVars, stream>>, NEW g \in Groups, NEW h \in Handles,
           Commit(g, h)
    PROVE  Calm
<1>d. SUFFICES ASSUME NEW k, k = h + 1, NEW old, old = handles[g][k],
                      NEW hd, hd = [old EXCEPT !.commit = @ + 1]
               PROVE  Calm
  OBVIOUS
<1>1. /\ handles' = [handles EXCEPT ![g][k] = hd] /\ UNCHANGED <<sendMsgs, tasks>>
  BY <1>d DEF Commit, areaVars
<1>2. k \in 1 .. Len(handles[g]) /\ old \in Handle /\ k = h + 1
  BY <1>d, ConstantFacts, RowFacts DEF Commit
<1>3. hd \in Handle /\ hd.pos = old.pos /\ hd.task = old.task
  BY <1>d, <1>2 DEF Handle
<1>4. /\ \A g2 \in Groups : Len(handles'[g2]) = Len(handles[g2])
      /\ \A g2 \in Groups \ {g} : handles'[g2] = handles[g2]
      /\ handles'[g][k] = hd
      /\ \A i \in 1 .. Len(handles[g]) : i # k => handles'[g][i] = handles[g][i]
  BY <1>1, <1>2, <1>3, RowChanged
<1>5. \A g2 \in Groups : \A i \in 1 .. Len(handles[g2]) :
        handles'[g2][i].pos = handles[g2][i].pos /\ handles'[g2][i].task = handles[g2][i].task
  BY <1>d, <1>3, <1>4
<1>6. \A g2 \in Groups, t \in 1 .. Len(tasks) : Waiting(g2, t) => Waiting(g2, t)'
  BY <1>1, QuietSlots, WaitingKeeps
<1>7. \A t \in 1 .. Len(tasks) :
        tasks[t].executed \in Nat /\ tasks[t].executed <= tasks[t].executed
  BY TaskFacts
<1> QED
  BY <1>1, <1>4, <1>5, <1>6, <1>7 DEF Calm

LEMMA CalmCommitWrite ==
    ASSUME TypeInv, UNCHANGED <<serverVars, stream>>, CommitWrite
    PROVE  Calm
<1>d. SUFFICES ASSUME NEW g, g = call.group, NEW i, i = call.handle + 1,
                      NEW hd, hd = handles[g][i], NEW t, t = hd.task,
                      NEW e, e = [tasks[t] EXCEPT !.committed = hd.commit]
               PROVE  Calm
  OBVIOUS
<1>1. /\ pc = "commit" /\ tasks' = [tasks EXCEPT ![t] = e]
      /\ UNCHANGED <<sendMsgs, handles>>
  BY <1>d DEF CommitWrite
<1>2. g \in Groups /\ hd \in Handle /\ t \in 1 .. Len(tasks) /\ tasks[t] \in Task
  BY <1>d, <1>1, CallTask
<1>3. /\ e \in Task /\ e.group = tasks[t].group /\ e.launched = tasks[t].launched
      /\ e.executed = tasks[t].executed
  BY <1>d, <1>2 DEF Task, Handle
<1>4. /\ Len(tasks') = Len(tasks) /\ tasks'[t] = e
      /\ \A u \in 1 .. Len(tasks) : u # t => tasks'[u] = tasks[u]
  BY <1>1, <1>2, <1>3, TaskChanged
<1>5. \A u \in 1 .. Len(tasks) :
        /\ tasks'[u].group = tasks[u].group /\ tasks'[u].launched = tasks[u].launched
        /\ tasks'[u].executed = tasks[u].executed
  BY <1>3, <1>4
<1>6. \A u \in 1 .. Len(tasks) :
        tasks[u].executed \in Nat /\ tasks[u].executed <= tasks[u].executed
  BY TaskFacts
<1>7. \A g2 \in Groups, u \in 1 .. Len(tasks) : Waiting(g2, u) => Waiting(g2, u)'
  BY <1>1, QuietSlots, WaitingKeeps
<1> QED
  BY <1>1, <1>4, <1>5, <1>6, <1>7 DEF Calm

LEMMA CalmWaitCommit == ASSUME TypeInv, NEW g \in Groups, WaitCommit(g) PROVE Calm
<1>1. /\ Dropped(g) /\ Head(stream[g]).type = "waitCommit"
      /\ UNCHANGED <<sendMsgs, clientVars, serverVars, tasks>>
  BY DEF WaitCommit, Execute, Dropped
<1>2. \A t \in 1 .. Len(tasks) :
        tasks[t].executed \in Nat /\ tasks[t].executed <= tasks[t].executed
  BY TaskFacts
<1>3. \A g2 \in Groups, t \in 1 .. Len(tasks) : Waiting(g2, t) => Waiting(g2, t)'
  BY <1>1, QuietSlots, WaitingKeeps
<1> QED
  BY <1>1, <1>2, <1>3 DEF Calm, clientVars

LEMMA CalmRunKernel == ASSUME TypeInv, NEW g \in Groups, RunKernel(g) PROVE Calm
<1>d. SUFFICES ASSUME NEW t, t = Head(stream[g]).task,
                      NEW e, e = [tasks[t] EXCEPT !.executed = @ + 1]
               PROVE  Calm
  OBVIOUS
<1>1. /\ Dropped(g) /\ Head(stream[g]).type = "kernel"
      /\ tasks' = [tasks EXCEPT ![t] = e]
      /\ UNCHANGED <<sendMsgs, clientVars, serverVars>>
  BY <1>d DEF RunKernel, Execute, Dropped
<1>2. t \in 1 .. Len(tasks)
  BY <1>d, <1>1, DroppedEntries DEF TypeInv, LinksOK
<1>3. /\ e \in Task /\ e.group = tasks[t].group /\ e.launched = tasks[t].launched
      /\ e.executed = tasks[t].executed + 1 /\ tasks[t].executed \in Nat
  <2>1. tasks[t] \in Task
    BY <1>2, TaskFacts
  <2>2. /\ e.group = tasks[t].group /\ e.launched = tasks[t].launched
        /\ e.executed = tasks[t].executed + 1 /\ tasks[t].executed \in Nat
    BY <1>d, <2>1 DEF Task
  <2>3. e \in Task
    BY <1>d, <2>1, <2>2 DEF Task
  <2> QED
    BY <2>2, <2>3
<1>4. /\ Len(tasks') = Len(tasks) /\ tasks'[t] = e
      /\ \A u \in 1 .. Len(tasks) : u # t => tasks'[u] = tasks[u]
  BY <1>1, <1>2, <1>3, TaskChanged
<1>5. \A u \in 1 .. Len(tasks) :
        tasks[u].executed \in Nat /\ tasks[u].executed <= tasks[u].executed
  BY TaskFacts
<1>6. \A u \in 1 .. Len(tasks) :
        /\ tasks'[u].group = tasks[u].group /\ tasks'[u].launched = tasks[u].launched
        /\ tasks'[u].executed \in Nat /\ tasks[u].executed <= tasks'[u].executed
  BY <1>3, <1>4, <1>5
<1>7. \A g2 \in Groups, u \in 1 .. Len(tasks) : Waiting(g2, u) => Waiting(g2, u)'
  BY <1>1, QuietSlots, WaitingKeeps
<1>8. tasks'[Head(stream[g]).task].executed = tasks[Head(stream[g]).task].executed + 1
  BY <1>d, <1>3, <1>4
<1>9. Dropped(g) /\ LET h == Head(stream[g])
                    IN h.type = "kernel" => tasks'[h.task].executed = tasks[h.task].executed + 1
  BY <1>1, <1>8
<1> QED
  BY <1>1, <1>4, <1>6, <1>7, <1>9 DEF Calm, clientVars

LEMMA CalmPrepareRetry ==
    ASSUME TypeInv, CommitInv, UNCHANGED clientVars, NEW g \in Groups, PrepareRetry(g)
    PROVE  Calm
<1>d. SUFFICES ASSUME NEW m, m = CurrentMsg(g), NEW p, p = msgPos[g] PROVE Calm
  OBVIOUS
<1>1. /\ Serve(g, "prepare") /\ UNCHANGED <<tasks, stream>>
      /\ rcvMsg' = [rcvMsg EXCEPT ![g] = m] /\ retryCnt' = [retryCnt EXCEPT ![g] = @ + 1]
  BY <1>d DEF PrepareRetry, RetryMsg
<1>2. /\ p \in Pos /\ m \in Msg /\ m.type = "prepare"
      /\ \A g2 \in Groups, q \in Pos : g2 # g \/ q # p =>
           (InSlot(g2, q)' <=> InSlot(g2, q)) /\ sendMsgs'[g2][q] = sendMsgs[g2][q]
      /\ \/ InHand(g) /\ m = rcvMsg[g] /\ sendMsgs' = sendMsgs
         \/ ~InHand(g) /\ InSlot(g, p) /\ m = sendMsgs[g][p] /\ ~InSlot(g, p)'
  BY <1>d, <1>1, PrepareServed DEF CommitInv
<1>3. /\ rcvMsg'[g] = m /\ retryCnt'[g] > 0
      /\ \A g2 \in Groups \ {g} : rcvMsg'[g2] = rcvMsg[g2] /\ retryCnt'[g2] = retryCnt[g2]
  <2>1. rcvMsg \in [Groups -> Msg] /\ retryCnt \in [Groups -> 0 .. MaxRetry + 1]
    BY DEF TypeInv, TypeOK, ServerTypeOK
  <2>2. retryCnt[g] \in Nat
    BY <2>1, MaxRetryAssumption
  <2> QED
    BY <1>1, <2>1, <2>2
<1>4. InHand(g)'
  BY <1>2, <1>3 DEF InHand
<1>5. ASSUME NEW g2 \in Groups, NEW t, Waiting(g2, t) PROVE Waiting(g2, t)'
  <2>1. CASE InHand(g2) /\ rcvMsg[g2].task = t
    <3>1. CASE g2 = g
      BY <1>2, <1>3, <1>4, <2>1, <3>1 DEF Waiting
    <3>2. CASE g2 # g
      BY <1>3, <2>1, <3>2 DEF Waiting, InHand
    <3> QED
      BY <3>1, <3>2
  <2>2. ASSUME NEW q \in Pos, InSlot(g2, q), sendMsgs[g2][q].task = t PROVE Waiting(g2, t)'
    <3>1. CASE g2 # g \/ q # p
      BY <1>2, <2>2, <3>1 DEF Waiting
    <3>2. CASE g2 = g /\ q = p /\ sendMsgs' = sendMsgs
      BY <2>2, <3>2 DEF Waiting, InSlot
    <3>3. CASE g2 = g /\ q = p /\ m = sendMsgs[g][p]
      BY <1>3, <1>4, <2>2, <3>3 DEF Waiting
    <3> QED
      BY <1>2, <3>1, <3>2, <3>3
  <2> QED
    BY <1>5, <2>1, <2>2 DEF Waiting
<1>6. \A t \in 1 .. Len(tasks) :
        tasks[t].executed \in Nat /\ tasks[t].executed <= tasks[t].executed
  BY TaskFacts
<1> QED
  BY <1>1, <1>5, <1>6 DEF Calm, clientVars

LEMMA CalmSteps ==
    ASSUME TypeInv, PlaceInv, CommitInv, [Next]_vars
    PROVE  \/ Calm
           \/ SendPrepare /\ UNCHANGED <<serverVars, stream>>
           \/ NextLaunch /\ UNCHANGED <<serverVars, stream>>
           \/ \E g \in Groups : PrepareProcess(g) /\ UNCHANGED clientVars
<1>a. CommittedInv /\ RetryInv
  BY DEF CommitInv, PlaceInv
<1>1. CASE ClientNext
  <2>1. UNCHANGED <<serverVars, stream>>
    BY <1>1 DEF ClientNext
  <2>2. CASE QuietClient
    BY <1>a, <2>1, <2>2, ClientQuiet, CalmQuiet
  <2>3. CASE \E g \in Groups, h \in Handles : Commit(g, h)
    BY <2>1, <2>3, CalmCommit
  <2>4. CASE CommitWrite
    BY <2>1, <2>4, CalmCommitWrite
  <2> QED
    BY <1>1, <2>1, <2>2, <2>3, <2>4 DEF ClientNext, CallApi, ContinueCall, QuietClient
<1>2. CASE ServerNext
  <2>1. UNCHANGED clientVars
    BY <1>2 DEF ServerNext
  <2>2. CASE RestartServer \/ \E g \in Groups : QuietVisit(g)
    BY <1>a, <2>1, <2>2, ServerQuiet, CalmQuiet
  <2>3. CASE \E g \in Groups : PrepareRetry(g)
    BY <2>1, <2>3, CalmPrepareRetry
  <2> QED
    BY <1>2, <2>1, <2>2, <2>3 DEF ServerNext, GroupServerProcess, QuietVisit
<1>3. ASSUME NEW g \in Groups, StreamNext(g) PROVE Calm
  <2>1. CASE WaitFinish(g) \/ PostFinish(g)
    BY <1>a, <2>1, StreamQuiet, CalmQuiet
  <2> QED
    BY <1>3, <2>1, CalmWaitCommit, CalmRunKernel DEF StreamNext
<1>4. CASE UNCHANGED vars
  <2>1. /\ UNCHANGED <<clientVars, serverVars, tasks, sendMsgs, commitTurnCnt>>
        /\ stream' = stream
    BY <1>4 DEF vars, areaVars
  <2>2. TasksKept /\ RunsKept /\ MessagesKept
    BY <2>1, QuietTasks, QuietSlots
  <2>3. RowsKept
    BY <2>1, ClientRows
  <2> QED
    BY <1>a, <2>1, <2>2, <2>3, CalmQuiet DEF Quiet, clientVars, CommittedInv
<1> QED
  BY <1>1, <1>2, <1>3, <1>4 DEF Next, Terminated

OrderParts == /\ RowOrder /\ WaitingInv /\ LaunchOrder
              /\ OldDone /\ ReadyInv /\ OrderInv

CalmMove(g, d) ==
    /\ d \in {0, 1} /\ Moved(g, d)
    /\ d = 1 => LET e == stream[g][1]
                IN e.type = "kernel" => tasks'[e.task].executed = tasks[e.task].executed + 1

LEMMA CalmMoves == ASSUME TypeInv, Calm, NEW g \in Groups PROVE \E d : CalmMove(g, d)
<1>1. stream'[g] = stream[g] => CalmMove(g, 0)
  BY MovedCases DEF CalmMove
<1>2. ASSUME NEW s \in Groups, SyncAdded(s) PROVE CalmMove(g, 0)
  <2>1. CASE s = g
    BY <1>2, <2>1, MovedCases DEF CalmMove
  <2>2. CASE s # g
    BY <1>1, <1>2, <2>2, MovedCases
  <2> QED
    BY <2>1, <2>2
<1>3. ASSUME NEW s \in Groups, Dropped(s),
             LET e == Head(stream[s])
             IN e.type = "kernel" => tasks'[e.task].executed = tasks[e.task].executed + 1
      PROVE  \E d : CalmMove(g, d)
  <2>1. CASE s = g
    BY <1>3, <2>1, MovedCases, DroppedEntries DEF CalmMove
  <2>2. CASE s # g
    BY <1>1, <1>3, <2>2, MovedCases
  <2> QED
    BY <2>1, <2>2
<1> QED
  BY <1>1, <1>2, <1>3 DEF Calm

\* An entry of a stream after a calm step is one of before, or no turn.
LEMMA CalmEntry ==
    ASSUME TypeInv, EntryInv, NEW g \in Groups, NEW d, Moved(g, d), NEW j \in 1 .. Len(stream'[g])
    PROVE  /\ d \in Int /\ j + d \in Int /\ Len(stream[g]) \in Nat
           /\ \/ ~IsTurn(stream'[g][j])
              \/ /\ j + d \in 1 .. Len(stream[g]) /\ stream'[g][j] = stream[g][j + d]
                 /\ IsTurn(stream[g][j + d]) /\ stream[g][j + d].task \in 1 .. Len(tasks)
<1>1. Len(stream[g]) \in Nat /\ Len(stream'[g]) \in Nat /\ d \in {0, 1} /\ j \in Nat /\ j >= 1
  BY EntryFacts DEF Moved
<1>2. CASE j + d <= Len(stream[g])
  <2>1. j + d \in 1 .. Len(stream[g]) /\ stream'[g][j] = stream[g][j + d]
    BY <1>1, <1>2 DEF Moved
  <2>2. EntryOK(stream[g][j + d], g)
    BY <2>1 DEF EntryInv
  <2> QED
    BY <1>1, <2>1, <2>2 DEF EntryOK, IsTurn
<1>3. CASE ~(j + d <= Len(stream[g]))
  BY <1>1, <1>3 DEF Moved, IsTurn
<1> QED
  BY <1>2, <1>3

LEMMA NeedFacts ==
    ASSUME NEW e \in Sqe
    PROVE  /\ Need(e) \in Int /\ After(e) \in Int /\ e.val \in Nat
           /\ After(e) = IF e.type = "kernel" THEN Need(e) + 1 ELSE Need(e)
BY DEF Need, After, Sqe

LEMMA ReadyCalm == ASSUME TypeInv, EntryInv, ReadyInv, Calm PROVE ReadyInv'
<1> SUFFICES ASSUME NEW g \in Groups, NEW j \in 1 .. Len(stream'[g]),
                    IsTurn(stream'[g][j]), Need(stream'[g][j]) > 0
             PROVE  IF j = 1 THEN tasks'[stream'[g][j].task].executed >= Need(stream'[g][j])
                    ELSE LET h == stream'[g][j - 1]
                         IN /\ IsTurn(h) /\ h.task = stream'[g][j].task
                            /\ After(h) >= Need(stream'[g][j])
  BY DEF ReadyInv, Ready
<1>1. PICK d : CalmMove(g, d)
  BY CalmMoves
<1>2. /\ d \in {0, 1} /\ Moved(g, d) /\ j + d \in Int /\ Len(stream[g]) \in Nat
      /\ j + d \in 1 .. Len(stream[g]) /\ stream'[g][j] = stream[g][j + d]
      /\ stream[g][j + d].task \in 1 .. Len(tasks)
  BY <1>1, CalmEntry DEF CalmMove
<1>d. SUFFICES ASSUME NEW e, e = stream[g][j + d], NEW t, t = e.task, NEW k, k = j + d,
                      NEW one, one = 1
               PROVE  IF j = one THEN tasks'[t].executed >= Need(e)
                      ELSE LET h == stream'[g][j - 1]
                           IN IsTurn(h) /\ h.task = t /\ After(h) >= Need(e)
  BY <1>2
<1>3. /\ IsTurn(e) /\ Need(e) > 0 /\ e \in Sqe /\ t \in 1 .. Len(tasks) /\ Need(e) \in Int
      /\ k \in 1 .. Len(stream[g]) /\ e = stream[g][k] /\ Ready(g, k)
  BY <1>2, <1>d, EntryFacts, NeedFacts DEF ReadyInv
<1>4. tasks[t].executed \in Nat /\ tasks[t].executed <= tasks'[t].executed
      /\ (d = 1 /\ stream[g][one].type = "kernel" /\ stream[g][one].task = t
            => tasks'[t].executed = tasks[t].executed + 1)
  BY <1>1, <1>3, <1>d, TaskFacts DEF Calm, CalmMove
<1>5. CASE k = one
  <2>1. j = one /\ tasks[t].executed >= Need(e)
    BY <1>2, <1>3, <1>d, <1>5 DEF Ready
  <2>2. tasks'[t].executed \in Nat
    BY <1>3 DEF Calm
  <2> QED
    BY <1>3, <1>4, <2>1, <2>2
<1>6. CASE k # one /\ j # one
  <2>1. /\ j - 1 \in 1 .. Len(stream'[g]) /\ (j - 1) + d = k - 1
        /\ (j - 1) + d <= Len(stream[g])
    BY <1>2, <1>3, <1>d, <1>6 DEF Moved
  <2>2. stream'[g][j - 1] = stream[g][k - 1]
    BY <1>2, <2>1 DEF Moved
  <2>3. LET h == stream[g][k - 1] IN IsTurn(h) /\ h.task = t /\ After(h) >= Need(e)
    BY <1>3, <1>d, <1>6 DEF Ready
  <2> QED
    BY <1>6, <2>2, <2>3
<1>7. CASE k # one /\ j = one
  <2>1. d = 1 /\ k - 1 = one /\ one \in 1 .. Len(stream[g])
    BY <1>2, <1>3, <1>d, <1>7
  <2> SUFFICES ASSUME NEW h, h = stream[g][one] PROVE tasks'[t].executed >= Need(e)
    BY <1>7
  <2>2. IsTurn(h) /\ h.task = t /\ After(h) >= Need(e)
    BY <1>3, <1>d, <1>7, <2>1 DEF Ready
  <2>3. h \in Sqe /\ Need(h) \in Int /\ After(h) = IF h.type = "kernel" THEN Need(h) + 1 ELSE Need(h)
    BY <2>1, EntryFacts, NeedFacts
  <2>4. Need(h) > 0 => tasks[t].executed >= Need(h)
    <3>1. Ready(g, one)
      BY <2>1 DEF ReadyInv
    <3> QED
      BY <1>d, <2>2, <3>1 DEF Ready
  <2>5. tasks'[t].executed \in Int
    BY <1>3 DEF Calm
  <2> QED
    BY <1>3, <1>4, <2>1, <2>2, <2>3, <2>4, <2>5
<1> QED
  BY <1>5, <1>6, <1>7

LEMMA OrderCalm ==
    ASSUME TypeInv, CommitInv, OrderParts, Calm PROVE OrderParts'
<1>a. /\ RowOrder /\ WaitingInv /\ LaunchOrder /\ OldDone /\ ReadyInv /\ OrderInv /\ EntryInv
  BY DEF OrderParts, CommitInv
<1>1. RowOrder'
  <2>1. \A g \in Groups : Len(handles[g]) \in Nat
    BY RowFacts
  <2> QED
    BY <1>a, <2>1 DEF RowOrder, Calm
<1>2. WaitingInv'
  BY <1>a, TaskFacts DEF WaitingInv, Calm
<1>3. LaunchOrder'
  BY <1>a DEF LaunchOrder, Calm
<1>4. ASSUME NEW t \in 1 .. Len(tasks), NEW g \in Groups, NoEntry(g, t) PROVE NoEntry(g, t)'
  <2>1. PICK d : CalmMove(g, d)
    BY CalmMoves
  <2> QED
    BY <1>a, <1>4, <2>1, CalmEntry DEF NoEntry, CalmMove
<1>5. OldDone'
  <2> SUFFICES ASSUME NEW t \in 1 .. Len(tasks'), ~InTable(t)'
               PROVE  tasks'[t].launched /\ \A g \in Groups : NoEntry(g, t)'
    BY DEF OldDone
  <2>1. t \in 1 .. Len(tasks) /\ tasks'[t].launched = tasks[t].launched
    BY DEF Calm
  <2>2. ~InTable(t)
    <3> SUFFICES ASSUME NEW g \in Groups, NEW i \in 1 .. Len(handles[g]), handles[g][i].task = t
                 PROVE  FALSE
      BY DEF InTable
    <3>1. i \in 1 .. Len(handles'[g]) /\ handles'[g][i].task = t
      BY DEF Calm
    <3> QED
      BY <3>1 DEF InTable
  <2> QED
    BY <1>a, <1>4, <2>1, <2>2 DEF OldDone
<1>6. ReadyInv'
  BY <1>a, ReadyCalm
<1>7. OrderInv'
  <2> SUFFICES ASSUME NEW g \in Groups, NEW j \in 1 .. Len(stream'[g]),
                      NEW k \in 1 .. Len(stream'[g]), j < k
               PROVE  Follows(stream'[g][j], stream'[g][k])
    BY DEF OrderInv
  <2>1. PICK d : CalmMove(g, d)
    BY CalmMoves
  <2>2. CASE ~IsTurn(stream'[g][j]) \/ ~IsTurn(stream'[g][k])
    BY <2>2 DEF Follows
  <2>3. CASE IsTurn(stream'[g][j]) /\ IsTurn(stream'[g][k])
    <3>1. /\ j + d \in 1 .. Len(stream[g]) /\ stream'[g][j] = stream[g][j + d]
          /\ k + d \in 1 .. Len(stream[g]) /\ stream'[g][k] = stream[g][k + d]
          /\ d \in Int
      BY <1>a, <2>1, <2>3, CalmEntry DEF CalmMove
    <3>2. j + d < k + d
      BY <3>1
    <3> QED
      BY <1>a, <3>1, <3>2 DEF OrderInv
  <2> QED
    BY <2>2, <2>3
<1> QED
  BY <1>1, <1>2, <1>3, <1>5, <1>6, <1>7 DEF OrderParts

----------------------------------------------------------------------------
(* A task is issued, a task is launched, a launch begins.                   *)

LEMMA OrderSend ==
    ASSUME TypeInv, CommitInv, OrderParts, UNCHANGED <<serverVars, stream>>, SendPrepare
    PROVE  OrderParts'
<1>a. /\ RowOrder /\ WaitingInv /\ LaunchOrder /\ OldDone /\ ReadyInv /\ OrderInv
      /\ EntryInv /\ TableInv
  BY DEF OrderParts, CommitInv
<1>b. PICK g, p, m, u, hd : Prepared(g, p, m, u, hd)
  BY SendPrepared
<1>1. /\ g \in Groups /\ p \in Pos /\ p = curMsgPosition[g] /\ m \in Msg /\ hd \in Handle
      /\ u = Len(tasks) + 1 /\ m.type = "prepare" /\ m.task = u /\ hd.task = u /\ hd.pos = p
      /\ sendMsgs[g][p] = NoMsg /\ sendMsgs' = [sendMsgs EXCEPT ![g][p] = m]
      /\ handles' = [handles EXCEPT ![g] = Append(@, hd)]
      /\ Len(tasks') = u /\ \A t \in 1 .. Len(tasks) : tasks'[t] = tasks[t]
      /\ tasks'[u].group = g /\ ~tasks'[u].launched
  BY <1>b DEF Prepared
<1>2. /\ Len(handles'[g]) = Len(handles[g]) + 1 /\ handles'[g][Len(handles[g]) + 1] = hd
      /\ \A i \in 1 .. Len(handles[g]) : handles'[g][i] = handles[g][i]
      /\ \A g2 \in Groups \ {g} : handles'[g2] = handles[g2]
  BY <1>1, RowAdded
<1>3. Len(tasks) \in Nat /\ Len(handles[g]) \in Nat
  BY TaskFacts, RowFacts
<1>4. RowOrder'
  <2>1. \A g2 \in Groups : \A i \in 1 .. Len(handles[g2]) :
          /\ handles[g2][i].task \in 1 .. Len(tasks) /\ handles[g2][i].pos \in Int
          /\ handles[g2][i].pos < curMsgPosition[g2]
    <3>1. \A g2 \in Groups : \A i \in 1 .. Len(handles[g2]) :
            handles[g2][i].task \in 1 .. Len(tasks) /\ handles[g2][i].pos \in Pos
      BY RowFacts
    <3>2. \A g2 \in Groups : \A i \in 1 .. Len(handles[g2]) :
            handles[g2][i].pos < curMsgPosition[g2]
      BY <1>a DEF TableInv
    <3>3. \A q \in Pos : q \in Int
      BY ConstantFacts
    <3> QED
      BY <3>1, <3>2, <3>3
  <2> SUFFICES ASSUME NEW g2 \in Groups, NEW i \in 1 .. Len(handles'[g2]),
                      NEW j \in 1 .. Len(handles'[g2]), i < j
               PROVE  /\ handles'[g2][i].pos < handles'[g2][j].pos
                      /\ handles'[g2][i].task < handles'[g2][j].task
    BY DEF RowOrder
  <2>2. CASE g2 # g
    BY <1>a, <1>2, <2>2 DEF RowOrder
  <2>3. CASE g2 = g /\ j <= Len(handles[g])
    <3>1. i \in 1 .. Len(handles[g]) /\ j \in 1 .. Len(handles[g])
      BY <1>2, <1>3, <2>3
    <3> QED
      BY <1>a, <1>1, <1>2, <2>3, <3>1 DEF RowOrder
  <2>4. CASE g2 = g /\ ~(j <= Len(handles[g]))
    <3>1. i \in 1 .. Len(handles[g]) /\ handles'[g][j] = hd
      BY <1>2, <1>3, <2>4
    <3> QED
      BY <1>1, <1>2, <1>3, <2>1, <2>4, <3>1
  <2> QED
    BY <2>2, <2>3, <2>4
<1>5. WaitingInv'
  <2>1. sendMsgs \in [Groups -> [Pos -> Msg]]
    BY DEF TypeInv, TypeOK, AreaTypeOK
  <2>2. Waiting(g, u)'
    BY <1>1, <2>1 DEF Waiting, InSlot
  <2>3. ASSUME NEW g2 \in Groups, NEW t, Waiting(g2, t) PROVE Waiting(g2, t)'
    <3>1. InHand(g2)' <=> InHand(g2)
      BY DEF InHand, serverVars
    <3>2. \A q \in Pos : InSlot(g2, q) => InSlot(g2, q)' /\ sendMsgs'[g2][q] = sendMsgs[g2][q]
      BY <1>1, <2>1 DEF InSlot, NoMsg
    <3> QED
      BY <2>3, <3>1, <3>2 DEF Waiting, serverVars
  <2> SUFFICES ASSUME NEW g2 \in Groups, NEW t \in 1 .. Len(tasks'),
                      tasks'[t].group = g2, ~tasks'[t].launched
               PROVE  Waiting(g2, t)'
    BY DEF WaitingInv
  <2>4. CASE t = u
    <3>1. g2 = g
      BY <1>1, <2>4
    <3> QED
      BY <2>2, <2>4, <3>1
  <2>5. CASE t # u
    <3>1. t \in 1 .. Len(tasks) /\ tasks'[t] = tasks[t]
      BY <1>1, <1>3, <2>5
    <3>2. Waiting(g2, t)
      BY <1>a, <3>1 DEF WaitingInv
    <3> QED
      BY <2>3, <3>1, <3>2
  <2> QED
    BY <2>4, <2>5
<1>6. LaunchOrder'
  BY <1>a, <1>1, <1>3 DEF LaunchOrder
<1>7. OldDone'
  <2> SUFFICES ASSUME NEW t \in 1 .. Len(tasks'), ~InTable(t)'
               PROVE  tasks'[t].launched /\ \A g2 \in Groups : NoEntry(g2, t)'
    BY DEF OldDone
  <2>1. Len(handles[g]) + 1 \in 1 .. Len(handles'[g])
    BY <1>2, <1>3
  <2>2. t # u
    BY <1>1, <1>2, <2>1 DEF InTable
  <2>3. t \in 1 .. Len(tasks) /\ tasks'[t] = tasks[t]
    BY <1>1, <1>3, <2>2
  <2>4. ~InTable(t)
    <3>1. ASSUME NEW g2 \in Groups, NEW i \in 1 .. Len(handles[g2]), handles[g2][i].task = t
          PROVE  InTable(t)'
      <4>1. CASE g2 = g
        BY <1>2, <1>3, <3>1, <4>1 DEF InTable
      <4>2. CASE g2 # g
        BY <1>2, <3>1, <4>2 DEF InTable
      <4> QED
        BY <4>1, <4>2
    <3> QED
      BY <3>1 DEF InTable
  <2> QED
    BY <1>a, <2>3, <2>4 DEF OldDone, NoEntry
<1>8. ReadyInv'
  <2>1. \A g2 \in Groups : \A j \in 1 .. Len(stream[g2]) :
          IsTurn(stream[g2][j]) => tasks'[stream[g2][j].task] = tasks[stream[g2][j].task]
    BY <1>a, <1>1 DEF EntryInv, EntryOK, IsTurn
  <2> QED
    BY <1>a, <2>1 DEF ReadyInv, Ready
<1>9. OrderInv'
  BY <1>a DEF OrderInv
<1> QED
  BY <1>4, <1>5, <1>6, <1>7, <1>8, <1>9 DEF OrderParts

LEMMA OrderLaunch ==
    ASSUME TypeInv, CommitInv, OrderParts, Careful, DoneInv,
           UNCHANGED <<serverVars, stream>>, NextLaunch
    PROVE  OrderParts' /\ Waits
<1>a. /\ RowOrder /\ WaitingInv /\ LaunchOrder /\ OldDone /\ ReadyInv /\ OrderInv /\ TableInv
  BY DEF OrderParts, CommitInv
<1>1. /\ pc = "ready" /\ \A g \in Groups : finalized[g]
      /\ launch < Launches /\ UNCHANGED <<sendMsgs, tasks>>
      /\ \A g \in Groups : Len(handles'[g]) = 0
  BY DEF NextLaunch, areaVars, PerGroup
<1>2. Waits
  <2>1. launch \in 1 .. Launches
    BY DEF TypeInv, TypeOK, ClientTypeOK
  <2> QED
    BY <1>1, <2>1, BoundsAssumption DEF Careful
<1>3. \A g \in Groups : AllDone(g)
  BY <1>1, <1>2 DEF DoneInv, Ending
<1>4. RowOrder'
  BY <1>1 DEF RowOrder
<1>5. WaitingInv'
  BY <1>a, <1>1 DEF WaitingInv, Waiting, InHand, InSlot, serverVars
<1>6. LaunchOrder' /\ OrderInv'
  BY <1>a, <1>1 DEF LaunchOrder, OrderInv
<1>7. OldDone'
  <2> SUFFICES ASSUME NEW t \in 1 .. Len(tasks)
               PROVE  tasks[t].launched /\ \A g \in Groups : NoEntry(g, t)
    BY <1>1 DEF OldDone, NoEntry
  <2>1. tasks[t].launched
    BY <1>a, <1>3 DEF OldDone, InTable, AllDone
  <2> QED
    BY <1>3, <2>1 DEF NoEntry, AllDone
<1>8. ReadyInv'
  BY <1>a, <1>1 DEF ReadyInv, Ready
<1> QED
  BY <1>2, <1>4, <1>5, <1>6, <1>7, <1>8 DEF OrderParts

\* The entries of a task: each makes the next ready, the posts in their order.
TurnsInOrder(sqes, t) ==
    \A i \in 1 .. Len(sqes) :
        /\ IsTurn(sqes[i]) /\ sqes[i].task = t
        /\ Need(sqes[i]) > 0 => i > 1 /\ After(sqes[i - 1]) >= Need(sqes[i])
        /\ \A k \in 1 .. Len(sqes) :
             i < k /\ sqes[i].type = "post" => sqes[i].val < sqes[k].val

LEMMA TaskSqesInOrder ==
    ASSUME NEW g \in Groups, NEW p \in Pos, NEW m \in Msg, m.repeat > 0,
           NEW sqes, sqes = TaskSqes(g, p, m)
    PROVE  TurnsInOrder(sqes, m.task)
<1> SUFFICES ASSUME NEW r \in Nat, r > 0, r = m.repeat PROVE TurnsInOrder(sqes, m.task)
  BY DEF Msg
<1>1. sqes \in Seq(Sqe)
  BY TaskSqesType
<1>2. /\ DOMAIN sqes = 1 .. 3 * r
      /\ \A i \in 1 .. 3 * r :
           /\ sqes[i].task = m.task /\ sqes[i].val = (i + 2) \div 3
           /\ sqes[i].type = CASE i % 3 = 1 -> "waitCommit" [] i % 3 = 2 -> "kernel"
                               [] OTHER -> "post"
  BY DEF TaskSqes
<1>3. Len(sqes) = 3 * r
  BY <1>1, <1>2, LenProperties
<1>4. ASSUME NEW i \in 1 .. 3 * r
      PROVE  /\ i % 3 = 1 => sqes[i].type = "waitCommit"
             /\ i % 3 = 2 => sqes[i].type = "kernel"
             /\ i % 3 = 0 => sqes[i].type = "post"
             /\ i % 3 \in {0, 1, 2}
             /\ sqes[i].val = (i + 2) \div 3 /\ sqes[i].task = m.task
  BY <1>2
<1>5. ASSUME NEW i \in 1 .. 3 * r
      PROVE  /\ IsTurn(sqes[i])
             /\ i % 3 = 0 => Need(sqes[i]) = (i + 2) \div 3 /\ After(sqes[i]) = (i + 2) \div 3
             /\ i % 3 = 1 => /\ Need(sqes[i]) = (i + 2) \div 3 - 1
                             /\ After(sqes[i]) = (i + 2) \div 3 - 1
             /\ i % 3 = 2 => /\ Need(sqes[i]) = (i + 2) \div 3 - 1
                             /\ After(sqes[i]) = (i + 2) \div 3 - 1 + 1
  BY <1>4 DEF IsTurn, Need, After
<1>6. ASSUME NEW i \in 1 .. 3 * r, Need(sqes[i]) > 0
      PROVE  i > 1 /\ After(sqes[i - 1]) >= Need(sqes[i])
  <2>1. CASE i % 3 = 0
    <3>1. i - 1 \in 1 .. 3 * r /\ (i - 1) % 3 = 2 /\ (i - 1 + 2) \div 3 = (i + 2) \div 3
      BY <2>1
    <3> QED
      BY <1>5, <2>1, <3>1
  <2>2. CASE i % 3 = 1
    <3>1. i > 1
      BY <1>5, <1>6, <2>2
    <3>2. i - 1 \in 1 .. 3 * r /\ (i - 1) % 3 = 0 /\ (i - 1 + 2) \div 3 = (i + 2) \div 3 - 1
      BY <2>2, <3>1
    <3> QED
      BY <1>5, <2>2, <3>1, <3>2
  <2>3. CASE i % 3 = 2
    <3>1. i - 1 \in 1 .. 3 * r /\ (i - 1) % 3 = 1 /\ (i - 1 + 2) \div 3 = (i + 2) \div 3
      BY <2>3
    <3> QED
      BY <1>5, <2>3, <3>1
  <2> QED
    BY <1>4, <2>1, <2>2, <2>3
<1>7. ASSUME NEW i \in 1 .. 3 * r, NEW k \in 1 .. 3 * r, i < k, sqes[i].type = "post"
      PROVE  sqes[i].val < sqes[k].val
  <2>1. i % 3 = 0
    BY <1>4, <1>7
  <2>2. (i + 2) \div 3 < (k + 2) \div 3
    BY <1>7, <2>1
  <2> QED
    BY <1>4, <2>2
<1> QED
  BY <1>3, <1>4, <1>5, <1>6, <1>7 DEF TurnsInOrder

\* While the server reads, the slots before the one it reads next are empty.
LEMMA PassedSlots ==
    ASSUME TypeInv, PlaceInv, LaunchInv, server = "run", NEW g \in Groups, NEW q \in Pos,
           q < msgPos[g]
    PROVE  sendMsgs[g][q] = NoMsg
<1>1. Placed(g)
  BY DEF PlaceInv
<1>2. /\ launch \in Nat /\ serverLaunch \in Nat /\ retryCnt[g] \in Nat
      /\ msgPos[g] \in Nat /\ q \in Nat /\ 0 <= q
  BY PlaceTypes, ConstantFacts
<1>3. launch + 1 = serverLaunch \/ launch = serverLaunch
  BY <1>1, <1>2 DEF Placed, LaunchInv
<1>4. \E b : Layout(g, 0, "open", b, "open") \/ Layout(g, 0, "open", b, Sent(g))
  BY <1>1, <1>2, <1>3 DEF Placed
<1>5. q < From(g)
  BY <1>2 DEF From
<1> QED
  BY <1>2, <1>4, <1>5 DEF Layout

\* The task the server launches is the first of its group that still waits.
LEMMA FirstToLaunch ==
    ASSUME TypeInv, PlaceInv, CommitInv, LaunchInv, OrderParts,
           NEW g \in Groups, Serve(g, "prepare"), NEW t, t = CurrentMsg(g).task,
           NEW w \in 1 .. Len(tasks), w < t, tasks[w].group = g
    PROVE  tasks[w].launched
<1>a. /\ RowOrder /\ WaitingInv /\ OldDone /\ TableInv /\ MessageInv /\ CountInv
  BY DEF OrderParts, CommitInv
<1>d. SUFFICES ASSUME NEW m, m = CurrentMsg(g), NEW p, p = msgPos[g], ~tasks[w].launched
               PROVE  FALSE
  OBVIOUS
<1>1. /\ p \in Pos /\ m.task = t /\ t \in 1 .. Len(tasks) /\ NotLaunched(g, p, m)
      /\ server = "run"
  BY <1>a, <1>d, PrepareServed DEF Serve, Visit
<1>2. At(g, p, t) /\ ~tasks[t].launched /\ tasks[t].group = g
  BY <1>1 DEF NotLaunched, At
<1>3. PICK i \in 1 .. Len(handles[g]) : handles[g][i].task = w
  <2>1. PICK g2 \in Groups : \E i \in 1 .. Len(handles[g2]) : handles[g2][i].task = w
    BY <1>a, <1>d DEF OldDone, InTable
  <2>2. g2 = g
    BY <1>a, <2>1 DEF TableInv
  <2> QED
    BY <2>1, <2>2
<1>4. PICK k \in 1 .. Len(handles[g]) : handles[g][k].task = t
  <2>1. PICK g2 \in Groups : \E j \in 1 .. Len(handles[g2]) : handles[g2][j].task = t
    BY <1>a, <1>1, <1>2 DEF OldDone, InTable
  <2>2. g2 = g
    BY <1>a, <1>2, <2>1 DEF TableInv
  <2> QED
    BY <2>1, <2>2
<1>5. handles[g][i].pos < p
  <2>1. handles[g][k].pos = p
    BY <1>2, <1>4 DEF At
  <2>2. Len(handles[g]) \in Nat
    BY <1>1, RowFacts
  <2>3. ~(k < i) /\ k # i
    BY <1>1, <1>3, <1>4, <2>2, <1>a DEF RowOrder
  <2> QED
    BY <1>a, <1>3, <1>4, <2>1, <2>2, <2>3 DEF RowOrder
<1>6. Waiting(g, w)
  BY <1>a, <1>d DEF WaitingInv
<1>7. handles[g][i].pos \in Nat /\ p \in Nat
  BY <1>1, RowFacts, ConstantFacts
<1>8. CASE InHand(g) /\ rcvMsg[g].task = w
  <2>1. At(g, p, w)
    BY <1>a, <1>d, <1>8 DEF MessageInv, NotLaunched
  <2> QED
    BY <1>3, <1>5, <1>7, <2>1 DEF At
<1>9. ASSUME NEW q \in Pos, InSlot(g, q), sendMsgs[g][q].task = w PROVE FALSE
  <2>1. At(g, q, w)
    BY <1>a, <1>9 DEF MessageInv, NotLaunched
  <2>2. q < msgPos[g]
    BY <1>3, <1>5, <1>d, <2>1 DEF At
  <2>3. sendMsgs[g][q] = NoMsg
    BY <1>1, <2>2, PassedSlots
  <2> QED
    BY <1>9, <2>3 DEF InSlot, NoMsg
<1> QED
  BY <1>6, <1>8, <1>9 DEF Waiting

\* What launching a task t does: its turns are added to its stream.
Launched(g, t, sqes) ==
    /\ t \in 1 .. Len(tasks) /\ tasks[t].group = g /\ ~tasks[t].launched
    /\ sqes \in Seq(Sqe) /\ TurnsInOrder(sqes, t) /\ Added(g, sqes)
    /\ Len(tasks') = Len(tasks) /\ tasks'[t].launched
    /\ \A w \in 1 .. Len(tasks) :
        /\ tasks'[w].group = tasks[w].group /\ tasks'[w].executed = tasks[w].executed
        /\ w # t => tasks'[w].launched = tasks[w].launched
    /\ \A w \in 1 .. Len(tasks) : w < t /\ tasks[w].group = g => tasks[w].launched
    /\ \A g2 \in Groups, w \in 1 .. Len(tasks) : w # t /\ Waiting(g2, w) => Waiting(g2, w)'
    /\ UNCHANGED <<clientVars, finishedTurnCnt, launch, serverLaunch>> /\ server = "run"

LEMMA ProcessLaunches ==
    ASSUME TypeInv, PlaceInv, CommitInv, LaunchInv, OrderParts, UNCHANGED clientVars,
           NEW g \in Groups, PrepareProcess(g)
    PROVE  \E t, sqes : Launched(g, t, sqes)
<1>d. SUFFICES ASSUME NEW m, m = CurrentMsg(g), NEW p, p = msgPos[g], NEW t, t = m.task,
                      NEW sqes, sqes = TaskSqes(g, p, m),
                      NEW e, e = [tasks[t] EXCEPT !.launched = TRUE]
               PROVE  Launched(g, t, sqes)
  OBVIOUS
<1>1. /\ Serve(g, "prepare") /\ Added(g, sqes) /\ NextMsg(g)
      /\ tasks' = [tasks EXCEPT ![t] = e]
      /\ UNCHANGED <<finishedTurnCnt, serverLaunch>> /\ server = "run"
  BY <1>d DEF PrepareProcess, Serve, Visit, Enqueue, Added
<1>2. /\ p \in Pos /\ m \in Msg /\ t \in 1 .. Len(tasks) /\ NotLaunched(g, p, m)
      /\ \A g2 \in Groups, q \in Pos : g2 # g \/ q # p =>
           (InSlot(g2, q)' <=> InSlot(g2, q)) /\ sendMsgs'[g2][q] = sendMsgs[g2][q]
      /\ \/ InHand(g) /\ m = rcvMsg[g] /\ sendMsgs' = sendMsgs
         \/ ~InHand(g) /\ InSlot(g, p) /\ m = sendMsgs[g][p] /\ ~InSlot(g, p)'
  BY <1>d, <1>1, PrepareServed DEF CommitInv
<1>3. \A g2 \in Groups \ {g} : (InHand(g2)' <=> InHand(g2)) /\ rcvMsg'[g2] = rcvMsg[g2]
  <2>1. rcvMsg \in [Groups -> Msg] /\ retryCnt \in [Groups -> 0 .. MaxRetry + 1]
    BY DEF TypeInv, TypeOK, ServerTypeOK
  <2> QED
    BY <1>1, <2>1 DEF NextMsg, InHand
<1>4. /\ tasks[t].group = g /\ ~tasks[t].launched /\ tasks[t].repeat = m.repeat /\ m.repeat > 0
  BY <1>d, <1>2, TaskFacts DEF NotLaunched, At
<1>5. /\ e \in Task /\ e.launched = TRUE /\ e.group = tasks[t].group
      /\ e.executed = tasks[t].executed
  <2>1. tasks[t] \in Task
    BY <1>2, TaskFacts
  <2> QED
    BY <1>d, <2>1 DEF Task
<1>6. /\ Len(tasks') = Len(tasks) /\ tasks'[t] = e
      /\ \A u \in 1 .. Len(tasks) : u # t => tasks'[u] = tasks[u]
  BY <1>1, <1>2, <1>5, TaskChanged
<1>7. sqes \in Seq(Sqe) /\ TurnsInOrder(sqes, t)
  BY <1>d, <1>2, <1>4, TaskSqesFacts, TaskSqesInOrder
<1>8. ASSUME NEW g2 \in Groups, NEW w \in 1 .. Len(tasks), w # t, Waiting(g2, w)
      PROVE  Waiting(g2, w)'
  <2>1. CASE g2 # g
    <3>1. \A q \in Pos : InSlot(g2, q) => InSlot(g2, q)' /\ sendMsgs'[g2][q] = sendMsgs[g2][q]
      BY <1>2, <2>1
    <3> QED
      BY <1>3, <1>8, <2>1, <3>1 DEF Waiting
  <2>2. CASE g2 = g /\ InHand(g) /\ m = rcvMsg[g] /\ sendMsgs' = sendMsgs
    <3>1. PICK q \in Pos : InSlot(g2, q) /\ sendMsgs[g2][q].task = w
      BY <1>d, <1>8, <2>2 DEF Waiting
    <3> QED
      BY <2>2, <3>1 DEF Waiting, InSlot
  <2>3. CASE g2 = g /\ ~InHand(g) /\ m = sendMsgs[g][p]
    <3>1. PICK q \in Pos : InSlot(g2, q) /\ sendMsgs[g2][q].task = w
      BY <1>8, <2>3 DEF Waiting
    <3>2. q # p
      BY <1>d, <1>8, <2>3, <3>1
    <3> QED
      BY <1>2, <2>3, <3>1, <3>2 DEF Waiting
  <2> QED
    BY <1>2, <2>1, <2>2, <2>3
<1>9. \A w \in 1 .. Len(tasks) : w < t /\ tasks[w].group = g => tasks[w].launched
  BY <1>d, <1>1, FirstToLaunch
<1>10. /\ tasks'[t].launched
       /\ \A w \in 1 .. Len(tasks) :
            /\ tasks'[w].group = tasks[w].group /\ tasks'[w].executed = tasks[w].executed
            /\ w # t => tasks'[w].launched = tasks[w].launched
  BY <1>5, <1>6
<1>11. launch' = launch
  BY DEF clientVars
<1> QED
  BY <1>1, <1>2, <1>4, <1>6, <1>7, <1>8, <1>9, <1>10, <1>11 DEF Launched

LEMMA OrderProcess ==
    ASSUME TypeInv, CommitInv, OrderParts, NEW g \in Groups, NEW t, NEW sqes,
           Launched(g, t, sqes)
    PROVE  OrderParts'
<1>a. /\ RowOrder /\ WaitingInv /\ LaunchOrder /\ OldDone /\ ReadyInv /\ OrderInv
      /\ EntryInv /\ TableInv
  BY DEF OrderParts, CommitInv
<1>d. SUFFICES ASSUME NEW n, n = Len(stream[g]) PROVE OrderParts'
  OBVIOUS
<1>1. /\ t \in 1 .. Len(tasks) /\ tasks[t].group = g /\ ~tasks[t].launched
      /\ sqes \in Seq(Sqe) /\ TurnsInOrder(sqes, t) /\ Added(g, sqes)
      /\ Len(tasks') = Len(tasks) /\ tasks'[t].launched
      /\ \A w \in 1 .. Len(tasks) :
            /\ tasks'[w].group = tasks[w].group /\ tasks'[w].executed = tasks[w].executed
            /\ w # t => tasks'[w].launched = tasks[w].launched
      /\ \A w \in 1 .. Len(tasks) : w < t /\ tasks[w].group = g => tasks[w].launched
      /\ \A g2 \in Groups, w \in 1 .. Len(tasks) : w # t /\ Waiting(g2, w) => Waiting(g2, w)'
      /\ UNCHANGED handles
  BY DEF Launched, clientVars
<1>2. /\ n \in Nat /\ Len(sqes) \in Nat /\ Len(stream'[g]) = n + Len(sqes)
      /\ \A j \in 1 .. n : stream'[g][j] = stream[g][j]
      /\ \A j \in 1 .. Len(stream'[g]) : j > n =>
            j - n \in 1 .. Len(sqes) /\ stream'[g][j] = sqes[j - n]
      /\ \A g2 \in Groups \ {g} : stream'[g2] = stream[g2]
  BY <1>d, <1>1, AddedEntries, EntryFacts
<1>b. \A j \in 1 .. Len(stream'[g]) : j <= n =>
        j \in 1 .. Len(stream[g]) /\ stream'[g][j] = stream[g][j]
  BY <1>d, <1>2
<1>c. \A j \in 1 .. Len(stream'[g]) : ~(j <= n) =>
        j - n \in 1 .. Len(sqes) /\ stream'[g][j] = sqes[j - n]
  BY <1>2
<1>3. \A g2 \in Groups : \A j \in 1 .. Len(stream[g2]) : IsTurn(stream[g2][j]) =>
        /\ stream[g2][j].task \in 1 .. Len(tasks) /\ tasks[stream[g2][j].task].launched
        /\ tasks[stream[g2][j].task].group = g2
  BY <1>a DEF EntryInv, EntryOK, IsTurn, At
<1>4. RowOrder'
  BY <1>a, <1>1 DEF RowOrder
<1>5. WaitingInv'
  BY <1>a, <1>1 DEF WaitingInv
<1>6. LaunchOrder'
  <2> SUFFICES ASSUME NEW w \in 1 .. Len(tasks), NEW u \in 1 .. Len(tasks),
                      w < u, tasks[w].group = tasks[u].group, tasks'[u].launched
               PROVE  tasks'[w].launched
    BY <1>1 DEF LaunchOrder
  <2>1. CASE w = t
    BY <1>1, <2>1
  <2>2. CASE w # t /\ u = t
    BY <1>1, <2>2
  <2>3. CASE w # t /\ u # t
    BY <1>a, <1>1, <2>3 DEF LaunchOrder
  <2> QED
    BY <2>1, <2>2, <2>3
<1>7. OldDone'
  <2> SUFFICES ASSUME NEW w \in 1 .. Len(tasks), ~InTable(w)
               PROVE  tasks'[w].launched /\ \A g2 \in Groups : NoEntry(g2, w)'
    BY <1>1 DEF OldDone, InTable
  <2>1. tasks[w].launched /\ \A g2 \in Groups : NoEntry(g2, w)
    BY <1>a DEF OldDone
  <2>2. w # t
    BY <1>1, <2>1
  <2>3. NoEntry(g, w)'
    <3> SUFFICES ASSUME NEW j \in 1 .. Len(stream'[g]), IsTurn(stream'[g][j])
                 PROVE  stream'[g][j].task # w
      BY DEF NoEntry
    <3>1. CASE j <= n
      <4>1. j \in 1 .. Len(stream[g]) /\ stream'[g][j] = stream[g][j]
        BY <1>2, <1>d, <3>1
      <4> QED
        BY <2>1, <4>1 DEF NoEntry
    <3>2. CASE ~(j <= n)
      <4>1. j - n \in 1 .. Len(sqes) /\ stream'[g][j] = sqes[j - n]
        BY <1>2, <3>2
      <4>2. sqes[j - n].task = t
        BY <1>1, <4>1 DEF TurnsInOrder
      <4> QED
        BY <2>2, <4>1, <4>2
    <3> QED
      BY <3>1, <3>2
  <2>4. ASSUME NEW g2 \in Groups \ {g} PROVE NoEntry(g2, w)'
    <3>1. NoEntry(g2, w) /\ stream'[g2] = stream[g2]
      BY <1>2, <2>1
    <3> QED
      BY <3>1 DEF NoEntry
  <2>5. tasks'[w].launched
    BY <1>1, <2>1, <2>2
  <2> QED
    BY <2>3, <2>4, <2>5
<1>8. ReadyInv'
  <2> SUFFICES ASSUME NEW g2 \in Groups, NEW j \in 1 .. Len(stream'[g2]) PROVE Ready(g2, j)'
    BY DEF ReadyInv
  <2>1. CASE g2 # g
    <3>1. Ready(g2, j) /\ stream'[g2] = stream[g2] /\ j \in 1 .. Len(stream[g2])
      BY <1>a, <1>2, <2>1 DEF ReadyInv
    <3> QED
      BY <1>1, <1>3, <3>1 DEF Ready
  <2>2. CASE g2 = g /\ j <= n
    <3>1. Ready(g, j) /\ j \in 1 .. Len(stream[g]) /\ stream'[g][j] = stream[g][j]
      BY <1>a, <1>d, <1>2, <2>2 DEF ReadyInv
    <3>2. j # 1 => stream'[g][j - 1] = stream[g][j - 1]
      BY <1>d, <1>2, <2>2
    <3> QED
      BY <1>1, <1>3, <2>2, <3>1, <3>2 DEF Ready
  <2>3. CASE g2 = g /\ ~(j <= n)
    <3>1. j - n \in 1 .. Len(sqes) /\ stream'[g][j] = sqes[j - n]
      BY <1>2, <2>3
    <3> SUFFICES ASSUME Need(sqes[j - n]) > 0
                 PROVE  /\ j # 1
                        /\ LET h == stream'[g][j - 1]
                           IN IsTurn(h) /\ h.task = t /\ After(h) >= Need(sqes[j - n])
      BY <1>1, <2>3, <3>1 DEF Ready, TurnsInOrder
    <3>2. j - n > 1 /\ After(sqes[j - n - 1]) >= Need(sqes[j - n])
      BY <1>1, <3>1 DEF TurnsInOrder
    <3>3. /\ j - 1 \in 1 .. Len(stream'[g]) /\ j - 1 > n /\ (j - 1) - n = j - n - 1
      BY <1>2, <2>3, <3>2
    <3>4. stream'[g][j - 1] = sqes[j - n - 1] /\ j - n - 1 \in 1 .. Len(sqes)
      BY <1>2, <3>3
    <3> QED
      BY <1>1, <3>2, <3>3, <3>4 DEF TurnsInOrder
  <2> QED
    BY <2>1, <2>2, <2>3
<1>9. OrderInv'
  <2> SUFFICES ASSUME NEW g2 \in Groups, NEW j \in 1 .. Len(stream'[g2]),
                      NEW k \in 1 .. Len(stream'[g2]), j < k
               PROVE  Follows(stream'[g2][j], stream'[g2][k])
    BY DEF OrderInv
  <2>1. CASE g2 # g
    BY <1>a, <1>2, <2>1 DEF OrderInv
  <2>2. CASE g2 = g /\ k <= n
    <3>1. /\ j \in 1 .. Len(stream[g]) /\ stream'[g][j] = stream[g][j]
          /\ k \in 1 .. Len(stream[g]) /\ stream'[g][k] = stream[g][k]
      BY <1>d, <1>2, <2>2
    <3> QED
      BY <1>a, <2>2, <3>1 DEF OrderInv
  <2>3. CASE g2 = g /\ j <= n /\ ~(k <= n)
    <3>1. /\ j \in 1 .. Len(stream[g]) /\ stream'[g][j] = stream[g][j]
          /\ k - n \in 1 .. Len(sqes) /\ stream'[g][k] = sqes[k - n] /\ sqes[k - n].task = t
      <4>1. j \in 1 .. Len(stream[g]) /\ stream'[g][j] = stream[g][j]
        BY <1>b, <2>3
      <4>2. k - n \in 1 .. Len(sqes) /\ stream'[g][k] = sqes[k - n]
        BY <1>c, <2>3
      <4>3. sqes[k - n].task = t
        BY <1>1, <4>2 DEF TurnsInOrder
      <4> QED
        BY <4>1, <4>2, <4>3
    <3> SUFFICES ASSUME NEW u, u = stream[g][j].task, IsTurn(stream[g][j])
                 PROVE  u <= t /\ u # t
      BY <3>1, <2>3 DEF Follows
    <3>2. u \in 1 .. Len(tasks) /\ tasks[u].launched /\ tasks[u].group = g
      BY <1>3, <3>1
    <3>3. u # t
      BY <1>1, <3>2
    <3>4. ~(t < u)
      BY <1>a, <1>1, <3>2 DEF LaunchOrder
    <3> QED
      BY <1>1, <3>2, <3>3, <3>4, TaskFacts
  <2>4. CASE g2 = g /\ ~(j <= n) /\ ~(k <= n)
    <3>1. /\ j - n \in 1 .. Len(sqes) /\ stream'[g][j] = sqes[j - n]
          /\ k - n \in 1 .. Len(sqes) /\ stream'[g][k] = sqes[k - n]
      BY <1>c, <2>4
    <3>a. j - n < k - n
      BY <1>2, <2>4
    <3>2. t <= t
      BY <1>1, TaskFacts
    <3> QED
      BY <1>1, <2>4, <3>1, <3>a, <3>2 DEF TurnsInOrder, Follows
  <2> QED
    BY <1>2, <2>1, <2>2, <2>3, <2>4
<1> QED
  BY <1>4, <1>5, <1>6, <1>7, <1>8, <1>9 DEF OrderParts

----------------------------------------------------------------------------
(* The launches, and the marks of the server.                               *)

LEMMA FlagStep == TypeInv /\ FlagInv /\ [Next]_vars => FlagInv'
<1> SUFFICES ASSUME TypeInv, FlagInv, [Next]_vars PROVE FlagInv'
  OBVIOUS
<1>1. NoMsg.type # "finalize" /\ NoCall.msg = NoMsg
  BY DEF NoMsg, NoCall, ApiCall
<1>2. CASE call' = call
  BY <1>2 DEF FlagInv
<1>3. CASE Return
  BY <1>1, <1>3 DEF FlagInv, Return
<1>4. ASSUME NEW g, NEW h, NEW flag, call' = ApiCall(g, h, NoMsg, flag) PROVE FlagInv'
  BY <1>1, <1>4 DEF FlagInv, ApiCall
<1>5. ASSUME NEW g, NEW r, NEW ext, NEW commit, Prepare(g, r, ext, commit) PROVE FlagInv'
  BY <1>5 DEF Prepare, FlagInv, ApiCall, NoMsg
<1>6. ASSUME NEW g, NEW g2, NEW h, InterHcclGroupSync(g, g2, h) PROVE FlagInv'
  BY <1>6 DEF InterHcclGroupSync, FlagInv, ApiCall, NoMsg
<1>7. ASSUME NEW g, NEW sync \in SyncModes, Finalize(g, sync) PROVE FlagInv'
  BY <1>7 DEF Finalize, FlagInv, ApiCall
<1>8. CASE CallApi
  BY <1>2, <1>4, <1>5, <1>6, <1>7, <1>8
     DEF CallApi, PrepareRefused, Commit, Wait, NextLaunch
<1>9. CASE ContinueCall
  BY <1>2, <1>3, <1>4, <1>9
     DEF ContinueCall, SendExt, SendPrepare, SendSync, SendFinalize, CommitWrite, WaitReturn,
         FinalizeQueried, FinalizeDone, GoOn
<1>10. CASE ServerNext
  BY <1>2, <1>10 DEF ServerNext, clientVars
<1>11. ASSUME NEW g \in Groups, StreamNext(g) PROVE FlagInv'
  BY <1>2, <1>11 DEF StreamNext, WaitCommit, WaitFinish, RunKernel, PostFinish, Execute, clientVars
<1>12. CASE UNCHANGED vars
  BY <1>2, <1>12 DEF vars, clientVars
<1> QED
  BY <1>8, <1>9, <1>10, <1>11, <1>12 DEF Next, ClientNext, Terminated

MarkParts == LaunchInv /\ MarkInv /\ UnusedInv

RowsStay == \A g \in Groups : /\ Len(handles'[g]) = Len(handles[g])
                              /\ \A i \in 1 .. Len(handles[g]) :
                                   handles'[g][i].pos = handles[g][i].pos
EndsKept == /\ launch' = launch /\ finalized' = finalized /\ curMsgPosition' = curMsgPosition
            /\ \A g \in Groups : Finalizing(g)' <=> Finalizing(g)
ServerKept == /\ UNCHANGED <<serverLaunch, finalizeFlag, finishFlag>>
              /\ server' = server \/ server = "run"
              /\ \A g \in Groups : finalizeFlag[g] => msgPos'[g] = msgPos[g]

\* Neither the ends of the groups nor what the server made of them changes.
LEMMA MarksKept ==
    ASSUME MarkParts, RowsStay, EndsKept, ServerKept, finishedTurnCnt' = finishedTurnCnt,
           launch \in Nat, serverLaunch \in Nat
    PROVE  MarkParts'
<1>1. \A g \in Groups : Sent(g)' = Sent(g) /\ End(g)' = End(g) /\ (Marked(g)' <=> Marked(g))
  BY DEF EndsKept, ServerKept, Sent, End, Marked
<1>2. LaunchInv'
  BY <1>1 DEF MarkParts, LaunchInv, EndsKept, ServerKept
<1>3. MarkInv'
  BY <1>1 DEF MarkParts, MarkInv, EndsKept, ServerKept, RowsStay
<1>4. UnusedInv'
  BY <1>1 DEF MarkParts, UnusedInv, EndsKept
<1> QED
  BY <1>2, <1>3, <1>4 DEF MarkParts

LEMMA Positions == \A p \in Pos : p \in Nat /\ p \in Int
BY ConstantFacts

\* A message that is not FINALIZE is put into the slot of group g.
LEMMA MarksPut ==
    ASSUME TypeInv, TypeInv', MarkParts, UNCHANGED serverVars, NEW g \in Groups,
           pc = "send", pc' # "finDone", ~finalized[g], AdvancePosition(g),
           UNCHANGED <<finalized, launch, finishedTurnCnt>>,
           \A g2 \in Groups \ {g} : handles'[g2] = handles[g2]
    PROVE  MarkParts'
<1>1. /\ curMsgPosition \in [Groups -> Nat]
      /\ curMsgPosition'[g] = curMsgPosition[g] + 1 /\ curMsgPosition[g] \in Nat
      /\ \A g2 \in Groups \ {g} : curMsgPosition'[g2] = curMsgPosition[g2]
  BY PositionCounts DEF AdvancePosition
<1>2. /\ \A g2 \in Groups : ~Finalizing(g2) /\ ~Finalizing(g2)'
      /\ Sent(g) = "open" /\ Sent(g)' = "open"
      /\ \A g2 \in Groups \ {g} : Sent(g2)' = Sent(g2) /\ End(g2)' = End(g2)
      /\ End(g) = curMsgPosition[g] /\ End(g)' = curMsgPosition[g] + 1
      /\ \A g2 \in Groups : Marked(g2)' <=> Marked(g2)
  BY <1>1 DEF Finalizing, Sent, End, Marked, serverVars
<1>3. LaunchInv'
  BY <1>2 DEF MarkParts, LaunchInv, serverVars
<1>4. MarkInv'
  <2> SUFFICES ASSUME NEW g2 \in Groups
               PROVE  /\ launch = serverLaunch /\ finalizeFlag[g2]
                           => Sent(g2)' = "closed" /\ msgPos[g2] + 1 = End(g2)'
                      /\ Sent(g2)' = "closed" =>
                           \A i \in 1 .. Len(handles'[g2]) : handles'[g2][i].pos + 1 < End(g2)'
    BY DEF MarkInv, serverVars
  <2>1. CASE g2 = g
    BY <1>2, <2>1 DEF MarkParts, MarkInv
  <2>2. CASE g2 # g
    BY <1>2, <2>2 DEF MarkParts, MarkInv
  <2> QED
    BY <2>1, <2>2
<1>5. UnusedInv'
  <2>1. \A p \in Pos : p \in Int
    BY Positions
  <2>2. ASSUME NEW g2 \in Groups, NEW p \in Pos, p >= End(g2)' PROVE p >= End(g2)
    <3>1. CASE g2 = g
      BY <1>1, <1>2, <2>1, <2>2, <3>1
    <3>2. CASE g2 # g
      BY <1>2, <2>2, <3>2
    <3> QED
      BY <3>1, <3>2
  <2> QED
    BY <2>2 DEF MarkParts, UnusedInv
<1> QED
  BY <1>3, <1>4, <1>5 DEF MarkParts

LEMMA MarksSendFinalize ==
    ASSUME TypeInv, TypeInv', CommitInv, FlagInv, MarkParts, UNCHANGED serverVars, SendFinalize
    PROVE  MarkParts'
<1>d. SUFFICES ASSUME NEW g, g = call.group PROVE MarkParts'
  OBVIOUS
<1>1. /\ g \in Groups /\ pc = "send" /\ call.msg.type = "finalize" /\ ~finalized[g]
      /\ UNCHANGED <<handles, finishedTurnCnt, launch>>
      /\ \/ pc' = "finDone" /\ call' = call /\ UNCHANGED <<curMsgPosition, finalized>>
         \/ /\ ~call.flag /\ pc' = "ready" /\ AdvancePosition(g)
            /\ finalized' = [finalized EXCEPT ![g] = TRUE]
  <2>1. /\ pc = "send" /\ call.msg.type = "finalize"
        /\ UNCHANGED <<handles, finishedTurnCnt, launch>>
        /\ \/ pc' = "finDone" /\ call' = call /\ UNCHANGED <<curMsgPosition, finalized>>
           \/ /\ ~call.flag /\ pc' = "ready" /\ AdvancePosition(g)
              /\ finalized' = [finalized EXCEPT ![g] = TRUE]
    BY <1>d DEF SendFinalize, PutMsg, GoOn, Return
  <2>2. g \in Groups /\ ~finalized[g]
    BY <1>d, <2>1 DEF TypeInv, TypeOK, ClientTypeOK, Call, CallOK
  <2> QED
    BY <2>1, <2>2
<1>2. /\ curMsgPosition \in [Groups -> Nat] /\ finalized \in [Groups -> BOOLEAN]
      /\ curMsgPosition[g] \in Pos /\ curMsgPosition[g] \in Nat
  <2>1. curMsgPosition[g] < MsgCnt
    BY <1>1 DEF TypeInv, CallOK
  <2> QED
    BY <1>1, <2>1, PositionCounts, MsgCntAssumption DEF Pos, TypeInv, TypeOK, ClientTypeOK
<1>3. /\ Sent(g) = "open" /\ End(g) = curMsgPosition[g] /\ ~finalized[g]
      /\ Sent(g)' = "closed" /\ End(g)' = curMsgPosition[g] + 1
      /\ \A g2 \in Groups \ {g} : /\ Sent(g2)' = Sent(g2) /\ End(g2)' = End(g2)
                                  /\ ~Finalizing(g2)' /\ (finalized'[g2] <=> finalized[g2])
  <2>1. CASE pc' = "finDone" /\ call' = call /\ UNCHANGED <<curMsgPosition, finalized>>
    BY <1>d, <1>1, <2>1 DEF Sent, End, Finalizing
  <2>2. CASE /\ pc' = "ready" /\ AdvancePosition(g)
             /\ finalized' = [finalized EXCEPT ![g] = TRUE]
    BY <1>1, <1>2, <2>2 DEF Sent, End, Finalizing, AdvancePosition
  <2> QED
    BY <1>1, <2>1, <2>2
<1>4. \A g2 \in Groups : Marked(g2)' <=> Marked(g2)
  BY <1>1 DEF Marked, serverVars
<1>5. Waits => finalized'[g] = FALSE /\ \A g2 \in Groups : finalized'[g2] => finalized[g2]
  <2> SUFFICES ASSUME Waits PROVE ~(~call.flag)
    BY <1>1, <1>2
  <2> QED
    BY <1>1 DEF Waits, FlagInv
<1>6. LaunchInv'
  <2>1. ASSUME NEW g2 \in Groups, Finalizing(g2)',
               finishedTurnCnt[g2][curMsgPosition'[g2]] > 0
        PROVE  Marked(g2)'
    <3>1. g2 = g /\ pc' = "finDone"
      BY <1>3, <2>1 DEF Finalizing
    <3>2. curMsgPosition' = curMsgPosition
      BY <1>1, <3>1
    <3>3. finishedTurnCnt[g][curMsgPosition[g]] = 0
      BY <1>1, <1>2, <1>3 DEF MarkParts, UnusedInv
    <3> QED
      BY <2>1, <3>1, <3>2, <3>3
  <2>2. \A g2 \in Groups : Waits /\ finalized'[g2] => Marked(g2)'
    BY <1>4, <1>5 DEF MarkParts, LaunchInv
  <2> QED
    BY <1>1, <2>1, <2>2 DEF MarkParts, LaunchInv, serverVars
<1>7. MarkInv'
  <2> SUFFICES ASSUME NEW g2 \in Groups
               PROVE  /\ launch = serverLaunch /\ finalizeFlag[g2]
                           => Sent(g2)' = "closed" /\ msgPos[g2] + 1 = End(g2)'
                      /\ Sent(g2)' = "closed" =>
                           \A i \in 1 .. Len(handles[g2]) : handles[g2][i].pos + 1 < End(g2)'
    BY <1>1 DEF MarkInv, serverVars
  <2>1. CASE g2 = g
    <3>1. \A i \in 1 .. Len(handles[g]) : /\ handles[g][i].pos < curMsgPosition[g]
                                          /\ handles[g][i].pos \in Pos
      BY <1>1, RowFacts DEF CommitInv, TableInv
    <3>2. \A p \in Pos : p \in Int
      BY ConstantFacts
    <3>3. \A i \in 1 .. Len(handles[g]) : handles[g][i].pos + 1 < End(g)'
      BY <1>2, <1>3, <3>1, <3>2
    <3> QED
      BY <1>1, <1>3, <2>1, <3>3 DEF MarkParts, MarkInv
  <2>2. CASE g2 # g
    BY <1>3, <2>2 DEF MarkParts, MarkInv
  <2> QED
    BY <2>1, <2>2
<1>8. UnusedInv'
  <2>1. \A p \in Pos : p \in Int
    BY ConstantFacts
  <2>2. \A g2 \in Groups, p \in Pos : p >= End(g2)' => p >= End(g2)
    BY <1>1, <1>2, <1>3, <2>1
  <2> QED
    BY <1>1, <1>5, <2>2 DEF MarkParts, UnusedInv
<1> QED
  BY <1>6, <1>7, <1>8 DEF MarkParts

LEMMA MarksFinalizeDone ==
    ASSUME TypeInv, TypeInv', MarkParts, UNCHANGED serverVars, FinalizeDone
    PROVE  MarkParts'
<1>d. SUFFICES ASSUME NEW g, g = call.group, NEW f, f = curMsgPosition[g] PROVE MarkParts'
  OBVIOUS
<1>1. /\ pc = "finDone" /\ pc' = "ready" /\ AdvancePosition(g)
      /\ finishedTurnCnt[g][f] = FinalizeCnt
      /\ finishedTurnCnt' = [finishedTurnCnt EXCEPT ![g] =
                               [p \in Pos |-> IF p <= f THEN 0 ELSE @[p]]]
      /\ finalized' = [finalized EXCEPT ![g] = TRUE]
      /\ UNCHANGED <<handles, launch>>
  BY <1>d DEF FinalizeDone, ResetFinishedTurnCnt, Return
<1>2. /\ g \in Groups /\ ~finalized[g]
      /\ curMsgPosition \in [Groups -> Nat] /\ finalized \in [Groups -> BOOLEAN]
      /\ finishedTurnCnt \in [Groups -> [Pos -> Nat]]
      /\ f \in Pos /\ f \in Nat /\ \A p \in Pos : p \in Nat
  <2>1. g \in Groups /\ ~finalized[g]
    BY <1>d, <1>1 DEF TypeInv, TypeOK, ClientTypeOK, Call, CallOK
  <2>2. f < MsgCnt
    BY <1>d, <2>1 DEF TypeInv, CallOK
  <2>3. finalized \in [Groups -> BOOLEAN] /\ finishedTurnCnt \in [Groups -> [Pos -> Nat]]
    BY DEF TypeInv, TypeOK, ClientTypeOK, AreaTypeOK
  <2>4. curMsgPosition \in [Groups -> Nat] /\ f \in Nat
    BY <1>d, <2>1, PositionCounts
  <2>5. f \in Pos
    BY <2>2, <2>4, MsgCntAssumption DEF Pos
  <2>6. \A p \in Pos : p \in Nat
    BY ConstantFacts
  <2> QED
    BY <2>1, <2>3, <2>4, <2>5, <2>6
<1>3. /\ Sent(g) = "closed" /\ End(g) = f + 1 /\ Sent(g)' = "closed" /\ End(g)' = f + 1
      /\ Finalizing(g) /\ \A g2 \in Groups : ~Finalizing(g2)'
      /\ \A g2 \in Groups \ {g} : /\ Sent(g2)' = Sent(g2) /\ End(g2)' = End(g2)
                                  /\ (finalized'[g2] <=> finalized[g2])
  BY <1>d, <1>1, <1>2 DEF Sent, End, Finalizing, AdvancePosition
<1>4. \A g2 \in Groups : Marked(g2)' <=> Marked(g2)
  BY <1>1 DEF Marked, serverVars
<1>5. Marked(g)
  <2>1. FinalizeCnt > 0
    BY FinalizeCntAssumption
  <2> QED
    BY <1>d, <1>1, <1>2, <1>3, <2>1 DEF MarkParts, LaunchInv
<1>6. LaunchInv'
  BY <1>1, <1>3, <1>4, <1>5 DEF MarkParts, LaunchInv, serverVars
<1>7. MarkInv'
  <2>1. \A g2 \in Groups : Sent(g2)' = Sent(g2) /\ End(g2)' = End(g2)
    BY <1>3
  <2> QED
    BY <1>1, <2>1 DEF MarkParts, MarkInv, serverVars
<1>8. UnusedInv'
  <2> SUFFICES ASSUME NEW g2 \in Groups, NEW p \in Pos,
                      p >= End(g2)' \/ (Waits /\ finalized'[g2])
               PROVE  finishedTurnCnt'[g2][p] = 0
    BY DEF UnusedInv
  <2>1. CASE g2 # g
    BY <1>1, <1>2, <1>3, <2>1 DEF MarkParts, UnusedInv
  <2>2. CASE g2 = g /\ p <= f
    BY <1>1, <1>2, <2>2
  <2>3. CASE g2 = g /\ ~(p <= f)
    <3>1. p >= End(g)
      BY <1>2, <1>3, <2>3
    <3>2. finishedTurnCnt[g][p] = 0
      BY <1>2, <3>1 DEF MarkParts, UnusedInv
    <3> QED
      BY <1>1, <1>2, <2>3, <3>2
  <2> QED
    BY <2>1, <2>2, <2>3
<1> QED
  BY <1>6, <1>7, <1>8 DEF MarkParts

LEMMA MarksNextLaunch ==
    ASSUME TypeInv, PlaceInv, MarkParts, Waits, UNCHANGED serverVars, NextLaunch
    PROVE  MarkParts'
<1>1. /\ pc = "ready" /\ pc' = "ready" /\ launch' = launch + 1
      /\ \A g \in Groups : finalized[g] /\ ~finalized'[g]
      /\ \A g \in Groups : Len(handles'[g]) = 0 /\ curMsgPosition'[g] = 0
      /\ UNCHANGED finishedTurnCnt
  BY DEF NextLaunch, PerGroup, areaVars
<1>2. launch \in Nat /\ serverLaunch \in Nat /\ 0 \in Groups
  BY PlaceTypes, ConstantFacts
<1>3. \A g \in Groups : Marked(g)
  BY <1>1 DEF MarkParts, LaunchInv
<1>4. /\ \A g \in Groups : ~Finalizing(g)' /\ Sent(g)' = "open" /\ End(g)' = 0
  BY <1>1 DEF Finalizing, Sent, End
<1>5. LaunchInv'
  <2>1. launch <= serverLaunch /\ (launch = serverLaunch => \A g \in Groups : finishFlag[g])
    BY <1>2, <1>3 DEF Marked
  <2> QED
    BY <1>1, <1>2, <1>4, <2>1 DEF MarkParts, LaunchInv, serverVars
<1>6. MarkInv'
  <2>1. \A g \in Groups : launch + 1 = serverLaunch => ~finalizeFlag[g]
    <3> SUFFICES ASSUME NEW g \in Groups, launch + 1 = serverLaunch PROVE ~finalizeFlag[g]
      OBVIOUS
    <3>1. CASE Placed(g)
      BY <1>2, <3>1 DEF Placed, Layout
    <3>2. CASE Abandoned(g)
      BY <1>2, <3>2 DEF Abandoned
    <3> QED
      BY <3>1, <3>2 DEF PlaceInv
  <2> QED
    BY <1>1, <1>4, <2>1 DEF MarkInv, serverVars
<1>7. UnusedInv'
  BY <1>1 DEF MarkParts, UnusedInv
<1> QED
  BY <1>5, <1>6, <1>7 DEF MarkParts

LEMMA MarksRestart ==
    ASSUME TypeInv, RetryInv, MarkParts, UNCHANGED clientVars, RestartServer
    PROVE  MarkParts'
<1>1. /\ server = "exit" /\ server' = "run" /\ serverLaunch' = serverLaunch + 1
      /\ \A g \in Groups : ~finalizeFlag'[g] /\ ~finishFlag'[g]
      /\ UNCHANGED <<finishedTurnCnt, handles, launch, finalized>>
  BY DEF RestartServer, FreshServer, PerGroup, clientVars, areaVars
<1>2. launch \in Nat /\ serverLaunch \in Nat /\ 0 \in Groups
  BY PlaceTypes, ConstantFacts
<1>3. \A g \in Groups : /\ Sent(g)' = Sent(g) /\ End(g)' = End(g)
                        /\ (Finalizing(g)' <=> Finalizing(g))
  BY DEF Sent, End, Finalizing, clientVars
<1>4. \A g \in Groups : Marked(g) => Marked(g)'
  BY <1>1, <1>2 DEF Marked
<1>5. LaunchInv'
  BY <1>1, <1>2, <1>3, <1>4 DEF MarkParts, LaunchInv, clientVars
<1>6. MarkInv'
  BY <1>1, <1>3 DEF MarkParts, MarkInv
<1>7. UnusedInv'
  BY <1>1, <1>3 DEF MarkParts, UnusedInv
<1> QED
  BY <1>5, <1>6, <1>7 DEF MarkParts

LEMMA MarksFinalizeProcess ==
    ASSUME TypeInv, PlaceInv, MarkParts, UNCHANGED clientVars, NEW g \in Groups,
           FinalizeProcess(g)
    PROVE  MarkParts'
<1>d. SUFFICES ASSUME NEW p, p = msgPos[g] PROVE MarkParts'
  OBVIOUS
<1>1. /\ server = "run" /\ ~finalizeFlag[g] /\ HasMsg(g) /\ CurrentMsg(g).type = "finalize"
      /\ finalizeFlag' = [finalizeFlag EXCEPT ![g] = TRUE]
      /\ UNCHANGED <<msgPos, serverLaunch, finishFlag, server, finishedTurnCnt>>
  BY DEF FinalizeProcess, Serve, Visit
<1>2. \A g2 \in Groups : /\ Sent(g2)' = Sent(g2) /\ End(g2)' = End(g2)
                         /\ (Finalizing(g2)' <=> Finalizing(g2))
                         /\ (Marked(g2)' <=> Marked(g2))
  BY <1>1 DEF Sent, End, Finalizing, clientVars, Marked
<1>3. /\ p \in Pos /\ p \in Nat /\ retryCnt[g] \in Nat /\ End(g) \in Nat
      /\ launch \in Nat /\ serverLaunch \in Nat
      /\ finalizeFlag \in [Groups -> BOOLEAN]
  <2>1. p \in Pos /\ finalizeFlag \in [Groups -> BOOLEAN]
    BY <1>d DEF TypeInv, TypeOK, ServerTypeOK
  <2> QED
    BY <2>1, PlaceTypes, Positions
<1>4. sendMsgs[g][p].type = "finalize" /\ retryCnt[g] = 0 /\ From(g) = p
  <2>1. retryCnt[g] = 0
    BY <1>1, <1>3 DEF PlaceInv, RetryInv, CurrentMsg
  <2> QED
    BY <1>1, <1>d, <2>1 DEF CurrentMsg, From
<1>5. launch = serverLaunch => Sent(g) = "closed" /\ p + 1 = End(g)
  <2> SUFFICES ASSUME launch = serverLaunch PROVE Sent(g) = "closed" /\ p + 1 = End(g)
    OBVIOUS
  <2>1. Layout(g, 0, "open", End(g), Sent(g))
    BY <1>1, <1>3 DEF PlaceInv, Placed
  <2>2. p < End(g)
    BY <1>3, <1>4, <2>1 DEF Layout, NoMsg
  <2>3. sendMsgs[g][p].type = "finalize" <=> Sent(g) = "closed" /\ p = End(g) - 1
    BY <1>1, <1>3, <1>4, <2>1, <2>2 DEF Layout, Full
  <2> QED
    BY <1>3, <1>4, <2>3
<1>6. LaunchInv'
  BY <1>1, <1>2 DEF MarkParts, LaunchInv, clientVars
<1>7. MarkInv'
  <2> SUFFICES ASSUME NEW g2 \in Groups
               PROVE  /\ launch = serverLaunch /\ finalizeFlag'[g2]
                           => Sent(g2) = "closed" /\ msgPos[g2] + 1 = End(g2)
                      /\ Sent(g2) = "closed" =>
                           \A i \in 1 .. Len(handles[g2]) : handles[g2][i].pos + 1 < End(g2)
    BY <1>1, <1>2 DEF MarkInv, clientVars
  <2>1. CASE g2 = g
    BY <1>5, <1>d, <2>1 DEF MarkParts, MarkInv
  <2>2. CASE g2 # g
    BY <1>1, <1>3, <2>2 DEF MarkParts, MarkInv
  <2> QED
    BY <2>1, <2>2
<1>8. UnusedInv'
  BY <1>1, <1>2 DEF MarkParts, UnusedInv, clientVars
<1> QED
  BY <1>6, <1>7, <1>8 DEF MarkParts

\* The server marks the end of a group in the launch of the client, which has
\* sent FINALIZE and waits for the mark.
MarkMade(g) ==
    /\ launch = serverLaunch /\ Sent(g) = "closed" /\ msgPos[g] + 1 = End(g)
    /\ ~finishFlag[g] /\ finalizeFlag[g]
    /\ finishedTurnCnt' = [finishedTurnCnt EXCEPT ![g][msgPos[g]] = FinalizeCnt]

LEMMA GroupMarked ==
    ASSUME TypeInv, PlaceInv, MarkParts, NEW g \in Groups, GroupFinish(g)
    PROVE  MarkMade(g)
<1>1. /\ server = "run" /\ finalizeFlag[g] /\ ~finishFlag[g]
      /\ finishedTurnCnt' = [finishedTurnCnt EXCEPT ![g][msgPos[g]] = FinalizeCnt]
  BY DEF GroupFinish, Visit
<1>2. launch \in Nat /\ serverLaunch \in Nat
  BY PlaceTypes
<1>3. Placed(g) /\ launch <= serverLaunch
  BY <1>1, <1>2 DEF PlaceInv, MarkParts, LaunchInv
<1>4. ~(launch + 1 = serverLaunch)
  BY <1>1, <1>2, <1>3 DEF Placed, Layout
<1>5. launch = serverLaunch
  BY <1>2, <1>3, <1>4 DEF Placed
<1> QED
  BY <1>1, <1>5 DEF MarkParts, MarkInv, MarkMade

LEMMA MarksGroupFinish ==
    ASSUME TypeInv, PlaceInv, MarkParts, UNCHANGED clientVars, NEW g \in Groups,
           GroupFinish(g)
    PROVE  MarkParts'
<1>d. SUFFICES ASSUME NEW p, p = msgPos[g] PROVE MarkParts'
  OBVIOUS
<1>1. /\ server = "run" /\ ~finishFlag[g]
      /\ finishFlag' = [finishFlag EXCEPT ![g] = TRUE]
      /\ server' = IF LastToFinish(g) THEN "exit" ELSE "run"
      /\ UNCHANGED <<msgPos, serverLaunch, finalizeFlag>>
  BY DEF GroupFinish, Visit
<1>2. /\ launch = serverLaunch /\ Sent(g) = "closed" /\ p + 1 = End(g)
      /\ finishedTurnCnt' = [finishedTurnCnt EXCEPT ![g][p] = FinalizeCnt]
  BY <1>d, GroupMarked DEF MarkMade
<1>3. \A g2 \in Groups : /\ Sent(g2)' = Sent(g2) /\ End(g2)' = End(g2)
                         /\ (Finalizing(g2)' <=> Finalizing(g2))
  BY DEF Sent, End, Finalizing, clientVars
<1>4. /\ p \in Pos /\ p \in Nat /\ launch \in Nat /\ End(g) \in Nat
      /\ finishFlag \in [Groups -> BOOLEAN] /\ finishedTurnCnt \in [Groups -> [Pos -> Nat]]
  <2>1. /\ p \in Pos /\ finishFlag \in [Groups -> BOOLEAN]
        /\ finishedTurnCnt \in [Groups -> [Pos -> Nat]]
    BY <1>d DEF TypeInv, TypeOK, ServerTypeOK, AreaTypeOK
  <2> QED
    BY <2>1, PlaceTypes, Positions
<1>5. Marked(g)' /\ \A g2 \in Groups : Marked(g2) => Marked(g2)'
  BY <1>1, <1>2, <1>4 DEF Marked, clientVars
<1>6. LaunchInv'
  <2>1. launch' <= serverLaunch' + 1 /\ ~(launch' = serverLaunch' + 1)
    BY <1>1, <1>2, <1>4 DEF clientVars
  <2>2. (\A g2 \in Groups : finishFlag'[g2]) => server' = "exit"
    BY <1>1, <1>4 DEF LastToFinish
  <2>3. Waits => \A g2 \in Groups : finalized'[g2] => Marked(g2)'
    BY <1>5 DEF MarkParts, LaunchInv, clientVars
  <2>4. \A g2 \in Groups : Finalizing(g2)' /\ finishedTurnCnt'[g2][curMsgPosition'[g2]] > 0
          => Marked(g2)'
    BY <1>2, <1>3, <1>4, <1>5 DEF MarkParts, LaunchInv, clientVars
  <2> QED
    BY <2>1, <2>2, <2>3, <2>4 DEF LaunchInv
<1>7. MarkInv'
  BY <1>1, <1>3 DEF MarkParts, MarkInv, clientVars
<1>8. UnusedInv'
  <2>1. ~(p >= End(g))
    BY <1>2, <1>4
  <2>2. ~(Waits /\ finalized[g])
    BY <1>1, <1>2, <1>4 DEF MarkParts, LaunchInv, Marked
  <2> SUFFICES ASSUME NEW g2 \in Groups, NEW q \in Pos,
                      q >= End(g2) \/ (Waits /\ finalized[g2])
               PROVE  finishedTurnCnt'[g2][q] = 0
    BY <1>3 DEF UnusedInv, clientVars
  <2>3. finishedTurnCnt[g2][q] = 0
    BY DEF MarkParts, UnusedInv
  <2>4. ~(g2 = g /\ q = p)
    BY <2>1, <2>2
  <2> QED
    BY <1>2, <1>4, <2>3, <2>4
<1> QED
  BY <1>6, <1>7, <1>8 DEF MarkParts

\* The task of an entry has a row in the tables of its group.
LEMMA EntryRow ==
    ASSUME TypeInv, TableInv, EntryInv, OldDone, NEW g \in Groups,
           NEW j \in 1 .. Len(stream[g]), IsTurn(stream[g][j])
    PROVE  LET e == stream[g][j]
           IN /\ e.task \in 1 .. Len(tasks) /\ e.group = g /\ e.pos < curMsgPosition[g]
              /\ e.val \in 1 .. tasks[e.task].repeat /\ tasks[e.task].launched
              /\ tasks[e.task].group = g
              /\ \E i \in 1 .. Len(handles[g]) :
                    handles[g][i].task = e.task /\ handles[g][i].pos = e.pos
<1>d. SUFFICES ASSUME NEW e, e = stream[g][j]
               PROVE  /\ e.task \in 1 .. Len(tasks) /\ e.group = g
                      /\ e.pos < curMsgPosition[g]
                      /\ e.val \in 1 .. tasks[e.task].repeat /\ tasks[e.task].launched
                      /\ tasks[e.task].group = g
                      /\ \E i \in 1 .. Len(handles[g]) :
                            handles[g][i].task = e.task /\ handles[g][i].pos = e.pos
  OBVIOUS
<1>1. /\ e.task \in 1 .. Len(tasks) /\ e.group = g /\ At(g, e.pos, e.task)
      /\ e.val \in 1 .. tasks[e.task].repeat /\ tasks[e.task].launched
  BY <1>d DEF EntryInv, EntryOK, IsTurn
<1>2. InTable(e.task)
  BY <1>1, <1>d DEF OldDone, NoEntry
<1>3. PICK g2 \in Groups : \E i \in 1 .. Len(handles[g2]) : handles[g2][i].task = e.task
  BY <1>2 DEF InTable
<1>4. g2 = g
  BY <1>1, <1>3 DEF TableInv, At
<1>5. PICK i \in 1 .. Len(handles[g]) : handles[g][i].task = e.task
  BY <1>3, <1>4
<1>6. handles[g][i].pos = e.pos /\ tasks[e.task].group = g
  BY <1>1, <1>5 DEF At
<1>7. e.pos < curMsgPosition[g]
  BY <1>5, <1>6 DEF TableInv
<1> QED
  BY <1>1, <1>5, <1>6, <1>7

LEMMA MarksPostFinish ==
    ASSUME TypeInv, TypeInv', CommitInv, MarkParts, OldDone, DoneInv, NEW g \in Groups,
           PostFinish(g)
    PROVE  MarkParts'
<1>d. SUFFICES ASSUME NEW e, e = Head(stream[g]), NEW one, one = 1 PROVE MarkParts'
  OBVIOUS
<1>1. /\ Dropped(g) /\ e.type = "post"
      /\ finishedTurnCnt' = [finishedTurnCnt EXCEPT ![e.group][e.pos] =
                               StoreHalf(@, e.val)]
      /\ UNCHANGED <<clientVars, serverVars>>
  BY <1>d DEF PostFinish, Execute, Dropped
<1>2. /\ one \in 1 .. Len(stream[g]) /\ e = stream[g][one] /\ e.pos \in Pos
      /\ IsTurn(stream[g][one])
  BY <1>1, <1>d, DroppedEntries, EntryFacts DEF IsTurn
<1>3. e.group = g /\ e.pos < curMsgPosition[g]
  BY <1>2, EntryRow DEF CommitInv
<1>4. \A g2 \in Groups : /\ Sent(g2)' = Sent(g2) /\ End(g2)' = End(g2)
                         /\ (Finalizing(g2)' <=> Finalizing(g2))
                         /\ (Marked(g2)' <=> Marked(g2))
  BY <1>1 DEF Sent, End, Finalizing, clientVars, Marked, serverVars
<1>5. /\ curMsgPosition[g] \in Nat /\ e.pos \in Nat
      /\ finishedTurnCnt \in [Groups -> [Pos -> Nat]]
  BY <1>2, PositionCounts, Positions DEF TypeInv, TypeOK, AreaTypeOK
<1>6. \A g2 \in Groups, q \in Pos : g2 # g \/ q # e.pos =>
        finishedTurnCnt'[g2][q] = finishedTurnCnt[g2][q]
  BY <1>1, <1>2, <1>3, <1>5
<1>7. LaunchInv'
  <2>1. ASSUME NEW g2 \in Groups, Finalizing(g2),
               finishedTurnCnt'[g2][curMsgPosition[g2]] > 0
        PROVE  Marked(g2)
    <3>1. curMsgPosition[g2] \in Pos
      <4>1. curMsgPosition[g2] < MsgCnt
        BY <2>1 DEF Finalizing, TypeInv, CallOK
      <4> QED
        BY <4>1, PositionCounts, MsgCntAssumption DEF Pos
    <3>2. ~(g2 = g /\ curMsgPosition[g2] = e.pos)
      BY <1>3, <1>5
    <3> QED
      BY <1>6, <2>1, <3>1, <3>2 DEF MarkParts, LaunchInv
  <2> QED
    BY <1>1, <1>4, <2>1 DEF MarkParts, LaunchInv, clientVars, serverVars
<1>8. MarkInv'
  BY <1>1, <1>4 DEF MarkParts, MarkInv, clientVars, serverVars
<1>9. UnusedInv'
  <2>1. ~(e.pos >= End(g))
    BY <1>3, <1>5 DEF End
  <2>2. ~(Waits /\ finalized[g])
    BY <1>2 DEF DoneInv, Ending, AllDone
  <2> SUFFICES ASSUME NEW g2 \in Groups, NEW q \in Pos,
                      q >= End(g2) \/ (Waits /\ finalized[g2])
               PROVE  finishedTurnCnt'[g2][q] = 0
    BY <1>1, <1>4 DEF UnusedInv, clientVars
  <2>3. finishedTurnCnt[g2][q] = 0
    BY DEF MarkParts, UnusedInv
  <2>4. ~(g2 = g /\ q = e.pos)
    BY <2>1, <2>2
  <2> QED
    BY <1>6, <2>3, <2>4
<1> QED
  BY <1>7, <1>8, <1>9 DEF MarkParts

\* The counts of the rows stay, or are cleared.
CountsFall ==
    \A g \in Groups : \A i \in 1 .. Len(handles[g]) :
        LET p == handles[g][i].pos IN finishedTurnCnt'[g][p] \in {0, finishedTurnCnt[g][p]}

CalmCall ==
    \/ \E g \in Groups :
        \/ \E r \in Repeats, ext \in Exts, commit \in BOOLEAN : Prepare(g, r, ext, commit)
        \/ PrepareRefused(g)
        \/ \E g2 \in Groups, h \in Handles : InterHcclGroupSync(g, g2, h)
        \/ \E h \in Handles : Commit(g, h) \/ Wait(g, h)
        \/ \E sync \in SyncModes : Finalize(g, sync)
    \/ SendExt \/ CommitWrite \/ WaitReturn \/ FinalizeQueried

LEMMA CalmCallKeeps ==
    ASSUME TypeInv, CommittedInv, MarkParts, UNCHANGED <<serverVars, stream>>, CalmCall
    PROVE  MarkParts' /\ UNCHANGED finishedTurnCnt
<1>1. /\ UNCHANGED <<launch, finalized, curMsgPosition, finishedTurnCnt>>
      /\ pc # "finDone" /\ pc' # "finDone"
  BY DEF CalmCall, Prepare, PrepareRefused, InterHcclGroupSync, Commit, Wait, Finalize, SendExt,
         CommitWrite, WaitReturn, FinalizeQueried, FirstStep, GoOn, Return, areaVars
<1>2. EndsKept
  BY <1>1 DEF EndsKept, Finalizing
<1>3. ServerKept
  BY DEF ServerKept, serverVars
<1>4. RowsStay
  <2>1. CASE QuietClient
    BY <2>1, ClientQuiet DEF Quiet, RowsKept, RowsStay
  <2>2. ASSUME NEW g \in Groups, NEW h \in Handles, Commit(g, h) PROVE RowsStay
    BY <2>2, CalmCommit DEF Calm, RowsStay
  <2>3. CASE CommitWrite
    BY <2>3 DEF CommitWrite, RowsStay
  <2> QED
    BY <2>1, <2>2, <2>3 DEF CalmCall, QuietClient
<1> QED
  BY <1>1, <1>2, <1>3, <1>4, MarksKept, PlaceTypes, ConstantFacts

LEMMA ClientMarks ==
    ASSUME TypeInv, TypeInv', PlaceInv, CommitInv, FinishInv, Careful, ClientNext
    PROVE  MarkParts' /\ CountsFall
<1>a. /\ CommittedInv /\ MarkParts /\ FlagInv /\ DoneInv /\ OrderParts
      /\ UNCHANGED <<serverVars, stream>> /\ UNCHANGED serverVars
  BY DEF CommitInv, FinishInv, MarkParts, OrderParts, ClientNext
<1>b. UNCHANGED finishedTurnCnt => CountsFall
  BY DEF CountsFall
<1>1. CASE CalmCall
  BY <1>a, <1>b, <1>1, CalmCallKeeps
<1>2. ASSUME SendPrepare \/ SendSync PROVE MarkParts' /\ UNCHANGED finishedTurnCnt
  <2> SUFFICES ASSUME NEW g, g = call.group PROVE MarkParts' /\ UNCHANGED finishedTurnCnt
    OBVIOUS
  <2>1. /\ pc = "send" /\ pc' # "finDone" /\ AdvancePosition(g)
        /\ UNCHANGED <<finalized, launch, finishedTurnCnt>>
    BY <1>2 DEF SendPrepare, SendSync, PutMsg, Return
  <2>2. g \in Groups /\ ~finalized[g]
    BY <2>1 DEF TypeInv, TypeOK, ClientTypeOK, Call, CallOK
  <2>3. \A g2 \in Groups \ {g} : handles'[g2] = handles[g2]
    <3>1. handles \in [Groups -> Seq(Handle)]
      BY DEF TypeInv, TypeOK, ClientTypeOK
    <3> QED
      BY <1>2, <2>2, <3>1 DEF SendPrepare, SendSync
  <2> QED
    BY <1>a, <2>1, <2>2, <2>3, MarksPut
<1>3. CASE SendFinalize
  BY <1>a, <1>b, <1>3, MarksSendFinalize DEF SendFinalize, PutMsg
<1>4. CASE FinalizeDone
  <2>1. MarkParts'
    BY <1>a, <1>4, MarksFinalizeDone
  <2>2. CountsFall
    <3> SUFFICES ASSUME NEW g \in Groups, NEW p \in Pos
                 PROVE  finishedTurnCnt'[g][p] \in {0, finishedTurnCnt[g][p]}
      BY RowFacts DEF CountsFall
    <3>1. finishedTurnCnt \in [Groups -> [Pos -> Nat]]
      BY DEF TypeInv, TypeOK, AreaTypeOK
    <3> QED
      BY <1>4, <3>1 DEF FinalizeDone, ResetFinishedTurnCnt
  <2> QED
    BY <2>1, <2>2
<1>5. CASE NextLaunch
  BY <1>a, <1>b, <1>5, OrderLaunch, MarksNextLaunch DEF NextLaunch, areaVars
<1> QED
  BY <1>b, <1>1, <1>2, <1>3, <1>4, <1>5 DEF ClientNext, CallApi, ContinueCall, CalmCall

LEMMA ServerMarks ==
    ASSUME TypeInv, TypeInv', PlaceInv, CommitInv, FinishInv, ServerNext
    PROVE  MarkParts' /\ CountsFall
<1>a. RetryInv /\ MarkParts /\ UNCHANGED clientVars
  BY DEF PlaceInv, FinishInv, MarkParts, ServerNext
<1>b. UNCHANGED finishedTurnCnt => CountsFall
  BY DEF CountsFall
<1>c. RowsStay /\ EndsKept /\ launch \in Nat /\ serverLaunch \in Nat
  BY <1>a, PlaceTypes, ConstantFacts DEF RowsStay, EndsKept, Finalizing, clientVars
<1>1. CASE RestartServer
  BY <1>a, <1>b, <1>1, MarksRestart DEF RestartServer, areaVars
<1>2. ASSUME NEW g \in Groups, FinalizeProcess(g) PROVE MarkParts' /\ CountsFall
  BY <1>a, <1>b, <1>2, MarksFinalizeProcess DEF FinalizeProcess, Serve
<1>3. ASSUME NEW g \in Groups, GroupFinish(g) PROVE MarkParts' /\ CountsFall
  <2>1. MarkParts'
    BY <1>a, <1>3, MarksGroupFinish
  <2>2. /\ Sent(g) = "closed" /\ msgPos[g] + 1 = End(g)
        /\ finishedTurnCnt' = [finishedTurnCnt EXCEPT ![g][msgPos[g]] = FinalizeCnt]
    BY <1>a, <1>3, GroupMarked DEF MarkMade
  <2>3. CountsFall
    <3> SUFFICES ASSUME NEW g2 \in Groups, NEW i \in 1 .. Len(handles[g2]),
                        NEW p, p = handles[g2][i].pos
                 PROVE  finishedTurnCnt'[g2][p] = finishedTurnCnt[g2][p]
      BY DEF CountsFall
    <3>1. /\ p \in Pos /\ p \in Nat /\ msgPos[g] \in Nat
          /\ finishedTurnCnt \in [Groups -> [Pos -> Nat]]
      BY RowFacts, Positions, PlaceTypes DEF TypeInv, TypeOK, AreaTypeOK
    <3>2. ~(g2 = g /\ p = msgPos[g])
      BY <1>a, <2>2, <3>1 DEF MarkParts, MarkInv
    <3> QED
      BY <2>2, <3>1, <3>2
  <2> QED
    BY <2>1, <2>3
<1>4. ASSUME NEW g \in Groups,
             PrepareProcess(g) \/ PrepareRetry(g) \/ InterGroupSyncProcess(g)
                \/ InterGroupSyncRetry(g)
      PROVE  MarkParts' /\ CountsFall
  <2>1. Serve(g, "prepare") \/ Serve(g, "sync")
    BY <1>4 DEF PrepareProcess, PrepareRetry, InterGroupSyncProcess, InterGroupSyncRetry
  <2>2. /\ UNCHANGED <<serverLaunch, finishFlag, server, finishedTurnCnt>> /\ ~finalizeFlag[g]
    BY <2>1 DEF Serve, Visit
  <2>3. UNCHANGED finalizeFlag
    BY <1>4 DEF PrepareProcess, PrepareRetry, InterGroupSyncProcess, InterGroupSyncRetry, RetryMsg
  <2>4. \A g2 \in Groups \ {g} : msgPos'[g2] = msgPos[g2]
    <3>1. msgPos \in [Groups -> Pos]
      BY DEF TypeInv, TypeOK, ServerTypeOK
    <3> QED
      BY <1>4, <3>1 DEF PrepareProcess, PrepareRetry, InterGroupSyncProcess,
                        InterGroupSyncRetry, RetryMsg, NextMsg
  <2>5. ServerKept
    BY <2>2, <2>3, <2>4 DEF ServerKept
  <2> QED
    BY <1>a, <1>b, <1>c, <2>2, <2>5, MarksKept
<1>5. ASSUME NEW g \in Groups,
             Finished(g) \/ InTime(g) \/ TimedOut(g) \/ RetryExceeded(g) \/ NoOpHandle(g)
      PROVE  MarkParts' /\ CountsFall
  <2>1. /\ UNCHANGED <<serverLaunch, finalizeFlag, finishFlag, msgPos, finishedTurnCnt>>
        /\ server = "run"
    BY <1>5 DEF Finished, InTime, TimedOut, RetryExceeded, NoOpHandle, Visit, OtherServerVars,
                areaVars
  <2>2. ServerKept
    BY <2>1 DEF ServerKept
  <2> QED
    BY <1>a, <1>b, <1>c, <2>1, <2>2, MarksKept
<1> QED
  BY <1>1, <1>2, <1>3, <1>4, <1>5 DEF ServerNext, GroupServerProcess

LEMMA MarksStep ==
    ASSUME TypeInv, TypeInv', PlaceInv, CommitInv, FinishInv, Careful, [Next]_vars
    PROVE  MarkParts' /\ (CountsFall \/ \E g \in Groups : PostFinish(g))
<1>a. MarkParts /\ OldDone /\ DoneInv
  BY DEF FinishInv, MarkParts
<1>1. CASE ClientNext
  BY <1>1, ClientMarks
<1>2. CASE ServerNext
  BY <1>2, ServerMarks
<1>3. ASSUME UNCHANGED <<clientVars, serverVars, finishedTurnCnt>>
      PROVE  MarkParts' /\ CountsFall
  <2>1. RowsStay /\ EndsKept /\ ServerKept
    BY <1>3 DEF RowsStay, EndsKept, ServerKept, Finalizing, clientVars, serverVars
  <2>2. launch \in Nat /\ serverLaunch \in Nat
    BY PlaceTypes, ConstantFacts
  <2> QED
    BY <1>3, <1>a, <2>1, <2>2, MarksKept DEF CountsFall
<1>4. ASSUME NEW g \in Groups, StreamNext(g)
      PROVE  MarkParts' /\ (CountsFall \/ \E s \in Groups : PostFinish(s))
  <2>1. CASE PostFinish(g)
    BY <1>a, <2>1, MarksPostFinish
  <2>2. CASE WaitCommit(g) \/ WaitFinish(g) \/ RunKernel(g)
    BY <1>3, <2>2 DEF WaitCommit, WaitFinish, RunKernel, Execute
  <2> QED
    BY <1>4, <2>1, <2>2 DEF StreamNext
<1>5. CASE UNCHANGED vars
  BY <1>3, <1>5 DEF vars, areaVars
<1> QED
  BY <1>1, <1>2, <1>4, <1>5 DEF Next, Terminated

----------------------------------------------------------------------------
(* The counts of the rows.                                                  *)

LEMMA CountFacts ==
    ASSUME TypeInv, NEW g \in Groups, NEW p \in Pos PROVE finishedTurnCnt[g][p] \in Nat
BY DEF TypeInv, TypeOK, AreaTypeOK

\* What a calm step leaves of a row whose count stays, or is cleared.
LEMMA RowCalm ==
    ASSUME TypeInv, TypeInv', EntryInv, RowCountInv, Calm, NEW g \in Groups,
           NEW i \in 1 .. Len(handles[g]), NEW p, p = handles[g][i].pos,
           finishedTurnCnt'[g][p] \in {0, finishedTurnCnt[g][p]}
    PROVE  RowCount(g, i)'
<1>d. SUFFICES ASSUME NEW t, t = handles[g][i].task, NEW c, c = finishedTurnCnt[g][p],
                      NEW n, n = finishedTurnCnt'[g][p]
               PROVE  RowCount(g, i)'
  OBVIOUS
<1>1. /\ p \in Pos /\ t \in 1 .. Len(tasks) /\ c \in Nat /\ n \in {0, c}
      /\ handles'[g][i].pos = p /\ handles'[g][i].task = t
      /\ tasks[t].executed \in Nat /\ tasks'[t].executed \in Nat
      /\ tasks[t].executed <= tasks'[t].executed
  BY <1>d, RowFacts, CountFacts, TaskFacts DEF Calm
<1>2. /\ c <= tasks[t].executed
      /\ c > 0 => \A j \in 1 .. Len(stream[g]) : IsTurn(stream[g][j]) =>
           t <= stream[g][j].task /\ (t = stream[g][j].task => c < stream[g][j].val)
  BY <1>d DEF RowCountInv, RowCount
<1>3. n <= tasks'[t].executed
  BY <1>1, <1>2
<1>4. ASSUME n > 0, NEW j \in 1 .. Len(stream'[g]), IsTurn(stream'[g][j])
      PROVE  t <= stream'[g][j].task /\ (t = stream'[g][j].task => n < stream'[g][j].val)
  <2>1. PICK d : CalmMove(g, d)
    BY CalmMoves
  <2>2. j + d \in 1 .. Len(stream[g]) /\ stream'[g][j] = stream[g][j + d]
    BY <1>4, <2>1, CalmEntry DEF CalmMove
  <2>3. n = c /\ c > 0
    BY <1>1, <1>4
  <2> QED
    BY <1>2, <1>4, <2>2, <2>3
<1> QED
  BY <1>d, <1>1, <1>3, <1>4 DEF RowCount

LEMMA RepeatBound == \A r \in Repeats : r \in Nat /\ r <= 255
BY RepeatsAssumption

\* The post of a turn counts it, and takes the place of the count before it.
LEMMA RowPosted ==
    ASSUME TypeInv, TypeInv', CommitInv, FinishInv, Calm, NEW g \in Groups, PostFinish(g),
           NEW i \in 1 .. Len(handles[g]), handles[g][i].pos = Head(stream[g]).pos
    PROVE  RowCount(g, i)'
<1>a. /\ RowCountInv /\ ReadyInv /\ OrderInv /\ OldDone /\ TableInv /\ EntryInv
  BY DEF CommitInv, FinishInv
<1>d. SUFFICES ASSUME NEW e, e = Head(stream[g]), NEW one, one = 1, NEW p, p = e.pos,
                      NEW t, t = e.task, NEW c, c = finishedTurnCnt[g][p]
               PROVE  RowCount(g, i)'
  OBVIOUS
<1>1. /\ Dropped(g) /\ e.type = "post"
      /\ finishedTurnCnt' = [finishedTurnCnt EXCEPT ![e.group][p] = StoreHalf(@, e.val)]
  BY <1>d DEF PostFinish, Execute, Dropped
<1>2. /\ one \in 1 .. Len(stream[g]) /\ e = stream[g][one] /\ p \in Pos /\ e.val \in Nat
      /\ IsTurn(stream[g][one])
  <2>1. one \in 1 .. Len(stream[g]) /\ e = stream[g][one]
    <3>1. Len(stream[g]) \in Nat /\ Len(stream[g]) >= 1 /\ e = stream[g][1]
      BY <1>1, <1>d, DroppedEntries, EntryFacts
    <3> QED
      BY <1>d, <3>1
  <2>2. p \in Pos /\ e.val \in Nat
    BY <1>d, <2>1, EntryFacts
  <2> QED
    BY <1>1, <2>1, <2>2 DEF IsTurn
<1>3. /\ t \in 1 .. Len(tasks) /\ e.group = g /\ e.val \in 1 .. tasks[t].repeat
      /\ \E k \in 1 .. Len(handles[g]) : handles[g][k].task = t /\ handles[g][k].pos = p
  BY <1>a, <1>d, <1>2, EntryRow
<1>4. handles[g][i].task = t /\ handles[g][i].pos = p
  BY <1>a, <1>d, <1>3 DEF TableInv
<1>5. c \in Nat /\ c < Half
  <2>1. c \in Nat /\ c <= tasks[t].executed
    BY <1>a, <1>d, <1>2, <1>4, CountFacts DEF RowCountInv, RowCount
  <2>2. /\ tasks[t].executed <= tasks[t].committed /\ tasks[t].committed <= tasks[t].repeat
        /\ tasks[t].executed \in Nat /\ tasks[t].committed \in Nat
    BY <1>3, TaskFacts DEF CommitInv, TurnsInv
  <2>3. tasks[t].repeat \in Repeats
    <3>1. tasks[t] \in Task
      BY <1>3, TaskFacts
    <3> QED
      BY <3>1 DEF Task
  <2>4. tasks[t].repeat \in Nat /\ tasks[t].repeat <= 255
    BY <2>3, RepeatBound
  <2>5. c \in Nat /\ c <= 255
    BY <2>1, <2>2, <2>4
  <2> QED
    BY <2>5 DEF Half
<1>6. finishedTurnCnt'[g][p] = e.val
  <2>1. c % Half = c
    BY <1>5 DEF Half
  <2>2. StoreHalf(c, e.val) = e.val
    BY <1>2, <1>5, <2>1 DEF StoreHalf, LoadHalf
  <2>3. finishedTurnCnt \in [Groups -> [Pos -> Nat]]
    BY DEF TypeInv, TypeOK, AreaTypeOK
  <2> QED
    BY <1>1, <1>2, <1>3, <1>d, <2>2, <2>3
<1>7. e.val <= tasks'[t].executed
  <2>1. Need(e) = e.val /\ e.val > 0
    BY <1>1, <1>3 DEF Need
  <2>2. tasks[t].executed >= e.val
    BY <1>a, <1>d, <1>2, <2>1 DEF ReadyInv, Ready
  <2>3. /\ tasks[t].executed \in Nat /\ tasks'[t].executed \in Nat
        /\ tasks[t].executed <= tasks'[t].executed
    BY <1>3, TaskFacts DEF Calm
  <2> QED
    BY <1>2, <2>2, <2>3
<1>8. ASSUME NEW j \in 1 .. Len(stream'[g]), IsTurn(stream'[g][j])
      PROVE  t <= stream'[g][j].task /\ (t = stream'[g][j].task => e.val < stream'[g][j].val)
  <2>1. j + 1 \in 1 .. Len(stream[g]) /\ stream'[g][j] = stream[g][j + 1] /\ one < j + 1
    BY <1>1, <1>d, DroppedEntries
  <2>2. Follows(stream[g][one], stream[g][j + 1])
    BY <1>a, <1>2, <2>1 DEF OrderInv
  <2>3. Follows(e, stream'[g][j]) /\ IsTurn(e)
    BY <1>2, <2>1, <2>2
  <2> QED
    BY <1>1, <1>8, <1>d, <2>3 DEF Follows
<1>9. handles'[g][i].pos = p /\ handles'[g][i].task = t
  BY <1>4 DEF Calm
<1> QED
  BY <1>6, <1>7, <1>8, <1>9 DEF RowCount

\* A task that was not launched has run no turn.
LEMMA UnlaunchedIdle ==
    ASSUME TypeInv, MessageInv, WaitingInv, NEW t \in 1 .. Len(tasks), ~tasks[t].launched
    PROVE  tasks[t].executed = 0
<1>1. tasks[t].group \in Groups
  BY TaskFacts
<1>2. Waiting(tasks[t].group, t)
  BY <1>1 DEF WaitingInv
<1> QED
  BY <1>1, <1>2 DEF Waiting, MessageInv, NotLaunched

LEMMA CountsSend ==
    ASSUME TypeInv, TypeInv', CommitInv, FinishInv, UNCHANGED <<serverVars, stream>>, SendPrepare
    PROVE  RowCountInv'
<1>b. PICK g, p, m, u, hd : Prepared(g, p, m, u, hd)
  BY SendPrepared
<1>1. /\ g \in Groups /\ p \in Pos /\ p = curMsgPosition[g] /\ hd \in Handle /\ pc = "send"
      /\ u = Len(tasks) + 1 /\ hd.task = u /\ hd.pos = p
      /\ handles' = [handles EXCEPT ![g] = Append(@, hd)]
      /\ \A t \in 1 .. Len(tasks) : tasks'[t] = tasks[t]
      /\ tasks'[u].executed = 0
      /\ UNCHANGED <<stream, finishedTurnCnt>>
  BY <1>b DEF Prepared, SendPrepare, PutMsg
<1>2. /\ Len(handles'[g]) = Len(handles[g]) + 1 /\ handles'[g][Len(handles[g]) + 1] = hd
      /\ \A i \in 1 .. Len(handles[g]) : handles'[g][i] = handles[g][i]
      /\ \A g2 \in Groups \ {g} : handles'[g2] = handles[g2]
      /\ Len(handles[g]) \in Nat
  BY <1>1, RowAdded, RowFacts
<1>3. finishedTurnCnt[g][p] = 0
  <2>1. End(g) = p /\ p \in Nat
    BY <1>1, Positions DEF End, Finalizing
  <2> QED
    BY <1>1, <2>1 DEF FinishInv, UnusedInv
<1> SUFFICES ASSUME NEW g2 \in Groups, NEW i \in 1 .. Len(handles'[g2]) PROVE RowCount(g2, i)'
  BY DEF RowCountInv
<1>4. CASE g2 = g /\ i = Len(handles[g]) + 1
  BY <1>1, <1>2, <1>3, <1>4 DEF RowCount
<1>5. CASE ~(g2 = g /\ i = Len(handles[g]) + 1)
  <2>1. i \in 1 .. Len(handles[g2]) /\ handles'[g2][i] = handles[g2][i]
    BY <1>2, <1>5
  <2>2. RowCount(g2, i) /\ tasks'[handles[g2][i].task] = tasks[handles[g2][i].task]
    BY <1>1, <2>1, RowFacts DEF FinishInv, RowCountInv
  <2> QED
    BY <1>1, <2>1, <2>2 DEF RowCount
<1> QED
  BY <1>4, <1>5

LEMMA CountsLaunch ==
    ASSUME TypeInv, CommitInv, FinishInv, NEW g \in Groups, NEW t, NEW sqes,
           Launched(g, t, sqes)
    PROVE  RowCountInv'
<1>a. /\ RowCountInv /\ WaitingInv /\ LaunchOrder /\ TableInv /\ MessageInv
  BY DEF CommitInv, FinishInv
<1>d. SUFFICES ASSUME NEW n, n = Len(stream[g]) PROVE RowCountInv'
  OBVIOUS
<1>1. /\ t \in 1 .. Len(tasks) /\ tasks[t].group = g /\ ~tasks[t].launched
      /\ sqes \in Seq(Sqe) /\ TurnsInOrder(sqes, t) /\ Added(g, sqes)
      /\ \A w \in 1 .. Len(tasks) : tasks'[w].executed = tasks[w].executed
      /\ UNCHANGED <<handles, finishedTurnCnt>>
  BY DEF Launched, clientVars
<1>2. /\ \A j \in 1 .. Len(stream'[g]) : j > n =>
            j - n \in 1 .. Len(sqes) /\ stream'[g][j] = sqes[j - n]
      /\ \A j \in 1 .. n : stream'[g][j] = stream[g][j]
      /\ n \in Nat /\ Len(stream'[g]) \in Nat
      /\ \A g2 \in Groups \ {g} : stream'[g2] = stream[g2]
  BY <1>d, <1>1, AddedEntries, EntryFacts
<1> SUFFICES ASSUME NEW g2 \in Groups, NEW i \in 1 .. Len(handles[g2]) PROVE RowCount(g2, i)'
  BY <1>1 DEF RowCountInv
<1>e. SUFFICES ASSUME NEW u, u = handles[g2][i].task,
                      NEW c, c = finishedTurnCnt[g2][handles[g2][i].pos]
               PROVE  RowCount(g2, i)'
  OBVIOUS
<1>3. /\ c <= tasks[u].executed /\ u \in 1 .. Len(tasks) /\ c \in Nat
      /\ c > 0 => \A j \in 1 .. Len(stream[g2]) : IsTurn(stream[g2][j]) =>
           u <= stream[g2][j].task /\ (u = stream[g2][j].task => c < stream[g2][j].val)
  BY <1>a, <1>e, RowFacts, CountFacts DEF RowCountInv, RowCount
<1>4. ASSUME c > 0, NEW j \in 1 .. Len(stream'[g2]), IsTurn(stream'[g2][j])
      PROVE  u <= stream'[g2][j].task /\ (u = stream'[g2][j].task => c < stream'[g2][j].val)
  <2>1. CASE g2 # g
    BY <1>2, <1>3, <1>4, <2>1
  <2>2. CASE g2 = g /\ j <= n
    <3>1. j \in 1 .. Len(stream[g]) /\ stream'[g][j] = stream[g][j]
      BY <1>d, <1>2, <2>2
    <3> QED
      BY <1>3, <1>4, <2>2, <3>1
  <2>3. CASE g2 = g /\ ~(j <= n)
    <3>1. j - n \in 1 .. Len(sqes) /\ stream'[g][j] = sqes[j - n]
      BY <1>2, <2>3
    <3>2. stream'[g][j].task = t
      BY <1>1, <3>1 DEF TurnsInOrder
    <3>3. tasks[u].launched /\ tasks[u].group = g
      <4>1. tasks[u].executed \in Nat /\ tasks[u].executed # 0
        BY <1>3, <1>4, TaskFacts
      <4> QED
        BY <1>a, <1>3, <1>e, <2>3, <4>1, UnlaunchedIdle DEF TableInv
    <3>4. u # t /\ ~(t < u)
      BY <1>a, <1>1, <1>3, <3>3 DEF LaunchOrder
    <3>5. u < t
      BY <1>1, <1>3, <3>4, TaskFacts
    <3> QED
      BY <1>1, <1>3, <2>3, <3>2, <3>5, TaskFacts
  <2> QED
    BY <1>2, <2>1, <2>2, <2>3
<1> QED
  BY <1>1, <1>3, <1>4, <1>e DEF RowCount

LEMMA CountsStep ==
    ASSUME TypeInv, TypeInv', PlaceInv, CommitInv, FinishInv, Careful, [Next]_vars
    PROVE  RowCountInv'
<1>a. /\ RowCountInv /\ EntryInv /\ LaunchInv /\ OrderParts
  BY DEF CommitInv, FinishInv, OrderParts
<1>1. CASE Calm
  <2> SUFFICES ASSUME NEW g \in Groups, NEW i \in 1 .. Len(handles'[g]) PROVE RowCount(g, i)'
    BY DEF RowCountInv
  <2>1. i \in 1 .. Len(handles[g])
    BY <1>1 DEF Calm
  <2>2. CASE CountsFall
    BY <1>a, <1>1, <2>1, <2>2, RowCalm DEF CountsFall
  <2>3. ASSUME NEW s \in Groups, PostFinish(s) PROVE RowCount(g, i)'
    <3>1. CASE s = g /\ handles[g][i].pos = Head(stream[g]).pos
      BY <1>1, <2>1, <2>3, <3>1, RowPosted
    <3>2. CASE ~(s = g /\ handles[g][i].pos = Head(stream[g]).pos)
      <4> SUFFICES ASSUME NEW e, e = Head(stream[s]), NEW one, one = 1,
                          NEW p, p = handles[g][i].pos
                   PROVE  finishedTurnCnt'[g][p] = finishedTurnCnt[g][p]
        BY <1>a, <1>1, <2>1, RowCalm
      <4>1. /\ Dropped(s) /\ e.type = "post"
            /\ finishedTurnCnt' = [finishedTurnCnt EXCEPT ![e.group][e.pos] =
                                     StoreHalf(@, e.val)]
        BY <2>3 DEF PostFinish, Execute, Dropped
      <4>2. /\ one \in 1 .. Len(stream[s]) /\ e = stream[s][one] /\ IsTurn(stream[s][one])
        BY <4>1, DroppedEntries DEF IsTurn
      <4>3. e.group = s
        BY <1>a, <4>2 DEF EntryInv, EntryOK, IsTurn
      <4>4. p \in Pos /\ finishedTurnCnt \in [Groups -> [Pos -> Nat]]
        BY <2>1, RowFacts DEF TypeInv, TypeOK, AreaTypeOK
      <4> QED
        BY <3>2, <4>1, <4>3, <4>4
    <3> QED
      BY <3>1, <3>2
  <2> QED
    BY <2>2, <2>3, MarksStep
<1>2. CASE SendPrepare /\ UNCHANGED <<serverVars, stream>>
  BY <1>2, CountsSend
<1>3. CASE NextLaunch
  BY <1>3 DEF NextLaunch, PerGroup, RowCountInv
<1>4. ASSUME NEW g \in Groups, PrepareProcess(g), UNCHANGED clientVars PROVE RowCountInv'
  BY <1>a, <1>4, ProcessLaunches, CountsLaunch
<1> QED
  BY <1>1, <1>2, <1>3, <1>4, CalmSteps

----------------------------------------------------------------------------
(* Finalize goes on when the work of its group is done.                     *)

\* A group begins to end when it has no task, or when the last one is counted.
LEMMA EndingBegins ==
    ASSUME TypeInv, Waits, [Next]_vars, NEW g \in Groups, Ending(g)'
    PROVE  \/ Ending(g)
           \/ pc = "ready" /\ curHandleId[g] < 0
           \/ FinalizeQueried /\ call.group = g
<1>a. /\ finalized \in [Groups -> BOOLEAN] /\ call.group \in Groups
      /\ curHandleId[g] \in Int
  <2>1. /\ finalized \in [Groups -> BOOLEAN] /\ call \in Call
        /\ curHandleId \in [Groups -> -1 .. MaxHandle]
    BY DEF TypeInv, TypeOK, ClientTypeOK
  <2> QED
    BY <2>1, MaxHandleAssumption DEF Call
<1>0. finalized'[g] \/ (pc' \in {"send", "finDone"} /\ call'.msg.type = "finalize"
                        /\ call'.group = g)
  BY DEF Ending
<1>1. CASE finalized' = finalized /\ pc' \notin {"send", "finDone"}
  BY <1>0, <1>1 DEF Ending
<1>2. CASE finalized' = finalized /\ pc' = pc /\ call' = call
  BY <1>0, <1>2 DEF Ending
<1>3. ASSUME NEW g2, NEW r, NEW ext, NEW commit, Prepare(g2, r, ext, commit) PROVE Ending(g)
  BY <1>0, <1>3 DEF Prepare, Ending, ApiCall, NoMsg
<1>4. ASSUME NEW g2, NEW g3, NEW h, InterHcclGroupSync(g2, g3, h) PROVE Ending(g)
  BY <1>0, <1>4 DEF InterHcclGroupSync, Ending, ApiCall, NoMsg
<1>5. ASSUME NEW g2 \in Groups, NEW sync \in SyncModes, Finalize(g2, sync)
      PROVE  Ending(g) \/ (pc = "ready" /\ curHandleId[g] < 0)
  <2>1. /\ pc = "ready" /\ finalized' = finalized /\ call'.group = g2
        /\ pc' = IF sync /\ curHandleId[g2] >= 0 THEN "finQuery" ELSE "send"
    BY <1>5 DEF Finalize, ApiCall
  <2>2. sync
    BY DEF Waits
  <2>3. finalized[g] \/ (g2 = g /\ ~(curHandleId[g2] >= 0))
    BY <1>0, <2>1, <2>2
  <2> QED
    BY <1>a, <2>1, <2>3 DEF Ending
<1>6. CASE NextLaunch
  <2>1. pc = "ready" /\ pc' = "ready" /\ ~finalized'[g]
    BY <1>6 DEF NextLaunch, PerGroup
  <2> QED
    BY <1>0, <2>1
<1>7. CASE CallApi
  BY <1>1, <1>2, <1>3, <1>4, <1>5, <1>6, <1>7 DEF CallApi, PrepareRefused, Commit, Wait
<1>8. CASE SendExt
  <2>1. finalized' = finalized /\ call' = call /\ call.msg.type = "prepare"
    BY <1>8 DEF SendExt, GoOn, TypeInv, CallOK
  <2> QED
    BY <1>0, <2>1 DEF Ending
<1>9. CASE SendFinalize
  <2>1. /\ pc = "send" /\ call.msg.type = "finalize"
        /\ \/ call' = call /\ finalized' = finalized
           \/ finalized' = [finalized EXCEPT ![call.group] = TRUE] /\ pc' = "ready"
    BY <1>9 DEF SendFinalize, PutMsg, GoOn, Return
  <2> QED
    BY <1>0, <1>a, <2>1 DEF Ending
<1>10. CASE FinalizeDone
  <2>1. /\ pc = "finDone" /\ call.msg.type = "finalize" /\ pc' = "ready"
        /\ finalized' = [finalized EXCEPT ![call.group] = TRUE]
    BY <1>10 DEF FinalizeDone, Return, TypeInv, CallOK
  <2> QED
    BY <1>0, <1>a, <2>1 DEF Ending
<1>11. CASE FinalizeQueried
  <2>1. finalized' = finalized /\ call' = call
    BY <1>11 DEF FinalizeQueried, GoOn
  <2> QED
    BY <1>0, <1>11, <2>1 DEF Ending
<1>12. CASE ContinueCall
  BY <1>1, <1>8, <1>9, <1>10, <1>11, <1>12
     DEF ContinueCall, SendPrepare, SendSync, CommitWrite, WaitReturn, Return
<1>13. CASE ServerNext
  BY <1>2, <1>13 DEF ServerNext, clientVars
<1>14. ASSUME NEW s \in Groups, StreamNext(s) PROVE Ending(g)
  BY <1>0, <1>14 DEF StreamNext, WaitCommit, WaitFinish, RunKernel, PostFinish, Execute,
                     clientVars, Ending
<1>15. CASE UNCHANGED vars
  BY <1>2, <1>15 DEF vars, clientVars
<1> QED
  BY <1>7, <1>12, <1>13, <1>14, <1>15 DEF Next, ClientNext, Terminated

LEMMA NoRowsDone ==
    ASSUME TypeInv, CommitInv, OldDone, NEW g \in Groups, Len(handles[g]) = 0
    PROVE  AllDone(g)
<1>1. ASSUME NEW j \in 1 .. Len(stream[g]), IsTurn(stream[g][j]) PROVE FALSE
  <2>1. \E i \in 1 .. Len(handles[g]) : handles[g][i].task = stream[g][j].task
    BY <1>1, EntryRow DEF CommitInv
  <2> QED
    BY <2>1
<1> QED
  BY <1>1 DEF AllDone

\* When the last task of the group is counted to its last turn, all are over.
LEMMA CountedDone ==
    ASSUME TypeInv, CommitInv, FinishInv, NEW g \in Groups, NEW n, n = Len(handles[g]), n > 0,
           NEW hd, hd = handles[g][n], finishedTurnCnt[g][hd.pos] >= hd.repeat
    PROVE  AllDone(g)
<1>a. /\ TableInv /\ EntryInv /\ MessageInv /\ OldDone /\ RowOrder /\ WaitingInv
      /\ LaunchOrder /\ RowCountInv
  BY DEF CommitInv, FinishInv
<1>d. SUFFICES ASSUME NEW t, t = hd.task, NEW c, c = finishedTurnCnt[g][hd.pos]
               PROVE  AllDone(g)
  OBVIOUS
<1>1. /\ n \in Nat /\ n \in 1 .. Len(handles[g]) /\ hd \in Handle /\ hd.pos \in Pos
      /\ t \in 1 .. Len(tasks) /\ c \in Nat
  BY <1>d, RowFacts, CountFacts
<1>2. /\ tasks[t].group = g /\ tasks[t].repeat = hd.repeat /\ c >= tasks[t].repeat
      /\ tasks[t].repeat \in Nat /\ tasks[t].repeat > 0 /\ c > 0
  <2>1. tasks[t].group = g /\ tasks[t].repeat = hd.repeat
    BY <1>a, <1>1, <1>d DEF TableInv
  <2>2. tasks[t].repeat \in Nat /\ tasks[t].repeat > 0
    BY <1>1, TaskFacts
  <2> QED
    BY <1>1, <1>d, <2>1, <2>2
<1>3. /\ c <= tasks[t].executed
      /\ \A j \in 1 .. Len(stream[g]) : IsTurn(stream[g][j]) =>
            t <= stream[g][j].task /\ (t = stream[g][j].task => c < stream[g][j].val)
  BY <1>a, <1>1, <1>2, <1>d DEF RowCountInv, RowCount
<1>4. tasks[t].launched
  <2>1. tasks[t].executed \in Nat /\ tasks[t].executed # 0
    BY <1>1, <1>2, <1>3, TaskFacts
  <2> QED
    BY <1>a, <1>1, <2>1, UnlaunchedIdle
<1>5. ASSUME NEW i \in 1 .. Len(handles[g]) PROVE tasks[handles[g][i].task].launched
  <2>1. CASE i = n
    BY <1>4, <1>d, <2>1
  <2>2. CASE i # n
    <3>1. i < n
      BY <1>1, <2>2
    <3>2. handles[g][i].task < t /\ handles[g][i].task \in 1 .. Len(tasks)
      BY <1>a, <1>1, <1>d, <3>1, RowFacts DEF RowOrder
    <3>3. tasks[handles[g][i].task].group = g
      BY <1>a DEF TableInv
    <3> QED
      BY <1>a, <1>1, <1>2, <1>4, <3>2, <3>3 DEF LaunchOrder
  <2> QED
    BY <2>1, <2>2
<1>6. ASSUME NEW j \in 1 .. Len(stream[g]), IsTurn(stream[g][j]) PROVE FALSE
  <2> SUFFICES ASSUME NEW e, e = stream[g][j] PROVE FALSE
    OBVIOUS
  <2>1. /\ e.task \in 1 .. Len(tasks) /\ e.val \in 1 .. tasks[e.task].repeat
        /\ \E i \in 1 .. Len(handles[g]) : handles[g][i].task = e.task
    BY <1>a, <1>6, EntryRow
  <2>2. PICK i \in 1 .. Len(handles[g]) : handles[g][i].task = e.task
    BY <2>1
  <2>3. t <= e.task /\ (t = e.task => c < e.val)
    BY <1>3, <1>6
  <2>4. CASE i = n
    <3>1. e.task = t
      BY <1>d, <2>2, <2>4
    <3>2. e.val \in Nat /\ e.val <= tasks[t].repeat
      BY <1>2, <2>1, <3>1
    <3> QED
      BY <1>1, <1>2, <2>3, <3>1, <3>2
  <2>5. CASE i # n
    <3>1. i < n
      BY <1>1, <2>5
    <3>2. e.task < t
      BY <1>a, <1>1, <1>d, <2>2, <3>1 DEF RowOrder
    <3> QED
      BY <1>1, <2>1, <2>3, <3>2, TaskFacts
  <2> QED
    BY <2>4, <2>5
<1> QED
  BY <1>5, <1>6 DEF AllDone

\* When a group begins to end, all of its tasks are over.
LEMMA EndingDone ==
    ASSUME TypeInv, CommitInv, FinishInv, Waits, [Next]_vars, NEW g \in Groups, Ending(g)'
    PROVE  AllDone(g)
<1>a. OldDone /\ DoneInv
  BY DEF FinishInv
<1>1. CASE Ending(g)
  BY <1>a, <1>1 DEF DoneInv
<1>b. /\ curHandleId[g] \in -1 .. MaxHandle /\ MaxHandle \in Nat /\ MaxHandle > 0
  <2>1. curHandleId \in [Groups -> -1 .. MaxHandle]
    BY DEF TypeInv, TypeOK, ClientTypeOK
  <2> QED
    BY <2>1, MaxHandleAssumption
<1>2. CASE pc = "ready" /\ curHandleId[g] < 0
  <2>1. curHandleId[g] < MaxHandle /\ curHandleId[g] + 1 = 0
    BY <1>b, <1>2
  <2>2. Len(handles[g]) = 0
    BY <1>2, <2>1 DEF TypeInv, HandlesOK, Preparing
  <2> QED
    BY <1>a, <2>2, NoRowsDone
<1>3. CASE FinalizeQueried /\ call.group = g
  <2>1. /\ pc = "finQuery" /\ curHandleId[g] < MaxHandle
        /\ LET hd == handles[g][curHandleId[g] + 1]
           IN finishedTurnCnt[g][hd.pos] >= hd.repeat
    BY <1>3 DEF FinalizeQueried, TurnsFinished
  <2>2. Len(handles[g]) = curHandleId[g] + 1
    BY <2>1 DEF TypeInv, HandlesOK, Preparing
  <2>3. CASE Len(handles[g]) = 0
    BY <1>a, <2>3, NoRowsDone
  <2>4. CASE Len(handles[g]) # 0
    <3>1. Len(handles[g]) > 0
      BY <2>4, RowFacts
    <3>2. LET hd == handles[g][Len(handles[g])] IN finishedTurnCnt[g][hd.pos] >= hd.repeat
      BY <2>1, <2>2
    <3> QED
      BY <3>1, <3>2, CountedDone
  <2> QED
    BY <2>3, <2>4
<1> QED
  BY <1>1, <1>2, <1>3, EndingBegins

LEMMA DoneCalm ==
    ASSUME TypeInv, EntryInv, Calm, NEW g \in Groups, AllDone(g) PROVE AllDone(g)'
<1>1. ASSUME NEW i \in 1 .. Len(handles'[g]) PROVE tasks'[handles'[g][i].task].launched
  <2>1. i \in 1 .. Len(handles[g]) /\ handles'[g][i].task = handles[g][i].task
    BY DEF Calm
  <2>2. handles[g][i].task \in 1 .. Len(tasks)
    BY <2>1, RowFacts
  <2> QED
    BY <2>1, <2>2 DEF AllDone, Calm
<1>2. ASSUME NEW j \in 1 .. Len(stream'[g]) PROVE ~IsTurn(stream'[g][j])
  <2>1. PICK d : CalmMove(g, d)
    BY CalmMoves
  <2> QED
    BY <2>1, CalmEntry DEF CalmMove, AllDone
<1> QED
  BY <1>1, <1>2 DEF AllDone

LEMMA DoneStep ==
    ASSUME TypeInv, TypeInv', PlaceInv, CommitInv, FinishInv, [Next]_vars
    PROVE  DoneInv'
<1> SUFFICES ASSUME Waits, NEW g \in Groups, Ending(g)' PROVE AllDone(g)'
  BY DEF DoneInv, Waits
<1>a. /\ AllDone(g) /\ EntryInv /\ TableInv /\ LaunchInv /\ OrderParts /\ OldDone
  BY EndingDone DEF CommitInv, FinishInv, OrderParts
<1>1. CASE Calm
  BY <1>a, <1>1, DoneCalm
<1>2. CASE SendPrepare /\ UNCHANGED <<serverVars, stream>>
  <2>b. PICK s, p, m, u, hd : Prepared(s, p, m, u, hd)
    BY <1>2, SendPrepared
  <2>1. /\ s \in Groups /\ ~finalized[s] /\ pc' \in {"commit", "ready"} /\ hd \in Handle
        /\ handles' = [handles EXCEPT ![s] = Append(@, hd)]
        /\ \A t \in 1 .. Len(tasks) : tasks'[t] = tasks[t]
        /\ UNCHANGED <<stream, finalized>>
    BY <2>b DEF Prepared
  <2>2. g # s
    BY <2>1 DEF Ending
  <2>3. handles'[g] = handles[g]
    BY <2>1, <2>2, RowAdded
  <2> QED
    BY <1>a, <2>1, <2>3, RowFacts DEF AllDone
<1>3. CASE NextLaunch
  <2>1. pc' = "ready" /\ ~finalized'[g]
    BY <1>3 DEF NextLaunch, PerGroup
  <2> QED
    BY <2>1 DEF Ending
<1>4. ASSUME NEW s \in Groups, PrepareProcess(s), UNCHANGED clientVars PROVE AllDone(g)'
  <2>b. PICK t, sqes : Launched(s, t, sqes)
    BY <1>a, <1>4, ProcessLaunches
  <2>1. /\ t \in 1 .. Len(tasks) /\ tasks[t].group = s /\ ~tasks[t].launched
        /\ sqes \in Seq(Sqe) /\ Added(s, sqes) /\ tasks'[t].launched
        /\ \A w \in 1 .. Len(tasks) : w # t => tasks'[w].launched = tasks[w].launched
        /\ UNCHANGED handles
    BY <2>b DEF Launched, clientVars
  <2>2. g # s
    <3>1. PICK g2 \in Groups : \E i \in 1 .. Len(handles[g2]) : handles[g2][i].task = t
      BY <1>a, <2>1 DEF OldDone, InTable
    <3>2. g2 = s
      BY <1>a, <2>1, <3>1 DEF TableInv
    <3> QED
      BY <1>a, <2>1, <3>1, <3>2 DEF AllDone
  <2>3. stream'[g] = stream[g]
    BY <2>1, <2>2, AddedEntries
  <2>4. \A i \in 1 .. Len(handles[g]) : tasks'[handles[g][i].task].launched
    BY <1>a, <2>1, RowFacts DEF AllDone
  <2> QED
    BY <1>a, <2>1, <2>3, <2>4 DEF AllDone
<1> QED
  BY <1>1, <1>2, <1>3, <1>4, CalmSteps

----------------------------------------------------------------------------
(* What Wait and Query read has run.                                        *)

LEMMA FinishStep ==
    ASSUME Careful, TypeInv, PlaceInv, CommitInv, FinishInv, [Next]_vars PROVE FinishInv'
<1>a. /\ TypeInv' /\ MarkParts /\ OrderParts /\ FlagInv /\ DoneInv /\ LaunchInv
  BY TypeStep DEF FinishInv, MarkParts, OrderParts
<1>1. OrderParts'
  <2>1. ASSUME NEW g \in Groups, PrepareProcess(g), UNCHANGED clientVars PROVE OrderParts'
    BY <1>a, <2>1, ProcessLaunches, OrderProcess
  <2> QED
    BY <1>a, <2>1, CalmSteps, OrderCalm, OrderSend, OrderLaunch
<1>2. MarkParts'
  BY <1>a, MarksStep
<1>3. FlagInv' /\ RowCountInv' /\ DoneInv'
  BY <1>a, FlagStep, CountsStep, DoneStep
<1> QED
  BY <1>1, <1>2, <1>3 DEF FinishInv, MarkParts, OrderParts

LEMMA FinishInit == Init => FinishInv
<1> SUFFICES ASSUME Init PROVE FinishInv
  OBVIOUS
<1>1. /\ pc = "ready" /\ Len(tasks) = 0 /\ launch = 1 /\ serverLaunch = 1 /\ server = "run"
      /\ call.msg.type = "none"
      /\ \A g \in Groups : /\ ~finalized[g] /\ ~finalizeFlag[g] /\ ~finishFlag[g]
                           /\ Len(handles[g]) = 0 /\ Len(stream[g]) = 0
                           /\ \A p \in Pos : finishedTurnCnt[g][p] = 0
  BY DEF Init, InitArea, InitClient, InitServer, InitStream, Api!Init, FreshServer, PerGroup,
         PerPos, NoCall, ApiCall, NoMsg
<1>2. 0 \in Groups
  BY ConstantFacts
<1>3. \A g \in Groups : ~Finalizing(g) /\ Sent(g) = "open" /\ ~Ending(g)
  BY <1>1 DEF Finalizing, Sent, Ending
<1>4. LaunchInv /\ MarkInv /\ FlagInv /\ UnusedInv
  BY <1>1, <1>2, <1>3 DEF LaunchInv, MarkInv, FlagInv, UnusedInv
<1>5. RowOrder /\ WaitingInv /\ LaunchOrder /\ OldDone /\ ReadyInv /\ OrderInv
  BY <1>1 DEF RowOrder, WaitingInv, LaunchOrder, OldDone, ReadyInv, OrderInv
<1>6. RowCountInv /\ DoneInv
  BY <1>1, <1>3 DEF RowCountInv, DoneInv
<1> QED
  BY <1>4, <1>5, <1>6 DEF FinishInv

LEMMA FinishInvariant ==
    ASSUME Careful PROVE Spec => [](TypeInv /\ PlaceInv /\ CommitInv /\ FinishInv)
<1>1. TypeInv /\ PlaceInv /\ CommitInv /\ FinishInv /\ [Next]_vars => FinishInv'
  BY FinishStep
<1> QED
  BY <1>1, FinishInit, PlaceInvariant, CommitInvariant, PTL DEF Spec

\* Wait and Query return on a count that the tasks before may have left at the
\* position, and that a launch clears only when it waits for its work: the turns
\* counted at the position of a live handle have all run (hccl_aicpu_def.h:97).
THEOREM FinishedIsExecutedCorrect == ASSUME Careful PROVE Spec => []FinishedIsExecuted
<1>1. TypeInv /\ FinishInv => FinishedIsExecuted
  <2> SUFFICES ASSUME TypeInv, FinishInv, NEW g \in Groups, NEW i \in DOMAIN handles[g]
               PROVE  finishedTurnCnt[g][handles[g][i].pos] <= tasks[handles[g][i].task].executed
    BY DEF FinishedIsExecuted
  <2>1. i \in 1 .. Len(handles[g])
    <3>1. handles[g] \in Seq(Handle)
      BY DEF TypeInv, TypeOK, ClientTypeOK
    <3> QED
      BY <3>1, LenProperties
  <2> QED
    BY <2>1 DEF FinishInv, RowCountInv, RowCount
<1> QED
  BY <1>1, FinishInvariant, PTL

----------------------------------------------------------------------------
(* What a launch leaves in the areas for the next one.                      *)

\* Before the server marks the end of a group it has taken its messages.
SlotsInv ==
    \A g \in Groups : Marked(g) =>
        Sent(g) = "closed" /\ \A p \in Pos : sendMsgs[g][p] = NoMsg

\* A count of turns fits the half that the condition tasks read.
HalfInv == \A g \in Groups, p \in Pos : commitTurnCnt[g][p] < Half

CleanInv == SlotsInv /\ ExtInv /\ HalfInv

SlotsFall == \A g \in Groups, p \in Pos : sendMsgs'[g][p] \in {NoMsg, sendMsgs[g][p]}

LEMMA TakeEmpties ==
    ASSUME TypeInv, NEW g \in Groups, TakeMsg(g) PROVE SlotsFall
<1>1. sendMsgs \in [Groups -> [Pos -> Msg]] /\ msgPos[g] \in Pos
  BY DEF TypeInv, TypeOK, AreaTypeOK, ServerTypeOK
<1> QED
  BY <1>1 DEF TakeMsg, SlotsFall

LEMMA SlotsClient ==
    ASSUME TypeInv, PlaceInv, SlotsInv, ClientNext PROVE SlotsInv'
<1>a. /\ UNCHANGED serverVars /\ call.group \in Groups
      /\ finalized \in [Groups -> BOOLEAN] /\ sendMsgs \in [Groups -> [Pos -> Msg]]
      /\ (pc # "ready" => ~finalized[call.group])
  BY DEF ClientNext, TypeInv, TypeOK, ClientTypeOK, AreaTypeOK, Call, CallOK
<1>1. CASE NextLaunch
  <2> SUFFICES ASSUME NEW g \in Groups PROVE ~Marked(g)'
    BY DEF SlotsInv
  <2>1. launch \in Nat /\ serverLaunch \in Nat /\ launch' = launch + 1
    BY <1>1, PlaceTypes DEF NextLaunch
  <2>2. launch + 1 >= serverLaunch /\ (launch + 1 = serverLaunch => ~finalizeFlag[g])
    <3>1. CASE Placed(g)
      BY <2>1, <3>1 DEF Placed, Layout
    <3>2. CASE Abandoned(g)
      BY <2>1, <3>2 DEF Abandoned
    <3> QED
      BY <3>1, <3>2 DEF PlaceInv
  <2>3. finishFlag[g] => finalizeFlag[g]
    BY DEF PlaceInv, RetryInv
  <2> QED
    BY <1>a, <2>1, <2>2, <2>3 DEF Marked, serverVars
<1>2. ASSUME launch' = launch,
             \A g \in Groups : Sent(g) = "closed" =>
                Sent(g)' = "closed" /\ \A p \in Pos : sendMsgs'[g][p] = sendMsgs[g][p]
      PROVE  SlotsInv'
  <2>1. \A g \in Groups : Marked(g)' => Marked(g)
    BY <1>a, <1>2 DEF Marked, serverVars
  <2> QED
    BY <1>2, <2>1 DEF SlotsInv
<1>3. CASE CalmCall
  <2>1. /\ UNCHANGED <<launch, finalized, sendMsgs>> /\ pc # "finDone"
    BY <1>3 DEF CalmCall, Prepare, PrepareRefused, InterHcclGroupSync, Commit, Wait, Finalize,
                SendExt, CommitWrite, WaitReturn, FinalizeQueried, areaVars
  <2> QED
    BY <1>2, <2>1 DEF Sent, Finalizing
<1>4. CASE SendPrepare \/ SendSync \/ SendFinalize
  <2>1. /\ pc = "send" /\ launch' = launch
        /\ \E m : sendMsgs' = [sendMsgs EXCEPT ![call.group][curMsgPosition[call.group]] = m]
        /\ finalized' = finalized \/ finalized' = [finalized EXCEPT ![call.group] = TRUE]
    BY <1>4 DEF SendPrepare, SendSync, SendFinalize, PutMsg
  <2>2. \A g \in Groups : Sent(g) = "closed" => finalized[g] /\ g # call.group
    BY <1>a, <2>1 DEF Sent, Finalizing
  <2>3. \A g \in Groups : g # call.group =>
            sendMsgs'[g] = sendMsgs[g] /\ finalized'[g] = finalized[g]
    BY <1>a, <2>1
  <2> QED
    BY <1>2, <2>1, <2>2, <2>3 DEF Sent
<1>5. CASE FinalizeDone
  <2>1. /\ UNCHANGED <<launch, sendMsgs>>
        /\ finalized' = [finalized EXCEPT ![call.group] = TRUE]
    BY <1>5 DEF FinalizeDone
  <2>2. \A g \in Groups : Sent(g) = "closed" => finalized'[g]
    BY <1>a, <2>1 DEF Sent, Finalizing
  <2> QED
    BY <1>2, <2>1, <2>2 DEF Sent
<1> QED
  BY <1>1, <1>3, <1>4, <1>5 DEF ClientNext, CallApi, ContinueCall, CalmCall

LEMMA SlotsServer ==
    ASSUME TypeInv, PlaceInv, MarkParts, SlotsInv, ServerNext PROVE SlotsInv'
<1>a. \A g \in Groups : Sent(g)' = Sent(g)
  BY DEF ServerNext, clientVars, Sent, Finalizing
<1>b. launch' = launch /\ launch \in Nat /\ serverLaunch \in Nat
  BY PlaceTypes, ConstantFacts DEF ServerNext, clientVars
<1>1. ASSUME SlotsFall, \A g \in Groups : Marked(g)' => Marked(g) PROVE SlotsInv'
  BY <1>a, <1>1 DEF SlotsInv, SlotsFall
<1>2. UNCHANGED sendMsgs => SlotsFall
  BY DEF SlotsFall
<1>3. CASE RestartServer
  <2>1. /\ server = "exit" /\ serverLaunch' = serverLaunch + 1 /\ UNCHANGED sendMsgs
        /\ \A g \in Groups : ~finishFlag'[g]
    BY <1>3 DEF RestartServer, areaVars, FreshServer, PerGroup
  <2>2. \A g \in Groups : finishFlag[g]
    BY <2>1 DEF PlaceInv, RetryInv
  <2>3. \A g \in Groups : Marked(g)' => Marked(g)
    BY <1>b, <2>1, <2>2 DEF Marked
  <2> QED
    BY <1>1, <1>2, <2>1, <2>3
<1>4. ASSUME NEW g \in Groups, GroupFinish(g) PROVE SlotsInv'
  <2>1. /\ UNCHANGED <<sendMsgs, serverLaunch>> /\ server = "run"
        /\ finishFlag' = [finishFlag EXCEPT ![g] = TRUE]
    BY <1>4 DEF GroupFinish, Visit
  <2>2. launch = serverLaunch /\ Sent(g) = "closed" /\ finalizeFlag[g]
    BY <1>4, GroupMarked DEF MarkMade
  <2>3. \A p \in Pos : sendMsgs[g][p] = NoMsg
    <3>1. Layout(g, 0, "open", End(g), Sent(g))
      BY <1>b, <2>1, <2>2 DEF PlaceInv, Placed
    <3> QED
      BY <2>2, <3>1, Positions DEF Layout
  <2>4. \A g2 \in Groups \ {g} : Marked(g2)' => Marked(g2)
    <3>1. finishFlag \in [Groups -> BOOLEAN]
      BY DEF TypeInv, TypeOK, ServerTypeOK
    <3> QED
      BY <1>b, <2>1, <3>1 DEF Marked
  <2> QED
    BY <1>a, <2>1, <2>2, <2>3, <2>4 DEF SlotsInv
<1>5. ASSUME NEW g \in Groups, GroupServerProcess(g), ~GroupFinish(g) PROVE SlotsInv'
  <2>1. SlotsFall /\ UNCHANGED <<serverLaunch, finishFlag>>
    <3>1. ASSUME NEW type, Serve(g, type) PROVE SlotsFall /\ UNCHANGED <<serverLaunch, finishFlag>>
      BY <3>1, TakeEmpties DEF Serve, Visit
    <3>2. CASE Finished(g) \/ InTime(g) \/ TimedOut(g) \/ RetryExceeded(g)
      BY <1>2, <3>2 DEF Finished, InTime, TimedOut, RetryExceeded, OtherServerVars, areaVars, Visit
    <3>3. CASE NoOpHandle(g)
      <4>1. TakeMsg(g) \/ UNCHANGED sendMsgs
        BY <3>3 DEF NoOpHandle
      <4> QED
        BY <1>2, <3>3, <4>1, TakeEmpties DEF NoOpHandle, Visit
    <3> QED
      BY <1>5, <3>1, <3>2, <3>3 DEF GroupServerProcess, PrepareProcess, PrepareRetry,
         InterGroupSyncProcess, InterGroupSyncRetry, FinalizeProcess
  <2> QED
    BY <1>1, <1>b, <2>1 DEF Marked
<1> QED
  BY <1>3, <1>4, <1>5 DEF ServerNext

LEMMA SlotsStep ==
    ASSUME TypeInv, PlaceInv, MarkParts, SlotsInv, [Next]_vars PROVE SlotsInv'
<1>1. ASSUME UNCHANGED <<clientVars, serverVars, sendMsgs>> PROVE SlotsInv'
  BY <1>1 DEF SlotsInv, Marked, Sent, Finalizing, clientVars, serverVars
<1>2. ASSUME NEW g \in Groups, StreamNext(g) PROVE SlotsInv'
  BY <1>1, <1>2 DEF StreamNext, WaitCommit, WaitFinish, RunKernel, PostFinish, Execute
<1>3. CASE UNCHANGED vars
  BY <1>1, <1>3 DEF vars, areaVars
<1> QED
  BY <1>2, <1>3, SlotsClient, SlotsServer DEF Next, Terminated

LEMMA ExtStep == ASSUME TypeInv, ExtInv, [Next]_vars PROVE ExtInv'
<1>1. ASSUME UNCHANGED <<clientVars, sendMsgs, paramExt>> PROVE ExtInv'
  BY <1>1 DEF ExtInv, ExtAhead, clientVars
<1>2. CASE ServerNext
  <2>1. UNCHANGED clientVars
    BY <1>2 DEF ServerNext
  <2>2. CASE RestartServer
    BY <1>1, <2>1, <2>2 DEF RestartServer, areaVars
  <2>3. ASSUME NEW g \in Groups, NEW type, Serve(g, type) PROVE ExtInv'
    BY <2>1, <2>3, ExtTaken DEF Serve
  <2>4. ASSUME NEW g \in Groups,
               GroupFinish(g) \/ Finished(g) \/ InTime(g) \/ TimedOut(g) \/ RetryExceeded(g)
        PROVE  ExtInv'
    BY <1>1, <2>1, <2>4 DEF GroupFinish, Finished, InTime, TimedOut, RetryExceeded,
                            OtherServerVars, areaVars
  <2>5. ASSUME NEW g \in Groups, NoOpHandle(g) PROVE ExtInv'
    BY <1>1, <2>1, <2>5, ExtTaken DEF NoOpHandle
  <2> QED
    BY <1>2, <2>2, <2>3, <2>4, <2>5 DEF ServerNext, GroupServerProcess, PrepareProcess,
       PrepareRetry, InterGroupSyncProcess, InterGroupSyncRetry, FinalizeProcess
<1>3. ASSUME NEW g \in Groups, StreamNext(g) PROVE ExtInv'
  BY <1>1, <1>3 DEF StreamNext, WaitCommit, WaitFinish, RunKernel, PostFinish, Execute
<1>4. CASE UNCHANGED vars
  BY <1>1, <1>4 DEF vars, areaVars
<1> QED
  BY <1>2, <1>3, <1>4, ExtClient DEF Next, Terminated

\* A commit writes at most the repeat of its task; the last wait clears a count
\* that has no high half.
LEMMA HalfCommit ==
    ASSUME TypeInv, TableInv, HalfInv, CommitWrite PROVE HalfInv'
<1> SUFFICES ASSUME NEW g, g = call.group, NEW i, i = call.handle + 1,
                    NEW hd, hd = handles[g][i]
             PROVE  HalfInv'
  OBVIOUS
<1>1. /\ pc = "commit" /\ commitTurnCnt' = [commitTurnCnt EXCEPT ![g][hd.pos] = hd.commit]
  BY DEF CommitWrite
<1>2. g \in Groups /\ hd \in Handle /\ tasks[hd.task] \in Task /\ i \in 1 .. Len(handles[g])
  BY <1>1, CallTask
<1>3. hd.commit <= tasks[hd.task].repeat
  BY <1>2 DEF TableInv
<1>4. tasks[hd.task].repeat \in Nat /\ tasks[hd.task].repeat <= 255
  BY <1>2, RepeatBound DEF Task
<1>5. hd.commit < Half
  <2>1. hd.commit \in Nat
    BY <1>2 DEF Handle
  <2>2. hd.commit <= 255
    BY <1>3, <1>4, <2>1
  <2> QED
    BY <2>1, <2>2 DEF Half
<1>6. commitTurnCnt \in [Groups -> [Pos -> Nat]]
  BY DEF TypeInv, TypeOK, AreaTypeOK
<1> QED
  BY <1>1, <1>5, <1>6 DEF HalfInv

LEMMA HalfWait ==
    ASSUME TypeInv, HalfInv, NEW g \in Groups, WaitCommit(g) PROVE HalfInv'
<1> SUFFICES ASSUME NEW e, e = Head(stream[g]) PROVE HalfInv'
  OBVIOUS
<1>1. commitTurnCnt' = [commitTurnCnt EXCEPT ![e.group][e.pos] = CounterAfter(@, e)]
  BY DEF WaitCommit
<1>2. e.group \in Groups /\ e.pos \in Pos
  <2>1. stream[g] # <<>> /\ stream[g] \in Seq(Sqe)
    BY DEF WaitCommit, Execute, TypeInv, TypeOK
  <2>2. e \in Sqe
    BY <2>1, HeadTailProperties
  <2> QED
    BY <2>2 DEF Sqe
<1>3. commitTurnCnt \in [Groups -> [Pos -> Nat]]
  BY DEF TypeInv, TypeOK, AreaTypeOK
<1>4. \A c \in Nat : c < Half => CounterAfter(c, e) < Half
  <2>1. \A c \in Nat : c < Half => c - LoadHalf(c) = 0
    BY DEF LoadHalf, Half
  <2> QED
    BY <2>1 DEF CounterAfter, StoreHalf, Half
<1> QED
  BY <1>1, <1>2, <1>3, <1>4 DEF HalfInv

LEMMA HalfStep ==
    ASSUME TypeInv, TableInv, HalfInv, [Next]_vars PROVE HalfInv'
<1>1. UNCHANGED commitTurnCnt => HalfInv'
  BY DEF HalfInv
<1>2. CASE ClientNext
  <2>1. CASE CallApi
    <3>1. UNCHANGED commitTurnCnt
      BY <2>1 DEF CallApi, Prepare, PrepareRefused, InterHcclGroupSync, Commit, Wait, Finalize,
                  NextLaunch, areaVars
    <3> QED
      BY <1>1, <3>1
  <2>2. CASE SendExt \/ SendPrepare \/ SendSync \/ SendFinalize \/ WaitReturn
                \/ FinalizeQueried \/ FinalizeDone
    <3>1. UNCHANGED commitTurnCnt
      BY <2>2 DEF SendExt, SendPrepare, SendSync, SendFinalize, WaitReturn, FinalizeQueried,
                  FinalizeDone, PutMsg, areaVars
    <3> QED
      BY <1>1, <3>1
  <2> QED
    BY <1>2, <2>1, <2>2, HalfCommit DEF ClientNext, ContinueCall
<1>3. CASE ServerNext
  <2>1. UNCHANGED commitTurnCnt
    <3>1. CASE RestartServer
      BY <3>1 DEF RestartServer, areaVars
    <3>2. ASSUME NEW g \in Groups, NEW type, Serve(g, type) PROVE UNCHANGED commitTurnCnt
      BY <3>2 DEF Serve
    <3>3. ASSUME NEW g \in Groups,
                 GroupFinish(g) \/ Finished(g) \/ InTime(g) \/ TimedOut(g) \/ RetryExceeded(g)
                    \/ NoOpHandle(g)
          PROVE  UNCHANGED commitTurnCnt
      BY <3>3 DEF GroupFinish, Finished, InTime, TimedOut, RetryExceeded, NoOpHandle,
                  OtherServerVars, areaVars
    <3> QED
      BY <1>3, <3>1, <3>2, <3>3 DEF ServerNext, GroupServerProcess, PrepareProcess,
         PrepareRetry, InterGroupSyncProcess, InterGroupSyncRetry, FinalizeProcess
  <2> QED
    BY <1>1, <2>1
<1>4. ASSUME NEW g \in Groups, StreamNext(g) PROVE HalfInv'
  BY <1>1, <1>4, HalfWait DEF StreamNext, WaitFinish, RunKernel, PostFinish
<1>5. CASE UNCHANGED vars
  BY <1>1, <1>5 DEF vars, areaVars
<1> QED
  BY <1>2, <1>3, <1>4, <1>5 DEF Next, Terminated

LEMMA CleanStep ==
    ASSUME TypeInv, PlaceInv, CommitInv, FinishInv, CleanInv, [Next]_vars PROVE CleanInv'
<1>1. MarkParts /\ TableInv
  BY DEF MarkParts, FinishInv, CommitInv
<1> QED
  BY <1>1, SlotsStep, ExtStep, HalfStep DEF CleanInv

LEMMA CleanInit == Init => CleanInv
<1> SUFFICES ASSUME Init PROVE CleanInv
  OBVIOUS
<1>1. /\ pc = "ready" /\ launch = 1 /\ serverLaunch = 1
      /\ \A g \in Groups : /\ ~finishFlag[g]
                           /\ \A p \in Pos : ~paramExt[g][p] /\ commitTurnCnt[g][p] = 0
  BY DEF Init, InitArea, InitClient, InitServer, FreshServer, PerGroup, PerPos
<1> QED
  BY <1>1 DEF CleanInv, SlotsInv, Marked, ExtInv, HalfInv, Half

LEMMA CleanInvariant ==
    ASSUME Waits PROVE Spec => [](TypeInv /\ PlaceInv /\ CommitInv /\ FinishInv /\ CleanInv)
<1>1. Careful
  BY DEF Careful
<1>2. TypeInv /\ PlaceInv /\ CommitInv /\ FinishInv /\ CleanInv /\ [Next]_vars => CleanInv'
  BY CleanStep
<1>3. Spec => [](TypeInv /\ PlaceInv /\ CommitInv /\ FinishInv)
  BY <1>1, FinishInvariant
<1> QED
  BY <1>2, <1>3, CleanInit, PTL DEF Spec

\* Nothing of a group that is done is in its areas.
LEMMA DoneClean ==
    ASSUME Waits, TypeInv, CommitInv, FinishInv, CleanInv, pc = "ready",
           NEW g \in Groups, finalized[g]
    PROVE  \A p \in Pos : /\ sendMsgs[g][p] = NoMsg /\ ~paramExt[g][p]
                          /\ commitTurnCnt[g][p] = 0 /\ finishedTurnCnt[g][p] = 0
<1>1. AllDone(g)
  BY DEF FinishInv, DoneInv, Ending
<1>2. \A p \in Pos : sendMsgs[g][p] = NoMsg
  <2>1. Marked(g)
    BY DEF FinishInv, LaunchInv
  <2> QED
    BY <2>1 DEF CleanInv, SlotsInv
<1>3. \A p \in Pos : ~paramExt[g][p]
  <2>1. NoMsg.ext = FALSE
    BY DEF NoMsg
  <2> QED
    BY <1>2, <2>1 DEF CleanInv, ExtInv, ExtAhead
<1>4. \A p \in Pos : finishedTurnCnt[g][p] = 0
  BY DEF FinishInv, UnusedInv
<1>5. ~InHand(g)
  <2> SUFFICES ASSUME InHand(g), NEW t, t = rcvMsg[g].task PROVE FALSE
    OBVIOUS
  <2>1. t \in 1 .. Len(tasks) /\ tasks[t].group = g /\ ~tasks[t].launched
    BY SlotFacts DEF CommitInv, MessageInv, NotLaunched, At
  <2>2. PICK g2 \in Groups : \E i \in 1 .. Len(handles[g2]) : handles[g2][i].task = t
    BY <2>1 DEF FinishInv, OldDone, InTable
  <2>3. PICK i \in 1 .. Len(handles[g2]) : handles[g2][i].task = t
    BY <2>2
  <2>4. g2 = g
    BY <2>1, <2>3 DEF CommitInv, TableInv
  <2> QED
    BY <1>1, <2>1, <2>3, <2>4 DEF AllDone
<1>6. ASSUME NEW p \in Pos PROVE commitTurnCnt[g][p] = 0
  <2>1. NoneLeft(g, p)
    <3>1. Len(stream[g]) \in Nat
      BY EntryFacts
    <3> QED
      BY <1>1, <3>1 DEF AllDone, IsTurn, NoneLeft, NoneBefore, LastWait
  <2>2. ~InSlot(g, p)
    BY <1>2 DEF InSlot, NoMsg
  <2>3. Low(g, p) = 0
    BY <1>5, <2>1, <2>2 DEF CommitInv, CountInv, CountOK
  <2>4. commitTurnCnt[g][p] \in Nat /\ commitTurnCnt[g][p] < Half
    BY SlotFacts DEF CleanInv, HalfInv
  <2> QED
    BY <2>3, <2>4 DEF Low, LoadHalf, Half
<1> QED
  BY <1>2, <1>3, <1>4, <1>6

\* The areas are kept over the launches, and only cleared by what reads them:
\* the server its slots, the last wait of a task its commits, Finalize the
\* counts.  When every group is finalized by a Finalize that waits, nothing of
\* the launch is left for the next one to read (hccl_aicpu.h:448).
THEOREM CleanForNextLaunchCorrect == ASSUME Waits PROVE Spec => []CleanForNextLaunch
<1>1. TypeInv /\ CommitInv /\ FinishInv /\ CleanInv => CleanForNextLaunch
  <2> SUFFICES ASSUME TypeInv, CommitInv, FinishInv, CleanInv, \A g \in Groups : finalized[g]
               PROVE  /\ sendMsgs = PerPos(NoMsg) /\ paramExt = PerPos(FALSE)
                      /\ commitTurnCnt = PerPos(0) /\ finishedTurnCnt = PerPos(0)
    BY DEF CleanForNextLaunch
  <2>1. pc = "ready"
    BY DEF TypeInv, TypeOK, ClientTypeOK, CallOK, Call
  <2>2. \A g \in Groups, p \in Pos :
            /\ sendMsgs[g][p] = NoMsg /\ ~paramExt[g][p]
            /\ commitTurnCnt[g][p] = 0 /\ finishedTurnCnt[g][p] = 0
    BY <2>1, DoneClean
  <2>3. /\ sendMsgs \in [Groups -> [Pos -> Msg]] /\ paramExt \in [Groups -> [Pos -> BOOLEAN]]
        /\ commitTurnCnt \in [Groups -> [Pos -> Nat]]
        /\ finishedTurnCnt \in [Groups -> [Pos -> Nat]]
    BY DEF TypeInv, TypeOK, AreaTypeOK
  <2>4. sendMsgs = PerPos(NoMsg)
    BY <2>2, <2>3 DEF PerPos
  <2>5. paramExt = PerPos(FALSE)
    BY <2>2, <2>3 DEF PerPos
  <2>6. commitTurnCnt = PerPos(0)
    BY <2>2, <2>3 DEF PerPos
  <2>7. finishedTurnCnt = PerPos(0)
    BY <2>2, <2>3 DEF PerPos
  <2> QED
    BY <2>4, <2>5, <2>6, <2>7
<1> QED
  BY <1>1, CleanInvariant, PTL

----------------------------------------------------------------------------
\* What an author keeps to for the API to hold over groups: no Prepare once a group
\* is finalized, and numbers for all the handles of a launch.
Orderly == Careful /\ FinalizeLast /\ NGroups * MaxHandle <= SeqMod

Alive == server # "fail"

----------------------------------------------------------------------------
\* The numbers of a launch count its tasks, those after b, from 0, until FINALIZE
\* makes the next number 0 again; the server has launched those below the one
\* it expects.
Restarted == pc = "finDone" \/ \E g \in Groups : finalized[g]
NextNumber(b) ==
    primitiveId = IF Restarted \/ Len(tasks) - b = SeqMod THEN 0 ELSE Len(tasks) - b
MessageNumbers(b) ==
    \A g \in Groups :
        /\ \A p \in Pos : InSlot(g, p) => sendMsgs[g][p].seq = sendMsgs[g][p].task - 1 - b
        /\ InHand(g) => rcvMsg[g].seq = rcvMsg[g].task - 1 - b
Progress(b) ==
    /\ launch = serverLaunch => b + expectSeqNum <= Len(tasks) /\ LaunchedTo(b + expectSeqNum)
    /\ launch = serverLaunch + 1 => LaunchedTo(b)
    /\ launch + 1 = serverLaunch => expectSeqNum = 0 /\ LaunchedTo(Len(tasks))
Numbering(b) == TableNumbers(b) /\ NextNumber(b) /\ MessageNumbers(b) /\ Progress(b)
NumberInv == Alive => \E b \in 0 .. Len(tasks) : Numbering(b)

OpenInv == Preparing => \A g \in Groups : ~finalized[g]

----------------------------------------------------------------------------
RowOf(rows, h, t) == h + 1 <= Len(rows) /\ rows[h + 1].task = t
RowFor(g, h, t) == RowOf(handles[g], h, t)

SyncOf(rows, m, d) == m.type = "sync" /\ RowOf(rows[m.dep], m.handle, d)
SyncMsg(m, d) == SyncOf(handles, m, d)

RefInv ==
    Alive =>
    /\ \A g \in Groups, p \in Pos : InSlot(g, p) =>
            RowFor(g, sendMsgs[g][p].handle, sendMsgs[g][p].task)
    /\ \A g \in Groups : InHand(g) => RowFor(g, rcvMsg[g].handle, rcvMsg[g].task)

KnownInv ==
    /\ launch = serverLaunch =>
        \A g \in Groups, h \in Handles : handleToMsgPos[g][h] # Unknown =>
            /\ h + 1 <= Len(handles[g])
            /\ handles[g][h + 1].pos = handleToMsgPos[g][h]
            /\ handles[g][h + 1].repeat = handleToRepeat[g][h]
    /\ launch + 1 = serverLaunch =>
        \A g \in Groups, h \in Handles : handleToMsgPos[g][h] = Unknown

EntryOf(rows, r, e, d) ==
    /\ e.type = "waitFinish" /\ r <= e.val
    /\ \E i \in 1 .. Len(rows[e.group]) :
            rows[e.group][i].task = d /\ rows[e.group][i].pos = e.pos
SyncEntry(e, d) == EntryOf(handles, tasks[d].repeat, e, d)

SlotWait(g, d, t) ==
    /\ ~(InHand(g) /\ rcvMsg[g].task = t)
    /\ \E q \in Pos :
        /\ SyncMsg(sendMsgs[g][q], d)
        /\ \A p \in Pos : InSlot(g, p) /\ sendMsgs[g][p].task = t => q < p
HandWait(g, d) == retryCnt[g] > 0 /\ SyncMsg(rcvMsg[g], d)
StreamWait(g, d, t) ==
    \E k \in 1 .. Len(stream[g]) :
        /\ SyncEntry(stream[g][k], d)
        /\ \A j \in 1 .. Len(stream[g]) : IsTurn(stream[g][j]) /\ stream[g][j].task = t => k < j

Over(t) == tasks[t].executed = tasks[t].repeat
ToLaunch(t) == t \in 1 .. Len(tasks) => ~tasks[t].launched

\* A task of a group that keeps its context does not run before those it depends on.
Ahead(g, d, t) ==
    g \in Synced =>
    \/ Over(d) \/ StreamWait(g, d, t)
    \/ ToLaunch(t) /\ (Alive => SlotWait(g, d, t) \/ HandWait(g, d))

DepInv ==
    /\ \A t \in 1 .. Len(tasks) : \A d \in tasks[t].deps :
            /\ d \in 1 .. Len(tasks)
            /\ \A g \in Groups : g = tasks[t].group => Ahead(g, d, t)
    /\ \A g \in Groups : \A d \in deps[g] :
            d \in 1 .. Len(tasks) /\ Ahead(g, d, Len(tasks) + 1)

\* The last turn of a task that is not over is in its stream.
LastEntry(g, t) ==
    \E j \in 1 .. Len(stream[g]) :
        LET e == stream[g][j]
        IN e.type = "kernel" /\ e.task = t /\ e.val = tasks[t].repeat
LastInv ==
    \A t \in 1 .. Len(tasks) :
        tasks[t].launched => Over(t) \/ LastEntry(tasks[t].group, t)

\* The Wait calls of a row that have returned, and the one under way.
InWait(g, i) == pc = "wait" /\ call.group = g /\ call.handle + 1 = i
RowWait(g, i) ==
    LET hd == handles[g][i] IN
    hd.wait = IF InWait(g, i) THEN tasks[hd.task].observed + 1 ELSE tasks[hd.task].observed
WaitInv == \A g \in Groups : \A i \in 1 .. Len(handles[g]) : RowWait(g, i)

----------------------------------------------------------------------------
(* The steps, as far as the history of the tasks is concerned.              *)

\* A task keeps what it was issued with, and is never set back.
TasksGrow ==
    /\ Len(tasks) <= Len(tasks')
    /\ \A t \in 1 .. Len(tasks) :
        /\ t \in 1 .. Len(tasks')
        /\ tasks'[t].group = tasks[t].group /\ tasks'[t].repeat = tasks[t].repeat
        /\ tasks'[t].deps = tasks[t].deps
        /\ tasks[t].launched => tasks'[t].launched
        /\ tasks[t].executed <= tasks'[t].executed

LEMMA TaskSteps ==
    ASSUME [Next]_vars
    PROVE  \/ UNCHANGED tasks
           \/ /\ SendPrepare \/ CommitWrite \/ WaitReturn
              /\ UNCHANGED <<serverVars, stream>>
           \/ \E g \in Groups : PrepareProcess(g) /\ UNCHANGED clientVars
           \/ \E g \in Groups : RunKernel(g)
<1>1. CASE ClientNext
  <2>1. CASE CallApi
    BY <2>1 DEF CallApi, Prepare, PrepareRefused, InterHcclGroupSync, Commit, Wait, Finalize,
                NextLaunch
  <2>2. CASE SendExt \/ SendSync \/ SendFinalize \/ FinalizeQueried \/ FinalizeDone
    BY <2>2 DEF SendExt, SendSync, SendFinalize, FinalizeQueried, FinalizeDone
  <2> QED
    BY <1>1, <2>1, <2>2 DEF ClientNext, ContinueCall
<1>2. CASE ServerNext
  <2>1. CASE RestartServer
    BY <2>1 DEF RestartServer
  <2>2. ASSUME NEW g \in Groups, GroupServerProcess(g), ~PrepareProcess(g)
        PROVE  UNCHANGED tasks
    BY <2>2 DEF GroupServerProcess, PrepareRetry, InterGroupSyncProcess, InterGroupSyncRetry,
         FinalizeProcess, GroupFinish, Finished, InTime, TimedOut, RetryExceeded, NoOpHandle,
         OtherServerVars, RetryMsg
  <2> QED
    BY <1>2, <2>1, <2>2 DEF ServerNext
<1>3. ASSUME NEW g \in Groups, StreamNext(g) PROVE UNCHANGED tasks \/ RunKernel(g)
  BY <1>3 DEF StreamNext, WaitCommit, WaitFinish, PostFinish
<1>4. CASE UNCHANGED vars
  BY <1>4 DEF vars
<1> QED
  BY <1>1, <1>2, <1>3, <1>4 DEF Next, Terminated

LEMMA TaskGrows ==
    ASSUME TypeInv, NEW k \in 1 .. Len(tasks), NEW e \in Task, tasks' = [tasks EXCEPT ![k] = e],
           e.group = tasks[k].group, e.repeat = tasks[k].repeat, e.deps = tasks[k].deps,
           tasks[k].launched => e.launched, tasks[k].executed <= e.executed
    PROVE  TasksGrow
<1>1. /\ Len(tasks') = Len(tasks) /\ tasks'[k] = e
      /\ \A t \in 1 .. Len(tasks) : t # k => tasks'[t] = tasks[t]
  BY TaskChanged
<1>2. /\ Len(tasks) \in Nat
      /\ \A t \in 1 .. Len(tasks) : tasks[t].executed <= tasks[t].executed
  BY TaskFacts
<1> QED
  BY <1>1, <1>2 DEF TasksGrow

LEMMA GrowStep == ASSUME TypeInv, [Next]_vars PROVE TasksGrow
<1>a. /\ Len(tasks) \in Nat
      /\ \A t \in 1 .. Len(tasks) : tasks[t] \in Task /\ tasks[t].executed \in Nat
  BY TaskFacts
<1>b. \A t \in 1 .. Len(tasks) : tasks[t].executed <= tasks[t].executed
  BY <1>a
<1>1. CASE UNCHANGED tasks
  BY <1>1, <1>a, <1>b DEF TasksGrow
<1>2. CASE SendPrepare /\ UNCHANGED <<serverVars, stream>>
  <2>1. Len(tasks') = Len(tasks) + 1 /\ \A t \in 1 .. Len(tasks) : tasks'[t] = tasks[t]
    BY <1>2, SendPrepared DEF Prepared
  <2> QED
    BY <1>a, <1>b, <2>1 DEF TasksGrow
<1>3. CASE CommitWrite
  <2>d. SUFFICES ASSUME NEW hd, hd = handles[call.group][call.handle + 1],
                        NEW t, t = hd.task, NEW e, e = [tasks[t] EXCEPT !.committed = hd.commit]
                 PROVE  TasksGrow
    OBVIOUS
  <2>1. tasks' = [tasks EXCEPT ![t] = e] /\ t \in 1 .. Len(tasks) /\ hd \in Handle
    BY <1>3, <2>d, CallTask DEF CommitWrite
  <2>2. /\ e \in Task /\ e.group = tasks[t].group /\ e.repeat = tasks[t].repeat
        /\ e.deps = tasks[t].deps /\ e.launched = tasks[t].launched
        /\ e.executed = tasks[t].executed
    <3>1. tasks[t] \in Task /\ hd.commit \in Nat
      BY <1>a, <2>1 DEF Handle
    <3> QED
      BY <2>d, <3>1 DEF Task
  <2> QED
    BY <1>b, <2>1, <2>2, TaskGrows
<1>4. CASE WaitReturn
  <2>d. SUFFICES ASSUME NEW hd, hd = handles[call.group][call.handle + 1],
                        NEW t, t = hd.task, NEW e, e = [tasks[t] EXCEPT !.observed = hd.wait]
                 PROVE  TasksGrow
    OBVIOUS
  <2>1. tasks' = [tasks EXCEPT ![t] = e] /\ t \in 1 .. Len(tasks) /\ hd \in Handle
    BY <1>4, <2>d, CallTask DEF WaitReturn
  <2>2. /\ e \in Task /\ e.group = tasks[t].group /\ e.repeat = tasks[t].repeat
        /\ e.deps = tasks[t].deps /\ e.launched = tasks[t].launched
        /\ e.executed = tasks[t].executed
    <3>1. tasks[t] \in Task /\ hd.wait \in Nat
      BY <1>a, <2>1 DEF Handle
    <3> QED
      BY <2>d, <3>1 DEF Task
  <2> QED
    BY <1>b, <2>1, <2>2, TaskGrows
<1>5. ASSUME NEW g \in Groups, PrepareProcess(g) PROVE TasksGrow
  <2>d. SUFFICES ASSUME NEW t, t = CurrentMsg(g).task,
                        NEW e, e = [tasks[t] EXCEPT !.launched = TRUE]
                 PROVE  TasksGrow
    OBVIOUS
  <2>1. tasks' = [tasks EXCEPT ![t] = e] /\ t \in 1 .. Len(tasks)
    BY <1>5, <2>d, CurrentMsgType DEF PrepareProcess, Serve, TaskOf
  <2>2. /\ e \in Task /\ e.group = tasks[t].group /\ e.repeat = tasks[t].repeat
        /\ e.deps = tasks[t].deps /\ e.launched /\ e.executed = tasks[t].executed
    <3>1. tasks[t] \in Task
      BY <1>a, <2>1
    <3>2. e.launched = TRUE
      BY <2>d, <3>1 DEF Task
    <3> QED
      BY <2>d, <3>1, <3>2 DEF Task
  <2> QED
    BY <1>b, <2>1, <2>2, TaskGrows
<1>6. ASSUME NEW g \in Groups, RunKernel(g) PROVE TasksGrow
  <2>d. SUFFICES ASSUME NEW t, t = Head(stream[g]).task,
                        NEW e, e = [tasks[t] EXCEPT !.executed = @ + 1]
                 PROVE  TasksGrow
    OBVIOUS
  <2>1. tasks' = [tasks EXCEPT ![t] = e] /\ Dropped(g) /\ Head(stream[g]).type = "kernel"
    BY <1>6, <2>d DEF RunKernel, Execute, Dropped
  <2>2. t \in 1 .. Len(tasks)
    BY <2>d, <2>1, DroppedEntries DEF TypeInv, LinksOK
  <2>3. /\ e.group = tasks[t].group /\ e.repeat = tasks[t].repeat
        /\ e.deps = tasks[t].deps /\ e.launched = tasks[t].launched
        /\ e.executed = tasks[t].executed + 1 /\ tasks[t] \in Task /\ tasks[t].executed \in Nat
    BY <1>a, <2>d, <2>2 DEF Task
  <2>4. e \in Task /\ tasks[t].executed <= e.executed
    BY <2>d, <2>3 DEF Task
  <2> QED
    BY <2>1, <2>2, <2>3, <2>4, TaskGrows
<1> QED
  BY <1>1, <1>2, <1>3, <1>4, <1>5, <1>6, TaskSteps

LEMMA OverGoes ==
    ASSUME TypeInv, TypeInv', TurnsInv', TasksGrow, NEW t \in 1 .. Len(tasks),
           tasks'[t].executed >= tasks[t].repeat
    PROVE  Over(t)'
<1>1. t \in 1 .. Len(tasks') /\ tasks'[t].repeat = tasks[t].repeat
  BY DEF TasksGrow
<1>2. tasks'[t] \in Task
  <2>1. tasks' \in Seq(Task)
    BY DEF TypeInv, TypeOK
  <2> QED
    BY <1>1, <2>1, ElementOfSeq
<1>3. tasks'[t].executed \in Nat /\ tasks'[t].committed \in Nat /\ tasks[t].repeat \in Nat
  BY <1>2, TaskFacts DEF Task
<1>4. tasks'[t].executed <= tasks'[t].committed /\ tasks'[t].committed <= tasks'[t].repeat
  BY <1>1 DEF TurnsInv
<1> QED
  BY <1>1, <1>3, <1>4 DEF Over

LEMMA OverStays ==
    ASSUME TypeInv, TypeInv', TurnsInv', TasksGrow, NEW t \in 1 .. Len(tasks), Over(t)
    PROVE  Over(t)'
<1>1. tasks[t].executed <= tasks'[t].executed /\ tasks[t].executed = tasks[t].repeat
  BY DEF TasksGrow, Over
<1>2. tasks'[t].executed \in Nat /\ tasks[t].repeat \in Nat
  <2>1. tasks' \in Seq(Task) /\ t \in 1 .. Len(tasks')
    BY DEF TypeInv, TypeOK, TasksGrow
  <2>2. tasks'[t] \in Task
    BY <2>1, ElementOfSeq
  <2> QED
    BY <2>2, TaskFacts DEF Task
<1> QED
  BY <1>1, <1>2, OverGoes

\* A task the server launches is the one of the message it reads.
Processed(g, p, m, t, sqes) ==
    /\ p \in Pos /\ p = msgPos[g] /\ m \in Msg /\ m = CurrentMsg(g) /\ m.type = "prepare"
    /\ t \in 1 .. Len(tasks) /\ t = m.task /\ NotLaunched(g, p, m) /\ m.repeat > 0
    /\ sqes = TaskSqes(g, p, m) /\ sqes \in Seq(Sqe) /\ Added(g, sqes)
    /\ m.seq = expectSeqNum /\ expectSeqNum' = expectSeqNum + 1
    /\ Len(tasks') = Len(tasks) /\ tasks'[t].launched
    /\ tasks' = [tasks EXCEPT ![t].launched = TRUE]
    /\ \A w \in 1 .. Len(tasks) : w # t => tasks'[w] = tasks[w]
    /\ server = "run" /\ server' = "run" /\ UNCHANGED <<clientVars, serverLaunch>>

LEMMA PrepareProcessed ==
    ASSUME TypeInv, CommitInv, UNCHANGED clientVars, NEW g \in Groups, PrepareProcess(g)
    PROVE  \E p, m, t, sqes : Processed(g, p, m, t, sqes)
<1>d. SUFFICES ASSUME NEW m, m = CurrentMsg(g), NEW p, p = msgPos[g], NEW t, t = m.task,
                      NEW sqes, sqes = TaskSqes(g, p, m),
                      NEW e, e = [tasks[t] EXCEPT !.launched = TRUE]
               PROVE  Processed(g, p, m, t, sqes)
  OBVIOUS
<1>1. /\ Serve(g, "prepare") /\ Added(g, sqes) /\ m.seq = expectSeqNum
      /\ expectSeqNum' = expectSeqNum + 1
      /\ tasks' = [tasks EXCEPT ![t].launched = TRUE] /\ tasks' = [tasks EXCEPT ![t] = e]
      /\ UNCHANGED serverLaunch /\ server = "run" /\ server' = server
  BY <1>d DEF PrepareProcess, Serve, Visit, Enqueue, Added, InSequence
<1>2. /\ p \in Pos /\ m \in Msg /\ m.type = "prepare" /\ t \in 1 .. Len(tasks)
      /\ NotLaunched(g, p, m)
  BY <1>d, <1>1, PrepareServed DEF CommitInv
<1>3. m.repeat > 0
  BY <1>d, <1>2, TaskFacts DEF NotLaunched
<1>4. e \in Task /\ e.launched = TRUE
  <2>1. tasks[t] \in Task
    BY <1>2, TaskFacts
  <2> QED
    BY <1>d, <2>1 DEF Task
<1>5. /\ Len(tasks') = Len(tasks) /\ tasks'[t] = e
      /\ \A u \in 1 .. Len(tasks) : u # t => tasks'[u] = tasks[u]
  BY <1>1, <1>2, <1>4, TaskChanged
<1>6. sqes \in Seq(Sqe)
  BY <1>d, <1>2, <1>3, TaskSqesFacts
<1>7. tasks'[t].launched
  BY <1>4, <1>5
<1> QED
  BY <1>d, <1>1, <1>2, <1>3, <1>5, <1>6, <1>7 DEF Processed

----------------------------------------------------------------------------
(* The last turn of a launched task is in its stream until it has run.      *)

LEMMA TaskSqesEnd ==
    ASSUME NEW g \in Groups, NEW p \in Pos, NEW m \in Msg, m.repeat > 0,
           NEW sqes, sqes = TaskSqes(g, p, m)
    PROVE  \E i \in 1 .. Len(sqes) :
                sqes[i].type = "kernel" /\ sqes[i].task = m.task /\ sqes[i].val = m.repeat
<1> SUFFICES ASSUME NEW r \in Nat, r > 0, r = m.repeat, NEW i \in Nat, i = 3 * r - 1
             PROVE  \E k \in 1 .. Len(sqes) :
                sqes[k].type = "kernel" /\ sqes[k].task = m.task /\ sqes[k].val = r
  BY DEF Msg
<1>1. sqes \in Seq(Sqe)
  BY TaskSqesType
<1>2. DOMAIN sqes = 1 .. 3 * r
  BY DEF TaskSqes
<1>3. Len(sqes) = 3 * r
  BY <1>1, <1>2, LenProperties
<1>4. i \in 1 .. 3 * r /\ i % 3 = 2 /\ (i + 2) \div 3 = r
  OBVIOUS
<1>5. sqes[i].type = "kernel" /\ sqes[i].task = m.task /\ sqes[i].val = r
  <2>1. /\ sqes[i].task = m.task /\ sqes[i].val = (i + 2) \div 3
        /\ sqes[i].type = CASE i % 3 = 1 -> "waitCommit" [] i % 3 = 2 -> "kernel"
                            [] OTHER -> "post"
    BY <1>4 DEF TaskSqes
  <2> QED
    BY <1>4, <2>1
<1> QED
  BY <1>3, <1>4, <1>5

LEMMA LastCalm ==
    ASSUME TypeInv, TypeInv', EntryInv, ReadyInv, TurnsInv', TasksGrow, Calm, LastInv
    PROVE  LastInv'
<1> SUFFICES ASSUME NEW t \in 1 .. Len(tasks), tasks[t].launched
             PROVE  (Over(t) \/ LastEntry(tasks[t].group, t))'
  BY DEF LastInv, Calm
<1>1. CASE Over(t)
  BY <1>1, OverStays
<1>2. ASSUME NEW g \in Groups, g = tasks[t].group, LastEntry(g, t)
      PROVE  (Over(t) \/ LastEntry(tasks[t].group, t))'
  <2>1. /\ tasks'[t].group = g /\ tasks'[t].repeat = tasks[t].repeat
        /\ tasks[t].repeat \in Nat /\ tasks[t].executed \in Nat
    BY <1>2, TaskFacts DEF TasksGrow
  <2>2. PICK j \in 1 .. Len(stream[g]) :
          stream[g][j].type = "kernel" /\ stream[g][j].task = t
             /\ stream[g][j].val = tasks[t].repeat
    BY <1>2 DEF LastEntry
  <2>3. PICK d : CalmMove(g, d)
    BY CalmMoves
  <2>4. Len(stream[g]) \in Nat /\ Len(stream'[g]) \in Nat /\ Moved(g, d) /\ d \in {0, 1}
    BY <2>3, EntryFacts DEF CalmMove, Moved
  <2>5. CASE j > d
    <3>1. j - d \in 1 .. Len(stream'[g]) /\ (j - d) + d = j
      BY <2>4, <2>5 DEF Moved
    <3>2. stream'[g][j - d] = stream[g][j]
      BY <2>4, <3>1 DEF Moved
    <3> QED
      BY <2>1, <2>2, <3>1, <3>2 DEF LastEntry
  <2>6. CASE ~(j > d)
    <3>1. j = 1 /\ d = 1 /\ stream[g][1].type = "kernel" /\ stream[g][1].task = t
          /\ stream[g][1].val = tasks[t].repeat
      BY <2>2, <2>4, <2>6
    <3>2. tasks'[t].executed = tasks[t].executed + 1
      BY <2>3, <3>1 DEF CalmMove
    <3>3. tasks[t].executed >= tasks[t].repeat - 1
      BY <2>1, <2>2, <3>1 DEF ReadyInv, Ready, Need, IsTurn
    <3> QED
      BY <2>1, <3>2, <3>3, OverGoes
  <2> QED
    BY <2>5, <2>6
<1> QED
  BY <1>1, <1>2, TaskFacts DEF LastInv

LEMMA LastProcess ==
    ASSUME TypeInv, TypeInv', TurnsInv', TasksGrow, LastInv,
           NEW g \in Groups, NEW p, NEW m, NEW u, NEW sqes, Processed(g, p, m, u, sqes)
    PROVE  LastInv'
<1>1. /\ u \in 1 .. Len(tasks) /\ tasks[u].group = g /\ m.task = u /\ m.repeat = tasks[u].repeat
      /\ Len(tasks') = Len(tasks) /\ \A w \in 1 .. Len(tasks) : w # u => tasks'[w] = tasks[w]
  BY DEF Processed, NotLaunched, At
<1>2. sqes \in Seq(Sqe) /\ Added(g, sqes)
  BY DEF Processed
<1>3. PICK i \in 1 .. Len(sqes) :
        sqes[i].type = "kernel" /\ sqes[i].task = u /\ sqes[i].val = tasks[u].repeat
  BY <1>1, TaskSqesEnd DEF Processed
<1>4. /\ Len(sqes) \in Nat /\ Len(stream'[g]) = Len(stream[g]) + Len(sqes)
      /\ \A j \in 1 .. Len(stream'[g]) : j > Len(stream[g]) =>
           stream'[g][j] = sqes[j - Len(stream[g])]
      /\ Len(stream[g]) \in Nat
  BY <1>2, AddedEntries, EntryFacts
<1>5. \A g2 \in Groups : \A j \in 1 .. Len(stream[g2]) :
        j \in 1 .. Len(stream'[g2]) /\ stream'[g2][j] = stream[g2][j]
  BY <1>2, AddedEntries
<1> SUFFICES ASSUME NEW t \in 1 .. Len(tasks), tasks'[t].launched
             PROVE  (Over(t) \/ LastEntry(tasks[t].group, t))'
  BY <1>1 DEF LastInv
<1>6. CASE t = u
  <2>1. /\ Len(stream[g]) + i \in 1 .. Len(stream'[g])
        /\ (Len(stream[g]) + i) - Len(stream[g]) = i /\ Len(stream[g]) + i > Len(stream[g])
    BY <1>4
  <2>2. stream'[g][Len(stream[g]) + i] = sqes[i]
    BY <1>4, <2>1
  <2>3. tasks'[u].group = g /\ tasks'[u].repeat = tasks[u].repeat
    BY <1>1 DEF TasksGrow
  <2>4. LastEntry(g, u)'
    BY <1>3, <2>1, <2>2, <2>3 DEF LastEntry
  <2> QED
    BY <1>6, <2>3, <2>4
<1>7. CASE t # u
  <2>1. tasks'[t] = tasks[t]
    BY <1>1, <1>7
  <2>2. CASE Over(t)
    BY <2>2, OverStays
  <2>3. CASE LastEntry(tasks[t].group, t)
    <3> SUFFICES ASSUME NEW h, h = tasks[t].group, LastEntry(h, t) PROVE LastEntry(h, t)'
      BY <2>1, <2>3
    <3>1. h \in Groups
      BY TaskFacts
    <3>2. PICK j \in 1 .. Len(stream[h]) :
            LET e == stream[h][j]
            IN e.type = "kernel" /\ e.task = t /\ e.val = tasks[t].repeat
      BY DEF LastEntry
    <3>3. j \in 1 .. Len(stream'[h]) /\ stream'[h][j] = stream[h][j]
      BY <1>5, <3>1
    <3> QED
      BY <2>1, <3>2, <3>3 DEF LastEntry
  <2> QED
    BY <2>1, <2>2, <2>3 DEF LastInv
<1> QED
  BY <1>6, <1>7

LEMMA LastStep ==
    ASSUME TypeInv, TypeInv', PlaceInv, CommitInv, CommitInv', ReadyInv, LastInv, [Next]_vars
    PROVE  LastInv'
<1>a. EntryInv /\ TurnsInv' /\ TasksGrow
  BY GrowStep DEF CommitInv
<1>1. CASE Calm
  BY <1>a, <1>1, LastCalm
<1>2. CASE SendPrepare /\ UNCHANGED <<serverVars, stream>>
  <2>1. PICK g, p, m, u, hd : Prepared(g, p, m, u, hd)
    BY <1>2, SendPrepared
  <2>2. /\ u = Len(tasks) + 1 /\ Len(tasks') = u /\ ~tasks'[u].launched
        /\ \A t \in 1 .. Len(tasks) : tasks'[t] = tasks[t]
        /\ UNCHANGED stream /\ Len(tasks) \in Nat
    BY <2>1, TaskFacts DEF Prepared
  <2> SUFFICES ASSUME NEW t \in 1 .. Len(tasks), tasks[t].launched
               PROVE  (Over(t) \/ LastEntry(tasks[t].group, t))'
    BY <2>2 DEF LastInv
  <2>3. tasks'[t] = tasks[t] /\ UNCHANGED stream
    BY <2>2
  <2>4. Over(t) \/ LastEntry(tasks[t].group, t)
    BY DEF LastInv
  <2> QED
    BY <2>3, <2>4 DEF Over, LastEntry
<1>3. CASE NextLaunch /\ UNCHANGED <<serverVars, stream>>
  BY <1>3 DEF NextLaunch, LastInv, Over, LastEntry
<1>4. ASSUME NEW g \in Groups, PrepareProcess(g), UNCHANGED clientVars PROVE LastInv'
  <2>1. PICK p, m, t, sqes : Processed(g, p, m, t, sqes)
    BY <1>4, PrepareProcessed
  <2> QED
    BY <1>a, <2>1, LastProcess
<1> QED
  BY <1>1, <1>2, <1>3, <1>4, CalmSteps

LEMMA LastInvariant ==
    ASSUME Careful PROVE Spec => [](TypeInv /\ PlaceInv /\ CommitInv /\ FinishInv /\ LastInv)
<1>1. Init => LastInv
  BY DEF Init, Api!Init, LastInv
<1>2. TypeInv /\ TypeInv' /\ PlaceInv /\ CommitInv /\ CommitInv' /\ FinishInv /\ LastInv
        /\ [Next]_vars => LastInv'
  <2>1. FinishInv => ReadyInv
    BY DEF FinishInv
  <2> QED
    BY <2>1, LastStep
<1> QED
  BY <1>1, <1>2, FinishInvariant, PTL DEF Spec

\* When the groups are done, every task of every launch is over.
LEMMA AllOver ==
    ASSUME TypeInv, CommitInv, OldDone, LastInv, \A g \in Groups : AllDone(g)
    PROVE  \A t \in 1 .. Len(tasks) : tasks[t].launched /\ Over(t)
<1> SUFFICES ASSUME NEW t \in 1 .. Len(tasks) PROVE tasks[t].launched /\ Over(t)
  OBVIOUS
<1>1. tasks[t].launched
  BY DEF OldDone, InTable, AllDone
<1>2. ~LastEntry(tasks[t].group, t)
  BY TaskFacts DEF LastEntry, AllDone, IsTurn
<1> QED
  BY <1>1, <1>2 DEF LastInv

\* Run returns when its groups were finalized, without asking the streams
\* whether they are done (IsAllTaskFinished): that the work is over by then is
\* the client's doing, whose Finalize waited for it.  For the other way to
\* leave, giving up, see README.
THEOREM ServerOutlivesWorkCorrect ==
    ASSUME Waits PROVE Spec => [](server # "fail" => ServerOutlivesWork)
<1>1. Careful
  BY DEF Careful
<1>2. TypeInv /\ PlaceInv /\ CommitInv /\ FinishInv /\ LastInv =>
        (server # "fail" => ServerOutlivesWork)
  <2> SUFFICES ASSUME TypeInv, PlaceInv, CommitInv, FinishInv, LastInv, server # "fail",
                      server # "run", serverLaunch = launch, NEW t \in DOMAIN tasks
               PROVE  tasks[t].executed = tasks[t].repeat
    BY DEF ServerOutlivesWork
  <2>1. server = "exit"
    BY DEF TypeInv, TypeOK, ServerTypeOK
  <2>2. \A g \in Groups : Sent(g) = "closed"
    BY <2>1 DEF PlaceInv, RetryInv, FinishInv, MarkInv
  <2>3. \A g \in Groups : Ending(g)
    BY <2>2 DEF Sent, Finalizing, Ending, TypeInv, CallOK
  <2>4. \A g \in Groups : AllDone(g)
    BY <2>3 DEF FinishInv, DoneInv
  <2>5. t \in 1 .. Len(tasks)
    <3>1. tasks \in Seq(Task)
      BY DEF TypeInv, TypeOK
    <3> QED
      BY <3>1, LenProperties
  <2> QED
    BY <2>4, <2>5, AllOver DEF FinishInv, Over
<1> QED
  BY <1>1, <1>2, LastInvariant, PTL

----------------------------------------------------------------------------
(* The steps, as far as the client's tables are concerned.                  *)

RowsGrow ==
    \A g \in Groups :
        /\ Len(handles[g]) <= Len(handles'[g])
        /\ \A i \in 1 .. Len(handles[g]) :
            /\ i \in 1 .. Len(handles'[g])
            /\ handles'[g][i].pos = handles[g][i].pos
            /\ handles'[g][i].repeat = handles[g][i].repeat
            /\ handles'[g][i].task = handles[g][i].task

LEMMA RowSteps ==
    ASSUME [Next]_vars
    PROVE  \/ UNCHANGED <<handles, launch>>
           \/ /\ SendPrepare \/ NextLaunch \/ \E g \in Groups, h \in Handles : Commit(g, h) \/ Wait(g, h)
              /\ UNCHANGED <<serverVars, stream>>
<1>1. CASE ClientNext
  <2>1. CASE \E g \in Groups :
              \/ \E r \in Repeats, ext \in Exts, commit \in BOOLEAN : Prepare(g, r, ext, commit)
              \/ PrepareRefused(g)
              \/ \E g2 \in Groups, h \in Handles : InterHcclGroupSync(g, g2, h)
              \/ \E sync \in SyncModes : Finalize(g, sync)
    BY <2>1 DEF Prepare, PrepareRefused, InterHcclGroupSync, Finalize
  <2>2. CASE \/ SendExt \/ SendSync \/ SendFinalize \/ CommitWrite \/ WaitReturn
             \/ FinalizeQueried \/ FinalizeDone
    BY <2>2 DEF SendExt, SendSync, SendFinalize, PutMsg, CommitWrite, WaitReturn, FinalizeQueried,
                FinalizeDone
  <2> QED
    BY <1>1, <2>1, <2>2 DEF ClientNext, CallApi, ContinueCall
<1>2. CASE ServerNext \/ (\E g \in Groups : StreamNext(g)) \/ UNCHANGED vars
  BY <1>2 DEF ServerNext, StreamNext, WaitCommit, WaitFinish, RunKernel, PostFinish, Execute,
              vars, clientVars
<1> QED
  BY <1>1, <1>2 DEF Next, Terminated

LEMMA RowsStep ==
    ASSUME TypeInv, [Next]_vars
    PROVE  \/ RowsGrow /\ UNCHANGED launch
           \/ NextLaunch /\ UNCHANGED <<serverVars, stream>>
<1>1. CASE UNCHANGED <<handles, launch>>
  BY <1>1, RowFacts DEF RowsGrow
<1>2. CASE SendPrepare /\ UNCHANGED <<serverVars, stream>>
  <2>1. PICK g, p, m, u, hd : Prepared(g, p, m, u, hd)
    BY <1>2, SendPrepared
  <2>2. g \in Groups /\ hd \in Handle /\ handles' = [handles EXCEPT ![g] = Append(@, hd)]
    BY <2>1 DEF Prepared
  <2>3. /\ Len(handles'[g]) = Len(handles[g]) + 1
        /\ \A i \in 1 .. Len(handles[g]) : handles'[g][i] = handles[g][i]
        /\ \A g2 \in Groups \ {g} : handles'[g2] = handles[g2]
    BY <2>2, RowAdded
  <2>4. \A g2 \in Groups : Len(handles[g2]) \in Nat
    BY RowFacts
  <2> QED
    BY <2>1, <2>2, <2>3, <2>4 DEF RowsGrow, Prepared, Issued
<1>3. ASSUME NEW g \in Groups, NEW h \in Handles, Commit(g, h) \/ Wait(g, h)
      PROVE  RowsGrow /\ UNCHANGED launch
  <2>1. \A g2 \in Groups : Len(handles[g2]) \in Nat
    BY RowFacts
  <2>2. UNCHANGED launch
    BY <1>3 DEF Commit, Wait
  <2>3. RowsGrow
    BY <1>3, <2>1, RowMarked DEF RowsGrow
  <2> QED
    BY <2>2, <2>3
<1> QED
  BY <1>1, <1>2, <1>3, RowSteps

----------------------------------------------------------------------------
(* Wait returns once per turn.                                              *)

LEMMA ObservedKept ==
    ASSUME TypeInv, CommitInv, [Next]_vars, ~WaitReturn, NEW t \in 1 .. Len(tasks)
    PROVE  tasks'[t].observed = tasks[t].observed
<1>1. CASE SendPrepare /\ UNCHANGED <<serverVars, stream>>
  BY <1>1, SendPrepared DEF Prepared
<1>2. CASE CommitWrite
  <2>d. SUFFICES ASSUME NEW hd, hd = handles[call.group][call.handle + 1],
                        NEW u, u = hd.task, NEW e, e = [tasks[u] EXCEPT !.committed = hd.commit]
                 PROVE  tasks'[t].observed = tasks[t].observed
    OBVIOUS
  <2>1. tasks' = [tasks EXCEPT ![u] = e] /\ u \in 1 .. Len(tasks) /\ hd \in Handle
    BY <1>2, <2>d, CallTask DEF CommitWrite
  <2>2. e \in Task /\ e.observed = tasks[u].observed
    <3>1. tasks[u] \in Task /\ hd.commit \in Nat
      BY <2>1, TaskFacts DEF Handle
    <3> QED
      BY <2>d, <3>1 DEF Task
  <2> QED
    BY <2>1, <2>2, TaskChanged
<1>3. ASSUME NEW g \in Groups, PrepareProcess(g), UNCHANGED clientVars
      PROVE  tasks'[t].observed = tasks[t].observed
  <2>1. PICK p, m, u, sqes : Processed(g, p, m, u, sqes)
    BY <1>3, PrepareProcessed
  <2>2. /\ tasks' = [tasks EXCEPT ![u].launched = TRUE] /\ u \in 1 .. Len(tasks)
        /\ \A w \in 1 .. Len(tasks) : w # u => tasks'[w] = tasks[w]
    BY <2>1 DEF Processed
  <2>d. SUFFICES ASSUME NEW e, e = [tasks[u] EXCEPT !.launched = TRUE]
                 PROVE  tasks'[t].observed = tasks[t].observed
    OBVIOUS
  <2>3. e \in Task /\ e.observed = tasks[u].observed /\ tasks' = [tasks EXCEPT ![u] = e]
    <3>1. tasks[u] \in Task
      BY <2>2, TaskFacts
    <3> QED
      BY <2>d, <2>2, <3>1 DEF Task
  <2> QED
    BY <2>2, <2>3, TaskChanged
<1>4. ASSUME NEW g \in Groups, RunKernel(g) PROVE tasks'[t].observed = tasks[t].observed
  <2>d. SUFFICES ASSUME NEW u, u = Head(stream[g]).task,
                        NEW e, e = [tasks[u] EXCEPT !.executed = @ + 1]
                 PROVE  tasks'[t].observed = tasks[t].observed
    OBVIOUS
  <2>1. tasks' = [tasks EXCEPT ![u] = e] /\ Dropped(g) /\ Head(stream[g]).type = "kernel"
    BY <1>4, <2>d DEF RunKernel, Execute, Dropped
  <2>2. u \in 1 .. Len(tasks)
    BY <2>d, <2>1, DroppedEntries DEF TypeInv, LinksOK
  <2>3. e.observed = tasks[u].observed /\ e.executed = tasks[u].executed + 1
        /\ tasks[u] \in Task /\ tasks[u].executed \in Nat
    BY <2>d, <2>2, TaskFacts DEF Task
  <2>4. e \in Task
    <3>1. tasks[u].executed + 1 \in Nat
      BY <2>3
    <3> QED
      BY <2>d, <2>3, <3>1 DEF Task
  <2> QED
    BY <2>1, <2>2, <2>3, <2>4, TaskChanged
<1> QED
  BY <1>1, <1>2, <1>3, <1>4, TaskSteps

LEMMA WaitKept ==
    ASSUME TypeInv, CommitInv, WaitInv, [Next]_vars, ~WaitReturn,
           \A g \in Groups :
                /\ Len(handles'[g]) = Len(handles[g])
                /\ \A i \in 1 .. Len(handles[g]) :
                    /\ handles'[g][i].task = handles[g][i].task
                    /\ handles'[g][i].wait = handles[g][i].wait
                    /\ InWait(g, i)' <=> InWait(g, i)
    PROVE  WaitInv'
<1>1. \A t \in 1 .. Len(tasks) : tasks'[t].observed = tasks[t].observed
  BY ObservedKept
<1> SUFFICES ASSUME NEW g \in Groups, NEW i \in 1 .. Len(handles[g]) PROVE RowWait(g, i)'
  BY DEF WaitInv
<1>2. /\ tasks'[handles[g][i].task].observed = tasks[handles[g][i].task].observed
      /\ handles'[g][i].task = handles[g][i].task /\ handles'[g][i].wait = handles[g][i].wait
      /\ (InWait(g, i)' <=> InWait(g, i))
  BY <1>1, RowFacts
<1>3. RowWait(g, i)
  BY DEF WaitInv
<1> QED
  BY <1>2, <1>3 DEF RowWait

LEMMA WaitStep ==
    ASSUME TypeInv, CommitInv, WaitInv, [Next]_vars PROVE WaitInv'
<1>1. CASE UNCHANGED clientVars /\ ~WaitReturn
  BY <1>1, WaitKept DEF clientVars, InWait
<1>2. CASE /\ UNCHANGED handles /\ pc # "wait" /\ pc' # "wait"
  BY <1>2, WaitKept DEF InWait, WaitReturn
<1>3. ASSUME NEW g \in Groups, NEW h \in Handles, Commit(g, h) PROVE WaitInv'
  <2>1. pc = "ready" /\ pc' = "commit" /\ ~Wait(g, h)
    BY <1>3 DEF Commit, Wait
  <2> QED
    BY <1>3, <2>1, WaitKept, RowMarked DEF InWait, WaitReturn
<1>4. ASSUME NEW g \in Groups, NEW h \in Handles, Wait(g, h) PROVE WaitInv'
  <2>d. SUFFICES ASSUME NEW k, k = h + 1 PROVE WaitInv'
    OBVIOUS
  <2>1. pc = "ready" /\ pc' = "wait" /\ call'.group = g /\ call'.handle = h /\ UNCHANGED tasks
    BY <1>4 DEF Wait, ApiCall
  <2>2. /\ k \in 1 .. Len(handles[g])
        /\ \A g2 \in Groups :
             /\ Len(handles'[g2]) = Len(handles[g2])
             /\ \A i \in 1 .. Len(handles[g2]) :
                 /\ handles'[g2][i].task = handles[g2][i].task
                 /\ handles'[g2][i].wait = IF g2 = g /\ i = k THEN handles[g2][i].wait + 1
                                                              ELSE handles[g2][i].wait
    BY <1>4, <2>d, RowMarked
  <2>3. \A g2 \in Groups, i \in Nat : ~InWait(g2, i) /\ (InWait(g2, i)' <=> g2 = g /\ i = k)
    BY <2>1, <2>d DEF InWait
  <2> QED
    BY <2>1, <2>2, <2>3 DEF WaitInv, RowWait
<1>5. CASE SendPrepare /\ UNCHANGED <<serverVars, stream>>
  <2>1. pc = "send" /\ pc' # "wait"
    BY <1>5 DEF SendPrepare, PutMsg, Return
  <2>2. PICK g, p, m, u, hd : Prepared(g, p, m, u, hd)
    BY <1>5, SendPrepared
  <2>3. /\ g \in Groups /\ hd \in Handle /\ handles' = [handles EXCEPT ![g] = Append(@, hd)]
        /\ u = Len(tasks) + 1 /\ hd.task = u
        /\ \A t \in 1 .. Len(tasks) : tasks'[t] = tasks[t]
    BY <2>2 DEF Prepared
  <2>4. hd.wait = 0 /\ tasks'[u].observed = 0
    BY <2>2 DEF Prepared, Issued
  <2>5. /\ Len(handles'[g]) = Len(handles[g]) + 1 /\ handles'[g][Len(handles[g]) + 1] = hd
        /\ \A i \in 1 .. Len(handles[g]) : handles'[g][i] = handles[g][i]
        /\ \A g2 \in Groups \ {g} : handles'[g2] = handles[g2]
        /\ Len(handles[g]) \in Nat
    BY <2>3, RowAdded, RowFacts
  <2>6. \A g2 \in Groups, i \in Nat : ~InWait(g2, i) /\ ~InWait(g2, i)'
    BY <2>1 DEF InWait
  <2> SUFFICES ASSUME NEW g2 \in Groups, NEW i \in 1 .. Len(handles'[g2]) PROVE RowWait(g2, i)'
    BY DEF WaitInv
  <2>7. CASE g2 = g /\ i = Len(handles[g]) + 1
    BY <2>3, <2>4, <2>5, <2>6, <2>7 DEF RowWait
  <2>8. CASE ~(g2 = g /\ i = Len(handles[g]) + 1)
    <3>1. i \in 1 .. Len(handles[g2]) /\ handles'[g2][i] = handles[g2][i]
      BY <2>5, <2>8
    <3>2. tasks'[handles[g2][i].task] = tasks[handles[g2][i].task]
      BY <2>3, <3>1, RowFacts
    <3> QED
      BY <2>6, <3>1, <3>2 DEF WaitInv, RowWait
  <2> QED
    BY <2>7, <2>8
<1>6. CASE WaitReturn
  <2>d. SUFFICES ASSUME NEW g, g = call.group, NEW i, i = call.handle + 1,
                        NEW hd, hd = handles[g][i], NEW t, t = hd.task,
                        NEW e, e = [tasks[t] EXCEPT !.observed = hd.wait]
                 PROVE  WaitInv'
    OBVIOUS
  <2>1. /\ pc = "wait" /\ pc' = "ready" /\ tasks' = [tasks EXCEPT ![t] = e] /\ UNCHANGED handles
        /\ g \in Groups /\ hd \in Handle /\ t \in 1 .. Len(tasks) /\ tasks[t] \in Task
        /\ i \in 1 .. Len(handles[g])
    BY <1>6, <2>d, CallTask DEF WaitReturn, Return
  <2>2. e \in Task /\ e.observed = hd.wait
    <3>1. hd.wait \in Nat
      BY <2>1 DEF Handle
    <3> QED
      BY <2>d, <2>1, <3>1 DEF Task
  <2>3. /\ tasks'[t] = e /\ \A u \in 1 .. Len(tasks) : u # t => tasks'[u] = tasks[u]
    BY <2>1, <2>2, TaskChanged
  <2> SUFFICES ASSUME NEW g2 \in Groups, NEW k \in 1 .. Len(handles[g2]) PROVE RowWait(g2, k)'
    BY <2>1 DEF WaitInv
  <2>4. CASE g2 = g /\ k = i
    BY <2>d, <2>1, <2>2, <2>3, <2>4 DEF RowWait, InWait
  <2>5. CASE ~(g2 = g /\ k = i)
    <3>1. handles[g2][k].task # t
      <4>1. tasks[t].group = g
        BY <2>d, <2>1 DEF CommitInv, TableInv
      <4>2. tasks[handles[g2][k].task].group = g2
        BY DEF CommitInv, TableInv
      <4>3. g2 = g => handles[g2][k].task # t
        <5>1. g2 = g => k # i /\ i \in 1 .. Len(handles[g2]) /\ t = handles[g2][i].task
          BY <2>d, <2>1, <2>5
        <5>2. \A j1, j2 \in 1 .. Len(handles[g2]) :
                j1 # j2 => handles[g2][j1].task # handles[g2][j2].task
          BY DEF CommitInv, TableInv
        <5> QED
          BY <5>1, <5>2
      <4> QED
        BY <4>1, <4>2, <4>3
    <3>2. ~InWait(g2, k) /\ ~InWait(g2, k)'
      BY <2>d, <2>1, <2>5 DEF InWait
    <3>3. handles[g2][k].task \in 1 .. Len(tasks)
      BY RowFacts
    <3> QED
      BY <2>1, <2>3, <3>1, <3>2, <3>3 DEF WaitInv, RowWait
  <2> QED
    BY <2>4, <2>5
<1>7. CASE NextLaunch
  BY <1>7 DEF NextLaunch, PerGroup, WaitInv
<1>8. CASE ClientNext
  <2>1. CASE \E g \in Groups :
              \/ \E r \in Repeats, ext \in Exts, commit \in BOOLEAN : Prepare(g, r, ext, commit)
              \/ PrepareRefused(g)
              \/ \E g2 \in Groups, h \in Handles : InterHcclGroupSync(g, g2, h)
              \/ \E sync \in SyncModes : Finalize(g, sync)
    BY <1>2, <2>1 DEF Prepare, PrepareRefused, InterHcclGroupSync, Finalize, FirstStep
  <2>2. CASE \/ SendExt \/ SendSync \/ SendFinalize \/ CommitWrite
             \/ FinalizeQueried \/ FinalizeDone
    BY <1>2, <2>2 DEF SendExt, SendSync, SendFinalize, CommitWrite, FinalizeQueried,
                FinalizeDone, GoOn, Return, PutMsg
  <2>3. UNCHANGED <<serverVars, stream>>
    BY <1>8 DEF ClientNext
  <2> QED
    BY <1>3, <1>4, <1>5, <1>6, <1>7, <1>8, <2>1, <2>2, <2>3 DEF ClientNext, CallApi, ContinueCall
<1>9. CASE ServerNext \/ (\E g \in Groups : StreamNext(g)) \/ UNCHANGED vars
  <2>1. UNCHANGED clientVars
    BY <1>9 DEF ServerNext, StreamNext, WaitCommit, WaitFinish, RunKernel, PostFinish, Execute,
              vars
  <2> QED
    BY <1>1, <1>6, <2>1
<1> QED
  BY <1>8, <1>9 DEF Next, Terminated

----------------------------------------------------------------------------
(* The steps, as far as the messages are concerned.                         *)

\* A prepare message is where it was, or is kept for a retry.
MessagesCome ==
    \A g \in Groups :
        /\ \A p \in Pos : InSlot(g, p)' => InSlot(g, p) /\ sendMsgs'[g][p] = sendMsgs[g][p]
        /\ \/ ~InHand(g)'
           \/ InHand(g) /\ rcvMsg'[g] = rcvMsg[g]
           \/ /\ server = "run" /\ InSlot(g, msgPos[g])
              /\ rcvMsg'[g] = sendMsgs[g][msgPos[g]]

LEMMA ServedCome ==
    ASSUME TypeInv, CommitInv, NEW g \in Groups, PrepareProcess(g) \/ PrepareRetry(g)
    PROVE  MessagesCome
<1>d. SUFFICES ASSUME NEW m, m = CurrentMsg(g), NEW p, p = msgPos[g] PROVE MessagesCome
  OBVIOUS
<1>1. /\ Serve(g, "prepare") /\ server = "run"
      /\ \/ PrepareProcess(g) /\ NextMsg(g)
         \/ /\ PrepareRetry(g) /\ rcvMsg' = [rcvMsg EXCEPT ![g] = m]
            /\ retryCnt' = [retryCnt EXCEPT ![g] = @ + 1]
  BY <1>d DEF PrepareProcess, PrepareRetry, RetryMsg, Serve, Visit
<1>2. /\ p \in Pos
      /\ \A g2 \in Groups, q \in Pos : InSlot(g2, q)' =>
           InSlot(g2, q) /\ sendMsgs'[g2][q] = sendMsgs[g2][q]
      /\ \/ InHand(g) /\ m = rcvMsg[g]
         \/ InSlot(g, p) /\ m = sendMsgs[g][p]
  BY <1>d, <1>1, PrepareServed DEF CommitInv
<1>3. rcvMsg \in [Groups -> Msg] /\ retryCnt \in [Groups -> 0 .. MaxRetry + 1]
  BY DEF TypeInv, TypeOK, ServerTypeOK
<1>4. ASSUME NEW g2 \in Groups, g2 # g, InHand(g2)' PROVE InHand(g2) /\ rcvMsg'[g2] = rcvMsg[g2]
  BY <1>1, <1>3, <1>4 DEF NextMsg, InHand
<1>5. ASSUME InHand(g)'
      PROVE  \/ InHand(g) /\ rcvMsg'[g] = rcvMsg[g]
             \/ InSlot(g, p) /\ rcvMsg'[g] = sendMsgs[g][p]
  <2>1. CASE NextMsg(g)
    BY <1>3, <1>5, <2>1 DEF NextMsg, InHand
  <2>2. CASE rcvMsg' = [rcvMsg EXCEPT ![g] = m]
    BY <1>2, <1>3, <2>2
  <2> QED
    BY <1>1, <2>1, <2>2
<1> QED
  BY <1>d, <1>1, <1>2, <1>4, <1>5 DEF MessagesCome

LEMMA MessagesStep ==
    ASSUME TypeInv, PlaceInv, CommitInv, [Next]_vars
    PROVE  MessagesCome \/ (SendPrepare /\ UNCHANGED <<serverVars, stream>>)
<1>a. CommittedInv /\ RetryInv
  BY DEF CommitInv, PlaceInv
<1>b. MessagesKept => MessagesCome
  BY DEF MessagesKept, MessagesCome
<1>1. CASE UNCHANGED <<sendMsgs, serverVars>>
  BY <1>1, <1>b, QuietSlots
<1>2. CASE ClientNext
  <2>1. UNCHANGED <<serverVars, stream>>
    BY <1>2 DEF ClientNext
  <2>2. CASE QuietClient
    BY <1>a, <1>b, <2>1, <2>2, ClientQuiet DEF Quiet
  <2>3. CASE (\E g \in Groups, h \in Handles : Commit(g, h)) \/ CommitWrite \/ NextLaunch
    BY <1>1, <2>1, <2>3 DEF Commit, CommitWrite, NextLaunch, areaVars
  <2> QED
    BY <1>2, <2>1, <2>2, <2>3 DEF ClientNext, CallApi, ContinueCall, QuietClient
<1>3. CASE ServerNext
  <2>1. UNCHANGED clientVars
    BY <1>3 DEF ServerNext
  <2>2. CASE RestartServer \/ \E g \in Groups : QuietVisit(g)
    BY <1>a, <1>b, <2>1, <2>2, ServerQuiet DEF Quiet
  <2> QED
    BY <1>3, <2>2, ServedCome DEF ServerNext, GroupServerProcess, QuietVisit
<1>4. CASE (\E g \in Groups : StreamNext(g)) \/ UNCHANGED vars
  BY <1>1, <1>4 DEF StreamNext, WaitCommit, WaitFinish, RunKernel, PostFinish, Execute, vars,
       areaVars
<1> QED
  BY <1>2, <1>3, <1>4 DEF Next, Terminated

\* A message that waits is one of the client's launch, and behind its position.
LEMMA SlotBehind ==
    ASSUME TypeInv, PlaceInv, LaunchInv, Alive, NEW g \in Groups, NEW q \in Pos,
           sendMsgs[g][q] # NoMsg
    PROVE  q < End(g)
<1>1. Placed(g)
  BY DEF PlaceInv, Alive
<1>2. /\ launch \in Nat /\ serverLaunch \in Nat /\ End(g) \in 0 .. MsgCnt
      /\ q \in Nat /\ 0 <= q
  BY PlaceTypes, ConstantFacts
<1>3. launch = serverLaunch + 1 => finalizeFlag[g]
  BY DEF PlaceInv, RetryInv, LaunchInv
<1>4. CASE launch + 1 = serverLaunch
  BY <1>1, <1>2, <1>4 DEF Placed, Layout
<1>5. CASE launch = serverLaunch
  BY <1>1, <1>2, <1>5 DEF Placed, Layout
<1>6. CASE launch = serverLaunch + 1
  BY <1>1, <1>2, <1>3, <1>6 DEF Placed, Layout
<1> QED
  BY <1>1, <1>2, <1>4, <1>5, <1>6 DEF Placed, LaunchInv

\* The launch of the server is the client's, or the one before or after it.
LEMMA LaunchCases ==
    ASSUME TypeInv, PlaceInv, LaunchInv
    PROVE  /\ launch \in Nat /\ serverLaunch \in Nat
           /\ launch + 1 = serverLaunch \/ launch = serverLaunch \/ launch = serverLaunch + 1
           /\ launch = serverLaunch + 1 => server = "exit"
<1>1. launch \in Nat /\ serverLaunch \in Nat
  BY ConstantFacts, PlaceTypes
<1>2. Placed(0) \/ Abandoned(0)
  BY ConstantFacts DEF PlaceInv
<1> QED
  BY <1>1, <1>2 DEF Placed, Abandoned, LaunchInv

----------------------------------------------------------------------------
(* The numbers of the messages.                                             *)

LEMMA OpenStep ==
    ASSUME FinalizeLast, TypeInv, OpenInv, [Next]_vars PROVE OpenInv'
<1>1. CASE Preparing /\ UNCHANGED finalized
  BY <1>1 DEF OpenInv
<1>2. CASE ~Preparing'
  BY <1>2 DEF OpenInv
<1>3. CASE ClientNext
  <2>1. ASSUME NEW g \in Groups, NEW r, NEW ext, NEW commit, Prepare(g, r, ext, commit)
        PROVE  OpenInv'
    BY <2>1 DEF Prepare, MaySend, OpenInv
  <2>2. CASE SendExt
    BY <1>1, <2>2 DEF SendExt, Preparing, TypeInv, CallOK
  <2>3. CASE \/ SendPrepare \/ SendSync \/ SendFinalize
             \/ CommitWrite \/ WaitReturn \/ FinalizeDone \/ FinalizeQueried
    BY <1>2, <2>3 DEF SendPrepare, SendSync, SendFinalize, CommitWrite,
       WaitReturn, FinalizeDone, FinalizeQueried, Return, GoOn, NoCall, ApiCall, NoMsg, Preparing,
       TypeInv, CallOK
  <2>4. ASSUME NEW g \in Groups, NEW h \in Handles, Commit(g, h) \/ Wait(g, h) PROVE OpenInv'
    BY <1>2, <2>4 DEF Commit, Wait, Preparing
  <2>5. CASE NextLaunch
    BY <1>2, <2>5 DEF NextLaunch, Preparing
  <2>6. ASSUME NEW g \in Groups, PrepareRefused(g) PROVE OpenInv'
    BY <1>2, <2>6 DEF PrepareRefused, Preparing
  <2>7. ASSUME NEW g \in Groups, NEW g2 \in Groups, NEW h \in Handles, InterHcclGroupSync(g, g2, h)
        PROVE  OpenInv'
    <3>1. call'.msg.type = "sync"
      BY <2>7 DEF InterHcclGroupSync, ApiCall, NoMsg
    <3> QED
      BY <1>2, <3>1 DEF Preparing
  <2>8. ASSUME NEW g \in Groups, NEW sync \in SyncModes, Finalize(g, sync) PROVE OpenInv'
    <3>1. call'.msg.type = "finalize"
      BY <2>8 DEF Finalize, ApiCall, NoMsg
    <3> QED
      BY <1>2, <3>1 DEF Preparing
  <2> QED
    BY <1>3, <2>1, <2>2, <2>3, <2>4, <2>5, <2>6, <2>7, <2>8 DEF ClientNext, CallApi, ContinueCall
<1>4. CASE UNCHANGED clientVars
  BY <1>4 DEF OpenInv, Preparing, clientVars
<1> QED
  BY <1>3, <1>4 DEF Next, Terminated, ServerNext, StreamNext, WaitCommit, WaitFinish, RunKernel,
     PostFinish, Execute, vars

LEMMA RoomStep ==
    ASSUME TypeInv, RoomInv, [Next]_vars PROVE RoomInv'
<1>1. CASE UNCHANGED handles
  BY <1>1 DEF RoomInv
<1>2. CASE SendPrepare /\ UNCHANGED <<serverVars, stream>>
  <2>1. PICK g, p, m, u, hd : Prepared(g, p, m, u, hd)
    BY <1>2, SendPrepared
  <2>2. /\ g \in Groups /\ hd \in Handle /\ handles' = [handles EXCEPT ![g] = Append(@, hd)]
        /\ m \in Msg /\ m.handle = Len(handles[g])
    BY <2>1 DEF Prepared, Issued
  <2>3. Len(handles'[g]) <= MaxHandle
    <3>1. m.handle \in 0 .. MaxHandle - 1 /\ Len(handles'[g]) = Len(handles[g]) + 1
      BY <2>2, RowAdded DEF Msg, Handles
    <3> QED
      BY <2>2, <3>1, MaxHandleAssumption
  <2> QED
    BY <2>2, <2>3, RowAdded DEF RoomInv
<1>3. CASE NextLaunch
  BY <1>3, MaxHandleAssumption DEF NextLaunch, PerGroup, RoomInv
<1>4. ASSUME NEW g \in Groups, NEW h \in Handles, Commit(g, h) \/ Wait(g, h) PROVE RoomInv'
  BY <1>4, RowMarked DEF RoomInv
<1> QED
  BY <1>1, <1>2, <1>3, <1>4, RowSteps

LEMMA AliveBefore == ASSUME [Next]_vars, Alive' PROVE Alive
BY DEF Alive, Next, Terminated, vars, ClientNext, serverVars, ServerNext, RestartServer,
   GroupServerProcess, PrepareProcess, PrepareRetry, InterGroupSyncProcess, InterGroupSyncRetry,
   FinalizeProcess, GroupFinish, Finished, InTime, TimedOut, RetryExceeded, NoOpHandle, Serve,
   Visit, StreamNext, WaitCommit, WaitFinish, RunKernel, PostFinish, Execute

LEMMA MessageNumbersKept ==
    ASSUME TypeInv, MessagesCome, NEW b, MessageNumbers(b) PROVE MessageNumbers(b)'
<1>1. \A g \in Groups : msgPos[g] \in Pos
  BY SlotFacts
<1> SUFFICES ASSUME NEW g \in Groups
             PROVE  /\ \A p \in Pos : InSlot(g, p)' =>
                          sendMsgs'[g][p].seq = sendMsgs'[g][p].task - 1 - b
                    /\ InHand(g)' => rcvMsg'[g].seq = rcvMsg'[g].task - 1 - b
  BY DEF MessageNumbers
<1>2. ASSUME NEW p \in Pos, InSlot(g, p)'
      PROVE  sendMsgs'[g][p].seq = sendMsgs'[g][p].task - 1 - b
  BY <1>2 DEF MessageNumbers, MessagesCome
<1>3. ASSUME InHand(g)' PROVE rcvMsg'[g].seq = rcvMsg'[g].task - 1 - b
  BY <1>1, <1>3 DEF MessageNumbers, MessagesCome
<1> QED
  BY <1>2, <1>3

LEMMA NumberCalm ==
    ASSUME TypeInv, Calm, MessagesCome, NEW b \in 0 .. Len(tasks), Numbering(b),
           NextNumber(b)', Progress(b)'
    PROVE  Numbering(b)'
<1>1. TableNumbers(b)'
  <2>1. ASSUME NEW t PROVE InTable(t)' <=> InTable(t)
    <3>1. \A g \in Groups :
            /\ Len(handles'[g]) = Len(handles[g])
            /\ \A i \in 1 .. Len(handles[g]) : handles'[g][i].task = handles[g][i].task
      BY DEF Calm
    <3>2. ASSUME NEW g \in Groups, NEW i \in 1 .. Len(handles[g]), handles[g][i].task = t
          PROVE  InTable(t)'
      BY <3>1, <3>2 DEF InTable
    <3>3. ASSUME NEW g \in Groups, NEW i \in 1 .. Len(handles'[g]), handles'[g][i].task = t
          PROVE  InTable(t)
      BY <3>1, <3>3 DEF InTable
    <3> QED
      BY <3>2, <3>3 DEF InTable
  <2> QED
    BY <2>1 DEF Numbering, TableNumbers, Calm
<1>2. MessageNumbers(b)'
  BY MessageNumbersKept DEF Numbering
<1> QED
  BY <1>1, <1>2 DEF Numbering

\* The steps that number nothing.
PlainNumbers == UNCHANGED <<primitiveId, expectSeqNum, launch, serverLaunch>>
                /\ (Restarted' <=> Restarted)

LEMMA NumberPlain ==
    ASSUME TypeInv, Calm, MessagesCome, PlainNumbers, NEW b \in 0 .. Len(tasks), Numbering(b)
    PROVE  Numbering(b)'
<1>1. NextNumber(b)'
  BY DEF Numbering, NextNumber, Calm, PlainNumbers
<1>2. \A n : LaunchedTo(n) => LaunchedTo(n)'
  BY DEF LaunchedTo, Calm
<1>3. Progress(b)'
  BY <1>2 DEF Numbering, Progress, Calm, PlainNumbers
<1> QED
  BY <1>1, <1>3, NumberCalm

LEMMA NumberSteps ==
    ASSUME TypeInv, [Next]_vars
    PROVE  \/ PlainNumbers
           \/ /\ SendPrepare \/ SendFinalize \/ NextLaunch
              /\ UNCHANGED <<serverVars, stream>>
           \/ /\ RestartServer \/ \E g \in Groups : PrepareProcess(g)
              /\ UNCHANGED clientVars
<1>1. CASE ClientNext
  <2>1. UNCHANGED <<serverVars, stream>>
    BY <1>1 DEF ClientNext
  <2>2. CASE CallApi
    <3>1. CASE NextLaunch
      BY <2>1, <3>1
    <3>2. CASE ~NextLaunch
      <4>1. pc = "ready" /\ pc' # "finDone" /\ UNCHANGED <<primitiveId, launch, finalized>>
        BY <2>2, <3>2 DEF CallApi, Prepare, PrepareRefused, InterHcclGroupSync, Commit, Wait,
           Finalize, FirstStep
      <4> QED
        BY <2>1, <4>1 DEF PlainNumbers, Restarted, serverVars
    <3> QED
      BY <3>1, <3>2
  <2>3. CASE SendExt \/ SendSync \/ CommitWrite \/ WaitReturn \/ FinalizeQueried
    <3>1. pc # "finDone" /\ pc' # "finDone" /\ UNCHANGED <<primitiveId, launch, finalized>>
      BY <2>3 DEF SendExt, SendSync, PutMsg, CommitWrite, WaitReturn, FinalizeQueried, Return, GoOn
    <3> QED
      BY <2>1, <3>1 DEF PlainNumbers, Restarted, serverVars
  <2>4. CASE FinalizeDone
    <3>1. call.group \in Groups /\ finalized \in [Groups -> BOOLEAN]
      BY DEF TypeInv, TypeOK, ClientTypeOK, Call
    <3>2. pc = "finDone" /\ finalized'[call.group] /\ UNCHANGED <<primitiveId, launch>>
      BY <2>4, <3>1 DEF FinalizeDone
    <3> QED
      BY <2>1, <3>1, <3>2 DEF PlainNumbers, Restarted, serverVars
  <2> QED
    BY <1>1, <2>1, <2>2, <2>3, <2>4 DEF ClientNext, ContinueCall
<1>2. CASE UNCHANGED <<clientVars, expectSeqNum, serverLaunch>>
  BY <1>2 DEF PlainNumbers, Restarted, clientVars
<1>3. CASE ServerNext
  <2>1. ASSUME NEW g \in Groups, GroupServerProcess(g), ~PrepareProcess(g)
        PROVE  UNCHANGED <<expectSeqNum, serverLaunch>>
    BY <2>1 DEF GroupServerProcess, PrepareRetry, InterGroupSyncProcess, InterGroupSyncRetry,
       FinalizeProcess, GroupFinish, Finished, InTime, TimedOut, RetryExceeded, NoOpHandle, Serve,
       Visit, RetryMsg, OtherServerVars
  <2> QED
    BY <1>2, <1>3, <2>1 DEF ServerNext
<1>4. CASE (\E g \in Groups : StreamNext(g)) \/ UNCHANGED vars
  BY <1>2, <1>4 DEF StreamNext, WaitCommit, WaitFinish, RunKernel, PostFinish, Execute, vars,
     serverVars
<1> QED
  BY <1>1, <1>3, <1>4 DEF Next, Terminated

LEMMA NumberFinalize ==
    ASSUME TypeInv, Calm, MessagesCome, NEW b \in 0 .. Len(tasks), Numbering(b),
           SendFinalize, UNCHANGED serverVars
    PROVE  Numbering(b)'
<1>1. primitiveId' = 0 /\ UNCHANGED <<expectSeqNum, launch, serverLaunch>>
  BY DEF SendFinalize, PutMsg, serverVars
<1>2. Restarted'
  <2>1. call.group \in Groups /\ finalized \in [Groups -> BOOLEAN]
    BY DEF TypeInv, TypeOK, ClientTypeOK, Call
  <2>2. pc' = "finDone" \/ finalized'[call.group]
    BY <2>1 DEF SendFinalize, GoOn
  <2> QED
    BY <2>1, <2>2 DEF Restarted
<1>3. NextNumber(b)'
  BY <1>1, <1>2 DEF NextNumber
<1>4. \A n : LaunchedTo(n) => LaunchedTo(n)'
  BY DEF LaunchedTo, Calm
<1>5. Progress(b)'
  BY <1>1, <1>4 DEF Numbering, Progress, Calm
<1> QED
  BY <1>3, <1>5, NumberCalm

\* A task that is launched has the number the server expects.
LEMMA NumberProcess ==
    ASSUME TypeInv, PlaceInv, LaunchInv, MessagesCome, NEW b \in 0 .. Len(tasks), Numbering(b),
           NEW g \in Groups, NEW p, NEW m, NEW t, NEW sqes, Processed(g, p, m, t, sqes)
    PROVE  /\ Numbering(b)' /\ launch = serverLaunch
           /\ \A w \in 1 .. Len(tasks) : w < t => tasks[w].launched
<1>1. /\ p = msgPos[g] /\ p \in Pos /\ m = CurrentMsg(g) /\ m.type = "prepare"
      /\ t = m.task /\ t \in 1 .. Len(tasks) /\ ~tasks[t].launched
      /\ m.seq = expectSeqNum /\ expectSeqNum' = expectSeqNum + 1
      /\ Len(tasks') = Len(tasks) /\ tasks'[t].launched
      /\ \A w \in 1 .. Len(tasks) : w # t => tasks'[w] = tasks[w]
      /\ server = "run" /\ UNCHANGED <<clientVars, serverLaunch>>
  BY DEF Processed, NotLaunched
<1>2. Len(tasks) \in Nat /\ b \in Nat /\ expectSeqNum \in Nat
  BY TaskFacts DEF TypeInv, TypeOK, ServerTypeOK
<1>3. m.seq = t - 1 - b
  BY <1>1 DEF CurrentMsg, InHand, InSlot, Numbering, MessageNumbers
<1>4. t = b + expectSeqNum + 1
  BY <1>1, <1>2, <1>3
<1>5. launch = serverLaunch
  <2>1. launch + 1 # serverLaunch
    BY <1>1 DEF Numbering, Progress, LaunchedTo
  <2> QED
    BY <1>1, <2>1, LaunchCases
<1>6. \A w \in 1 .. Len(tasks) : tasks[w].launched <=> w <= b + expectSeqNum
  BY <1>5 DEF Numbering, Progress, LaunchedTo
<1>7. Progress(b)'
  <2>1. /\ UNCHANGED <<launch, serverLaunch>> /\ b + expectSeqNum' = t
        /\ launch # serverLaunch + 1 /\ launch + 1 # serverLaunch
    BY <1>1, <1>2, <1>4, <1>5, LaunchCases DEF clientVars
  <2>2. \A w \in 1 .. Len(tasks) : tasks'[w].launched <=> w <= t
    BY <1>1, <1>2, <1>4, <1>6
  <2> QED
    BY <1>1, <2>1, <2>2 DEF Progress, LaunchedTo
<1>8. TableNumbers(b)' /\ NextNumber(b)'
  BY <1>1 DEF Numbering, TableNumbers, InTable, NextNumber, Restarted, clientVars
<1>9. MessageNumbers(b)'
  BY MessageNumbersKept DEF Numbering
<1>10. \A w \in 1 .. Len(tasks) : w < t => tasks[w].launched
  BY <1>2, <1>4, <1>6
<1> QED
  BY <1>5, <1>7, <1>8, <1>9, <1>10 DEF Numbering

\* Before the next launch the tasks are over, and no message waits.
LEMMA LaunchOver ==
    ASSUME TypeInv, CommitInv, FinishInv, LastInv, Careful, NextLaunch,
           UNCHANGED <<serverVars, stream>>
    PROVE  /\ Waits /\ \A t \in 1 .. Len(tasks) : tasks[t].launched /\ Over(t)
           /\ \A g \in Groups : ~InHand(g) /\ \A p \in Pos : ~InSlot(g, p)
<1>1. Waits
  BY OrderLaunch DEF FinishInv, OrderParts
<1>2. \A g \in Groups : AllDone(g)
  BY <1>1 DEF FinishInv, DoneInv, Ending, NextLaunch
<1>3. \A t \in 1 .. Len(tasks) : tasks[t].launched /\ Over(t)
  BY <1>2, AllOver DEF FinishInv
<1>4. \A g \in Groups : ~InHand(g) /\ \A p \in Pos : ~InSlot(g, p)
  BY <1>3, SlotFacts DEF CommitInv, MessageInv, NotLaunched
<1> QED
  BY <1>1, <1>3, <1>4

LEMMA NumberLaunch ==
    ASSUME TypeInv, PlaceInv, CommitInv, FinishInv, LastInv, Careful, NextLaunch,
           UNCHANGED <<serverVars, stream>>, NEW b \in 0 .. Len(tasks), Numbering(b)
    PROVE  NumberInv'
<1>1. /\ Waits /\ \A t \in 1 .. Len(tasks) : tasks[t].launched
      /\ \A g \in Groups : ~InHand(g) /\ \A p \in Pos : ~InSlot(g, p)
  BY LaunchOver
<1>2. /\ pc = "ready" /\ pc' = "ready" /\ launch' = launch + 1
      /\ UNCHANGED <<sendMsgs, tasks, primitiveId, expectSeqNum, serverLaunch, rcvMsg, retryCnt>>
      /\ \A g \in Groups : finalized[g] /\ ~finalized'[g] /\ Len(handles'[g]) = 0
  BY DEF NextLaunch, areaVars, serverVars, PerGroup
<1>3. Len(tasks) \in Nat /\ 0 \in Groups /\ expectSeqNum \in Nat
  BY TaskFacts, ConstantFacts DEF TypeInv, TypeOK, ServerTypeOK
<1> SUFFICES ASSUME NEW n, n = Len(tasks) PROVE Numbering(n)'
  BY <1>2, <1>3 DEF NumberInv
<1>4. TableNumbers(n)'
  BY <1>2, <1>3 DEF TableNumbers, InTable
<1>5. NextNumber(n)'
  <2>1. primitiveId = 0
    BY <1>2, <1>3 DEF Numbering, NextNumber, Restarted
  <2>2. Len(tasks) - n = 0
    BY <1>3
  <2> QED
    BY <1>2, <2>1, <2>2, SeqModAssumption DEF NextNumber
<1>6. MessageNumbers(n)'
  BY <1>1, <1>2 DEF MessageNumbers, InSlot, InHand
<1>7. LaunchedTo(n)'
  BY <1>1, <1>2, <1>3 DEF LaunchedTo
<1>8. Progress(n)'
  <2>1. launch \in Nat /\ serverLaunch \in Nat
    BY LaunchCases DEF FinishInv
  <2>2. launch = serverLaunch \/ launch + 1 = serverLaunch
    BY <1>1, <1>2, <1>3, <2>1, LaunchCases DEF FinishInv, LaunchInv, Marked
  <2>3. launch + 1 = serverLaunch => expectSeqNum = 0
    BY DEF Numbering, Progress
  <2>4. n + 0 = n
    BY <1>3
  <2> QED
    BY <1>2, <1>3, <1>7, <2>1, <2>2, <2>3, <2>4 DEF Progress
<1> QED
  BY <1>4, <1>5, <1>6, <1>8 DEF Numbering

LEMMA NumberRestart ==
    ASSUME TypeInv, PlaceInv, CommitInv, FinishInv, Calm, MessagesCome, RestartServer,
           UNCHANGED clientVars, NEW b \in 0 .. Len(tasks), Numbering(b)
    PROVE  Numbering(b)'
<1>1. /\ server = "exit" /\ serverLaunch' = serverLaunch + 1 /\ expectSeqNum' = 0
      /\ UNCHANGED <<tasks, launch, primitiveId, pc, finalized>>
  BY DEF RestartServer, clientVars
<1>2. /\ Len(tasks) \in Nat /\ b \in Nat /\ b <= Len(tasks)
      /\ launch \in Nat /\ serverLaunch \in Nat
      /\ launch + 1 = serverLaunch \/ launch = serverLaunch \/ launch = serverLaunch + 1
  BY TaskFacts, LaunchCases DEF FinishInv
<1>3. \A g \in Groups : finalizeFlag[g] /\ Placed(g) /\ retryCnt[g] \in Nat
  BY <1>1, PlaceTypes DEF PlaceInv, RetryInv
<1>4. NextNumber(b)'
  BY <1>1 DEF Numbering, NextNumber, Restarted
<1>5. launch + 1 # serverLaunch
  BY <1>1, <1>2, <1>3, ConstantFacts DEF Placed, Layout
<1>6. launch = serverLaunch => LaunchedTo(Len(tasks))
  <2> SUFFICES ASSUME launch = serverLaunch, NEW t \in 1 .. Len(tasks) PROVE tasks[t].launched
    BY <1>2 DEF LaunchedTo
  <2>1. tasks[t].group \in Groups
    BY TaskFacts
  <2>2. ~Waiting(tasks[t].group, t)
    <3>1. ASSUME NEW g \in Groups, NEW p \in Pos PROVE ~InSlot(g, p)
      <4>1. sendMsgs[g][p] = NoMsg
        BY <1>2, <1>3, ConstantFacts DEF Placed, Layout
      <4> QED
        BY <4>1 DEF InSlot, NoMsg
    <3>2. \A g \in Groups : ~InHand(g)
      BY <1>3 DEF InHand, PlaceInv, RetryInv
    <3> QED
      BY <2>1, <3>1, <3>2 DEF Waiting
  <2> QED
    BY <2>1, <2>2 DEF FinishInv, WaitingInv
<1>7. Progress(b)'
  <2>1. \A n : LaunchedTo(n)' <=> LaunchedTo(n)
    BY <1>1 DEF LaunchedTo
  <2>2. launch = serverLaunch + 1 => LaunchedTo(b + 0) /\ b + 0 <= Len(tasks)
    BY <1>2 DEF Numbering, Progress
  <2>3. CASE launch = serverLaunch + 1
    BY <1>1, <1>2, <2>1, <2>2, <2>3 DEF Progress
  <2>4. CASE launch = serverLaunch
    BY <1>1, <1>2, <1>6, <2>1, <2>4 DEF Progress
  <2> QED
    BY <1>2, <1>5, <2>3, <2>4
<1> QED
  BY <1>4, <1>7, NumberCalm

LEMMA FullTurn == ASSUME NEW k \in Nat, k > 0 PROVE k % k = 0
OBVIOUS

LEMMA NumberSend ==
    ASSUME TypeInv, PlaceInv, RoomInv, OpenInv, NGroups * MaxHandle <= SeqMod, Alive,
           NEW g, NEW p, NEW m, NEW u, NEW hd, Prepared(g, p, m, u, hd),
           NEW b \in 0 .. Len(tasks), Numbering(b)
    PROVE  Numbering(b)'
<1>1. /\ g \in Groups /\ p \in Pos /\ m \in Msg /\ hd \in Handle
      /\ u = Len(tasks) + 1 /\ m.task = u /\ hd.task = u /\ pc = "send" /\ ~finalized[g]
      /\ sendMsgs' = [sendMsgs EXCEPT ![g][p] = m]
      /\ handles' = [handles EXCEPT ![g] = Append(@, hd)]
      /\ Len(tasks') = u /\ \A t \in 1 .. Len(tasks) : tasks'[t] = tasks[t]
      /\ ~tasks'[u].launched /\ pc' # "finDone"
      /\ UNCHANGED <<finalized, launch, serverVars>>
      /\ g = call.group /\ m.handle = Len(handles[g]) /\ m.seq = primitiveId
      /\ primitiveId' = NextSeq /\ call.msg.type = "prepare"
  BY DEF Prepared, Issued
<1>2. /\ Len(tasks) \in Nat /\ b \in Nat /\ b <= Len(tasks) /\ expectSeqNum \in Nat
      /\ SeqMod \in Nat /\ SeqMod > 0
  BY TaskFacts, SeqModAssumption DEF TypeInv, TypeOK, ServerTypeOK
<1>3. ~Restarted /\ ~Restarted'
  BY <1>1 DEF OpenInv, Preparing, Restarted
<1>c. Len(tasks) - b \in Nat
  BY <1>2
<1>d. SUFFICES ASSUME NEW n, n \in Nat, n = Len(tasks) - b PROVE Numbering(b)'
  BY <1>c
<1>4. n < SeqMod /\ primitiveId = n
  <2>1. Len(handles[g]) < MaxHandle
    BY <1>1, MaxHandleAssumption DEF Msg, Handles
  <2>2. n < SeqMod
    BY <1>1, <1>d, <2>1, Room DEF Numbering
  <2> QED
    BY <1>2, <1>3, <1>d, <2>2 DEF Numbering, NextNumber
<1>5. NextNumber(b)'
  <2>1. Len(tasks') - b = n + 1
    BY <1>1, <1>2, <1>d
  <2>2. CASE n + 1 = SeqMod
    BY <1>1, <1>2, <1>3, <1>4, <2>1, <2>2, FullTurn DEF NextNumber, NextSeq
  <2>3. CASE n + 1 < SeqMod
    <3>1. (n + 1) % SeqMod = n + 1
      BY <1>2, <1>d, <2>3, NextPosition
    <3> QED
      BY <1>1, <1>2, <1>3, <1>d, <1>4, <2>1, <2>3, <3>1 DEF NextNumber, NextSeq
  <2> QED
    BY <1>2, <1>4, <1>d, <2>2, <2>3
<1>6. TableNumbers(b)'
  <2>1. /\ Len(handles'[g]) = Len(handles[g]) + 1 /\ handles'[g][Len(handles[g]) + 1] = hd
        /\ \A i \in 1 .. Len(handles[g]) : handles'[g][i] = handles[g][i]
        /\ \A g2 \in Groups \ {g} : handles'[g2] = handles[g2]
        /\ Len(handles[g]) \in Nat
    BY <1>1, RowAdded, RowFacts
  <2>2. InTable(u)'
    <3>1. Len(handles[g]) + 1 \in 1 .. Len(handles'[g])
      BY <2>1
    <3> QED
      BY <1>1, <2>1, <3>1 DEF InTable
  <2>3. ASSUME NEW t, t # u PROVE InTable(t)' <=> InTable(t)
    <3>1. ASSUME NEW g2 \in Groups, NEW i \in 1 .. Len(handles[g2]), handles[g2][i].task = t
          PROVE  InTable(t)'
      <4>1. i \in 1 .. Len(handles'[g2]) /\ handles'[g2][i] = handles[g2][i]
        BY <2>1, <3>1
      <4> QED
        BY <3>1, <4>1 DEF InTable
    <3>2. ASSUME NEW g2 \in Groups, NEW i \in 1 .. Len(handles'[g2]), handles'[g2][i].task = t
          PROVE  InTable(t)
      <4>1. i \in 1 .. Len(handles[g2]) /\ handles'[g2][i] = handles[g2][i]
        BY <1>1, <2>1, <2>3, <3>2
      <4> QED
        BY <3>2, <4>1 DEF InTable
    <3> QED
      BY <3>1, <3>2 DEF InTable
  <2>4. \A t \in 1 .. Len(tasks') : t # u => t \in 1 .. Len(tasks)
    BY <1>1, <1>2
  <2>5. u > b
    BY <1>1, <1>2
  <2> QED
    BY <2>2, <2>3, <2>4, <2>5 DEF Numbering, TableNumbers
<1>7. MessageNumbers(b)'
  <2>1. sendMsgs \in [Groups -> [Pos -> Msg]]
    BY DEF TypeInv, TypeOK, AreaTypeOK
  <2>2. \A g2 \in Groups, q \in Pos :
          IF g2 = g /\ q = p THEN sendMsgs'[g2][q] = m ELSE sendMsgs'[g2][q] = sendMsgs[g2][q]
    BY <1>1, <2>1
  <2>3. m.seq = u - 1 - b
    BY <1>1, <1>2, <1>4, <1>d
  <2>4. UNCHANGED <<rcvMsg, retryCnt>>
    BY <1>1 DEF serverVars
  <2>5. \A g2 \in Groups, q \in Pos :
          InSlot(g2, q)' => sendMsgs'[g2][q].seq = sendMsgs'[g2][q].task - 1 - b
    BY <1>1, <2>2, <2>3 DEF Numbering, MessageNumbers, InSlot
  <2> QED
    BY <2>4, <2>5 DEF Numbering, MessageNumbers, InHand
<1>8. \A k \in Nat : k <= Len(tasks) /\ LaunchedTo(k) => LaunchedTo(k)'
  BY <1>1, <1>2 DEF LaunchedTo
<1>9. Progress(b)'
  <2>1. launch + 1 # serverLaunch
    <3>1. Sent(g) = "open"
      BY <1>1 DEF Sent, Finalizing
    <3>2. Placed(g)
      BY <1>1 DEF PlaceInv, Alive
    <3>3. launch \in Nat /\ serverLaunch \in Nat
      BY <1>1, PlaceTypes
    <3> QED
      BY <3>1, <3>2, <3>3 DEF Placed
  <2>2. UNCHANGED <<launch, serverLaunch, expectSeqNum>>
    BY <1>1 DEF serverVars
  <2>3. b + expectSeqNum \in Nat /\ Len(tasks') >= Len(tasks)
    BY <1>1, <1>2
  <2> QED
    BY <1>1, <1>2, <1>8, <2>1, <2>2, <2>3 DEF Numbering, Progress
<1> QED
  BY <1>5, <1>6, <1>7, <1>9 DEF Numbering

LEMMA NumberStep ==
    ASSUME Orderly, TypeInv, PlaceInv, CommitInv, FinishInv, LastInv, RoomInv, OpenInv,
           NumberInv, [Next]_vars
    PROVE  NumberInv'
<1>a. /\ LaunchInv /\ Careful /\ NGroups * MaxHandle <= SeqMod
  BY DEF FinishInv, Orderly
<1> SUFFICES ASSUME Alive' PROVE NumberInv'
  BY DEF NumberInv
<1>1. Alive
  BY AliveBefore
<1>2. PICK b \in 0 .. Len(tasks) : Numbering(b)
  BY <1>1 DEF NumberInv
<1>3. (b \in 0 .. Len(tasks') /\ Numbering(b)') => NumberInv'
  BY DEF NumberInv
<1>4. b \in 0 .. Len(tasks')
  <2>1. Len(tasks) <= Len(tasks')
    BY GrowStep DEF TasksGrow
  <2>2. Len(tasks') \in Nat
    <3>1. TypeInv'
      BY TypeStep
    <3>2. tasks' \in Seq(Task)
      BY <3>1 DEF TypeInv, TypeOK
    <3> QED
      BY <3>2, LenProperties
  <2> QED
    BY <2>1, <2>2, TaskFacts
<1>5. CASE SendPrepare /\ UNCHANGED <<serverVars, stream>>
  <2>1. PICK g, p, m, u, hd : Prepared(g, p, m, u, hd)
    BY <1>5, SendPrepared
  <2> QED
    BY <1>a, <1>1, <1>2, <1>3, <1>4, <2>1, NumberSend
<1>6. CASE NextLaunch /\ UNCHANGED <<serverVars, stream>>
  BY <1>a, <1>2, <1>6, NumberLaunch
<1>7. ASSUME NEW g \in Groups, PrepareProcess(g), UNCHANGED clientVars PROVE NumberInv'
  <2>1. PICK p, m, t, sqes : Processed(g, p, m, t, sqes)
    BY <1>7, PrepareProcessed
  <2>2. MessagesCome
    BY <1>7, ServedCome
  <2> QED
    BY <1>a, <1>2, <1>3, <1>4, <2>1, <2>2, NumberProcess
<1>8. CASE Calm /\ MessagesCome
  <2>1. CASE PlainNumbers
    BY <1>2, <1>3, <1>4, <1>8, <2>1, NumberPlain
  <2>2. CASE SendFinalize /\ UNCHANGED <<serverVars, stream>>
    BY <1>2, <1>3, <1>4, <1>8, <2>2, NumberFinalize
  <2>3. CASE RestartServer /\ UNCHANGED clientVars
    BY <1>2, <1>3, <1>4, <1>8, <2>3, NumberRestart
  <2> QED
    BY <1>5, <1>6, <1>7, <2>1, <2>2, <2>3, NumberSteps
<1> QED
  BY <1>5, <1>6, <1>7, <1>8, CalmSteps, MessagesStep

----------------------------------------------------------------------------
(* The messages, and the tables of the server, name rows of the client.     *)

LEMMA RowStays ==
    ASSUME TypeInv, RowsGrow, NEW g \in Groups, NEW h \in Nat, NEW t, RowFor(g, h, t)
    PROVE  RowOf(handles'[g], h, t)
<1>1. h + 1 \in 1 .. Len(handles[g]) /\ Len(handles[g]) \in Nat
  BY RowFacts DEF RowFor, RowOf
<1> QED
  BY <1>1 DEF RowFor, RowOf, RowsGrow

LEMMA HandleNumbers ==
    ASSUME TypeInv, NEW g \in Groups
    PROVE  /\ \A p \in Pos : sendMsgs[g][p].handle \in Nat
           /\ rcvMsg[g].handle \in Nat
BY SlotFacts, ConstantFacts DEF Msg

LEMMA RefStep ==
    ASSUME Careful, TypeInv, PlaceInv, CommitInv, FinishInv, LastInv, RefInv, [Next]_vars
    PROVE  RefInv'
<1> SUFFICES ASSUME Alive' PROVE RefInv'
  BY DEF RefInv
<1>a. /\ \A g \in Groups, p \in Pos : InSlot(g, p) =>
            RowFor(g, sendMsgs[g][p].handle, sendMsgs[g][p].task)
      /\ \A g \in Groups : InHand(g) => RowFor(g, rcvMsg[g].handle, rcvMsg[g].task)
  BY AliveBefore DEF RefInv
<1>1. CASE SendPrepare /\ UNCHANGED <<serverVars, stream>>
  <2>1. PICK g, p, m, u, hd : Prepared(g, p, m, u, hd)
    BY <1>1, SendPrepared
  <2>2. /\ g \in Groups /\ p \in Pos /\ m \in Msg /\ hd \in Handle /\ hd.task = u /\ m.task = u
        /\ sendMsgs' = [sendMsgs EXCEPT ![g][p] = m]
        /\ handles' = [handles EXCEPT ![g] = Append(@, hd)] /\ m.handle = Len(handles[g])
        /\ UNCHANGED serverVars
    BY <2>1 DEF Prepared, Issued
  <2>3. /\ Len(handles'[g]) = Len(handles[g]) + 1 /\ handles'[g][Len(handles[g]) + 1] = hd
        /\ Len(handles[g]) \in Nat
    BY <2>2, RowAdded, RowFacts
  <2>4. RowOf(handles'[g], m.handle, m.task)
    BY <2>2, <2>3 DEF RowOf
  <2>5. ~NextLaunch
    BY <1>1 DEF SendPrepare, PutMsg, NextLaunch
  <2>6. RowsGrow
    BY <2>5, RowsStep
  <2>7. \A g2 \in Groups, q \in Pos :
          IF g2 = g /\ q = p THEN sendMsgs'[g2][q] = m ELSE sendMsgs'[g2][q] = sendMsgs[g2][q]
    BY <2>2 DEF TypeInv, TypeOK, AreaTypeOK
  <2>8. ASSUME NEW g2 \in Groups, NEW q \in Pos, InSlot(g2, q)'
        PROVE  RowOf(handles'[g2], sendMsgs'[g2][q].handle, sendMsgs'[g2][q].task)
    <3>1. CASE g2 = g /\ q = p
      <4>1. sendMsgs'[g2][q] = m
        BY <2>7, <3>1
      <4> QED
        BY <2>4, <3>1, <4>1
    <3>2. CASE ~(g2 = g /\ q = p)
      <4>1. InSlot(g2, q) /\ sendMsgs'[g2][q] = sendMsgs[g2][q]
        BY <2>7, <2>8, <3>2 DEF InSlot
      <4> QED
        BY <1>a, <2>6, <4>1, RowStays, HandleNumbers
    <3> QED
      BY <3>1, <3>2
  <2>9. ASSUME NEW g2 \in Groups, InHand(g2)'
        PROVE  RowOf(handles'[g2], rcvMsg'[g2].handle, rcvMsg'[g2].task)
    <3>1. InHand(g2) /\ rcvMsg'[g2] = rcvMsg[g2]
      BY <2>2, <2>9 DEF InHand, serverVars
    <3> QED
      BY <1>a, <2>6, <3>1, RowStays, HandleNumbers
  <2> QED
    BY <2>8, <2>9 DEF RefInv, RowFor
<1>2. CASE NextLaunch /\ UNCHANGED <<serverVars, stream>>
  <2>1. \A g \in Groups : ~InHand(g) /\ \A p \in Pos : ~InSlot(g, p)
    BY <1>2, LaunchOver
  <2> QED
    BY <1>2, <2>1 DEF RefInv, InHand, InSlot, NextLaunch, areaVars, serverVars
<1>3. CASE MessagesCome /\ RowsGrow
  <2>1. \A g \in Groups : msgPos[g] \in Pos
    BY SlotFacts
  <2>2. ASSUME NEW g \in Groups, NEW p \in Pos, InSlot(g, p)'
        PROVE  RowOf(handles'[g], sendMsgs'[g][p].handle, sendMsgs'[g][p].task)
    BY <1>a, <1>3, <2>2, RowStays, HandleNumbers DEF MessagesCome
  <2>3. ASSUME NEW g \in Groups, InHand(g)'
        PROVE  RowOf(handles'[g], rcvMsg'[g].handle, rcvMsg'[g].task)
    BY <1>a, <1>3, <2>1, <2>3, RowStays, HandleNumbers DEF MessagesCome
  <2> QED
    BY <2>2, <2>3 DEF RefInv, RowFor
<1> QED
  BY <1>1, <1>2, <1>3, MessagesStep, RowsStep

LEMMA TableSteps ==
    ASSUME [Next]_vars
    PROVE  \/ UNCHANGED <<handleToMsgPos, handleToRepeat, serverLaunch>>
           \/ RestartServer /\ UNCHANGED clientVars
           \/ \E g \in Groups : PrepareProcess(g) /\ UNCHANGED clientVars
<1>1. CASE ServerNext
  <2>1. ASSUME NEW g \in Groups, GroupServerProcess(g), ~PrepareProcess(g)
        PROVE  UNCHANGED <<handleToMsgPos, handleToRepeat, serverLaunch>>
    BY <2>1 DEF GroupServerProcess, PrepareRetry, InterGroupSyncProcess, InterGroupSyncRetry,
       FinalizeProcess, GroupFinish, Finished, InTime, TimedOut, RetryExceeded, NoOpHandle, Serve,
       Visit, RetryMsg, OtherServerVars
  <2> QED
    BY <1>1, <2>1 DEF ServerNext
<1>2. CASE ClientNext \/ (\E g \in Groups : StreamNext(g)) \/ UNCHANGED vars
  BY <1>2 DEF ClientNext, StreamNext, WaitCommit, WaitFinish, RunKernel, PostFinish, Execute, vars,
     serverVars
<1> QED
  BY <1>1, <1>2 DEF Next, Terminated

\* The tables of the server, read as the rows of the client.
TableOf(rows, pos, repeat) ==
    \A h \in Handles : pos[h] # Unknown =>
        h + 1 <= Len(rows) /\ rows[h + 1].pos = pos[h] /\ rows[h + 1].repeat = repeat[h]

LEMMA KnownTables ==
    KnownInv <=>
        /\ launch = serverLaunch =>
            \A g \in Groups : TableOf(handles[g], handleToMsgPos[g], handleToRepeat[g])
        /\ launch + 1 = serverLaunch =>
            \A g \in Groups, h \in Handles : handleToMsgPos[g][h] = Unknown
BY DEF KnownInv, TableOf

LEMMA TableStays ==
    ASSUME TypeInv, RowsGrow, NEW g \in Groups, NEW pos, NEW repeat,
           TableOf(handles[g], pos, repeat)
    PROVE  TableOf(handles'[g], pos, repeat)
<1> SUFFICES ASSUME NEW h \in Handles, pos[h] # Unknown
             PROVE  /\ h + 1 <= Len(handles'[g]) /\ handles'[g][h + 1].pos = pos[h]
                    /\ handles'[g][h + 1].repeat = repeat[h]
  BY DEF TableOf
<1>1. h + 1 \in 1 .. Len(handles[g]) /\ Len(handles[g]) \in Nat
  <2>1. h \in Nat /\ Len(handles[g]) \in Nat
    BY ConstantFacts, RowFacts
  <2> QED
    BY <2>1 DEF TableOf
<1> QED
  BY <1>1 DEF TableOf, RowsGrow

LEMMA KnownProcess ==
    ASSUME TypeInv, PlaceInv, CommitInv, FinishInv, RefInv, KnownInv, Alive, NumberInv,
           NEW g \in Groups, PrepareProcess(g), UNCHANGED clientVars
    PROVE  KnownInv'
<1>1. PICK p, m, t, sqes : Processed(g, p, m, t, sqes)
  BY PrepareProcessed
<1>2. MessagesCome
  BY ServedCome
<1>3. PICK b \in 0 .. Len(tasks) : Numbering(b)
  BY DEF NumberInv
<1>4. launch = serverLaunch /\ UNCHANGED <<launch, serverLaunch, handles>>
  <2>1. LaunchInv
    BY DEF FinishInv
  <2> QED
    BY <1>1, <1>2, <1>3, <2>1, NumberProcess DEF Processed, clientVars
<1>5. /\ p = msgPos[g] /\ p \in Pos /\ m = CurrentMsg(g) /\ m \in Msg /\ t \in 1 .. Len(tasks)
      /\ t = m.task /\ m.type = "prepare" /\ At(g, p, t) /\ tasks[t].repeat = m.repeat
  BY <1>1 DEF Processed, NotLaunched
<1>6. /\ handleToMsgPos' = [handleToMsgPos EXCEPT ![g][m.handle] = p]
      /\ handleToRepeat' = [handleToRepeat EXCEPT ![g][m.handle] = m.repeat]
  BY <1>5 DEF PrepareProcess
<1>7. RowFor(g, m.handle, t)
  <2>1. (InHand(g) /\ m = rcvMsg[g]) \/ (InSlot(g, p) /\ m = sendMsgs[g][p])
    BY <1>5 DEF CurrentMsg, InHand, InSlot
  <2> QED
    BY <1>5, <2>1 DEF RefInv
<1>8. m.handle \in Handles /\ m.handle \in Nat
  BY <1>5, ConstantFacts DEF Msg
<1>9. /\ m.handle + 1 <= Len(handles[g]) /\ handles[g][m.handle + 1].pos = p
      /\ handles[g][m.handle + 1].repeat = m.repeat
  <2>1. m.handle + 1 \in 1 .. Len(handles[g]) /\ handles[g][m.handle + 1].task = t
    BY <1>7, <1>8, RowFacts DEF RowFor, RowOf
  <2>2. tasks[t].repeat = handles[g][m.handle + 1].repeat
    BY <2>1 DEF CommitInv, TableInv
  <2> QED
    BY <1>5, <2>1, <2>2 DEF At
<1>10. \A g2 \in Groups : TableOf(handles[g2], handleToMsgPos[g2], handleToRepeat[g2])
  BY <1>4, KnownTables
<1>11. ASSUME NEW g2 \in Groups
       PROVE  TableOf(handles[g2], handleToMsgPos'[g2], handleToRepeat'[g2])
  <2>1. /\ handleToMsgPos \in [Groups -> [Handles -> Pos \cup {Unknown}]]
        /\ handleToRepeat \in [Groups -> [Handles -> Nat \cup {Unknown}]]
    BY DEF TypeInv, TypeOK, ServerTypeOK
  <2>2. \A h \in Handles :
          IF g2 = g /\ h = m.handle
          THEN handleToMsgPos'[g2][h] = p /\ handleToRepeat'[g2][h] = m.repeat
          ELSE /\ handleToMsgPos'[g2][h] = handleToMsgPos[g2][h]
               /\ handleToRepeat'[g2][h] = handleToRepeat[g2][h]
    BY <1>6, <1>8, <2>1
  <2> QED
    BY <1>9, <1>10, <2>2 DEF TableOf
<1>12. launch' = serverLaunch' /\ ~(launch' + 1 = serverLaunch')
  BY <1>4, PlaceTypes, ConstantFacts
<1>13. \A g2 \in Groups : TableOf(handles'[g2], handleToMsgPos'[g2], handleToRepeat'[g2])
  BY <1>4, <1>11
<1> QED
  BY <1>12, <1>13 DEF KnownInv, TableOf

LEMMA KnownStep ==
    ASSUME Careful, TypeInv, PlaceInv, CommitInv, FinishInv, RefInv, NumberInv,
           KnownInv, [Next]_vars
    PROVE  KnownInv'
<1>a. LaunchInv
  BY DEF FinishInv
<1>b. launch \in Nat /\ serverLaunch \in Nat
  BY <1>a, LaunchCases
<1>1. CASE UNCHANGED <<handleToMsgPos, handleToRepeat, serverLaunch>>
  <2>1. CASE RowsGrow /\ UNCHANGED launch
    <3>1. ASSUME launch' = serverLaunch', NEW g \in Groups
          PROVE  TableOf(handles'[g], handleToMsgPos'[g], handleToRepeat'[g])
      BY <1>1, <2>1, <3>1, KnownTables, TableStays
    <3>2. launch' + 1 = serverLaunch' =>
              \A g \in Groups, h \in Handles : handleToMsgPos'[g][h] = Unknown
      BY <1>1, <2>1 DEF KnownInv
    <3> QED
      BY <3>1, <3>2 DEF KnownInv, TableOf
  <2>2. CASE NextLaunch
    <3>1. launch' = launch + 1
      BY <2>2 DEF NextLaunch
    <3>2. launch' + 1 # serverLaunch'
      BY <1>1, <1>a, <3>1, LaunchCases
    <3>3. launch' = serverLaunch' => launch + 1 = serverLaunch
      BY <1>1, <3>1
    <3>4. launch' = serverLaunch' =>
              \A g \in Groups, h \in Handles : handleToMsgPos'[g][h] = Unknown
      BY <1>1, <3>3 DEF KnownInv
    <3> QED
      BY <3>2, <3>4 DEF KnownInv
  <2> QED
    BY <2>1, <2>2, RowsStep
<1>2. CASE RestartServer
  <2>1. \A g \in Groups, h \in Handles : handleToMsgPos'[g][h] = Unknown
    BY <1>2 DEF RestartServer, FreshServer
  <2> QED
    BY <2>1 DEF KnownInv
<1>3. ASSUME NEW g \in Groups, PrepareProcess(g), UNCHANGED clientVars PROVE KnownInv'
  <2>1. Alive
    BY <1>3 DEF PrepareProcess, Serve, Visit, Alive
  <2> QED
    BY <1>3, <2>1, KnownProcess
<1> QED
  BY <1>1, <1>2, <1>3, TableSteps

----------------------------------------------------------------------------
(* A task runs after those its group was told to wait for.                  *)

LEMMA SyncStays ==
    ASSUME TypeInv, RowsGrow, NEW m \in Msg, NEW d, SyncMsg(m, d)
    PROVE  SyncOf(handles', m, d)
<1>1. m.dep \in Groups /\ m.handle \in Nat /\ m.type = "sync"
  BY ConstantFacts DEF Msg, SyncMsg, SyncOf
<1>2. RowFor(m.dep, m.handle, d)
  BY DEF SyncMsg, SyncOf, RowFor
<1> QED
  BY <1>1, <1>2, RowStays DEF SyncOf

LEMMA SlotStays ==
    ASSUME TypeInv, RowsGrow, NEW g \in Groups, NEW d, NEW t, NEW q \in Pos,
           SyncMsg(sendMsgs[g][q], d), sendMsgs'[g][q] = sendMsgs[g][q],
           ~(InHand(g)' /\ rcvMsg'[g].task = t),
           \A p \in Pos : InSlot(g, p)' /\ sendMsgs'[g][p].task = t => q < p
    PROVE  SlotWait(g, d, t)'
<1>1. SyncOf(handles', sendMsgs'[g][q], d)
  BY SlotFacts, SyncStays
<1> QED
  BY <1>1 DEF SlotWait, SyncMsg

LEMMA HandStays ==
    ASSUME TypeInv, RowsGrow, NEW g \in Groups, NEW d, HandWait(g, d),
           retryCnt'[g] > 0, rcvMsg'[g] = rcvMsg[g]
    PROVE  HandWait(g, d)'
<1>1. SyncOf(handles', rcvMsg'[g], d)
  BY SlotFacts, SyncStays DEF HandWait
<1> QED
  BY <1>1 DEF HandWait, SyncMsg

\* Nothing happens to the messages of the group.
LEMMA WaitsOn ==
    ASSUME TypeInv, RowsGrow, NEW g \in Groups, NEW d, NEW t,
           SlotWait(g, d, t) \/ HandWait(g, d),
           sendMsgs'[g] = sendMsgs[g], retryCnt'[g] = retryCnt[g], rcvMsg'[g] = rcvMsg[g]
    PROVE  (SlotWait(g, d, t) \/ HandWait(g, d))'
<1>1. CASE SlotWait(g, d, t)
  <2>1. PICK q \in Pos :
          /\ SyncMsg(sendMsgs[g][q], d)
          /\ \A p \in Pos : InSlot(g, p) /\ sendMsgs[g][p].task = t => q < p
    BY <1>1 DEF SlotWait
  <2>2. ~(InHand(g)' /\ rcvMsg'[g].task = t)
    BY <1>1 DEF SlotWait, InHand
  <2>3. \A p \in Pos : InSlot(g, p)' /\ sendMsgs'[g][p].task = t => q < p
    BY <2>1 DEF InSlot
  <2> QED
    BY <2>1, <2>2, <2>3, SlotStays
<1>2. CASE HandWait(g, d)
  <2>1. retryCnt'[g] > 0
    BY <1>2 DEF HandWait
  <2> QED
    BY <1>2, <2>1, HandStays
<1> QED
  BY <1>1, <1>2

\* A message is put into a free slot; one for t is behind all that wait.
LEMMA WaitsPut ==
    ASSUME TypeInv, RowsGrow, NEW g \in Groups, NEW d, NEW t,
           SlotWait(g, d, t) \/ HandWait(g, d), UNCHANGED serverVars,
           NEW g2 \in Groups, NEW b \in Pos, NEW m \in Msg, sendMsgs[g2][b] = NoMsg,
           sendMsgs' = [sendMsgs EXCEPT ![g2][b] = m],
           m.type = "prepare" =>
                \A q \in Pos : sendMsgs[g2][q] # NoMsg => q < b
    PROVE  (SlotWait(g, d, t) \/ HandWait(g, d))'
<1>0. UNCHANGED <<retryCnt, rcvMsg>>
  BY DEF serverVars
<1>1. sendMsgs \in [Groups -> [Pos -> Msg]]
  BY DEF TypeInv, TypeOK, AreaTypeOK
<1>2. CASE HandWait(g, d)
  <2>1. retryCnt'[g] > 0
    BY <1>0, <1>2 DEF HandWait
  <2> QED
    BY <1>0, <1>2, <2>1, HandStays
<1>3. CASE SlotWait(g, d, t)
  <2>1. PICK q \in Pos :
          /\ SyncMsg(sendMsgs[g][q], d)
          /\ \A p \in Pos : InSlot(g, p) /\ sendMsgs[g][p].task = t => q < p
    BY <1>3 DEF SlotWait
  <2>2. ~(InHand(g)' /\ rcvMsg'[g].task = t)
    BY <1>0, <1>3 DEF SlotWait, InHand
  <2>3. sendMsgs[g][q].type = "sync" /\ sendMsgs[g][q] # NoMsg
    BY <2>1 DEF SyncMsg, SyncOf, NoMsg
  <2>4. sendMsgs'[g][q] = sendMsgs[g][q]
    BY <1>1, <2>3
  <2>5. ASSUME NEW p \in Pos, InSlot(g, p)', sendMsgs'[g][p].task = t PROVE q < p
    <3>1. CASE g2 = g /\ p = b
      <4>1. m.type = "prepare"
        BY <1>1, <2>5, <3>1 DEF InSlot
      <4> QED
        BY <2>3, <3>1, <4>1
    <3>2. CASE ~(g2 = g /\ p = b)
      <4>1. sendMsgs'[g][p] = sendMsgs[g][p]
        BY <1>1, <3>2
      <4> QED
        BY <2>1, <2>5, <4>1 DEF InSlot
    <3> QED
      BY <3>1, <3>2
  <2> QED
    BY <2>1, <2>2, <2>4, <2>5, SlotStays
<1> QED
  BY <1>2, <1>3

LEMMA WaitsClient ==
    ASSUME TypeInv, PlaceInv, LaunchInv, Alive, RowsGrow, ClientNext, NEW g \in Groups,
           NEW d, NEW t, SlotWait(g, d, t) \/ HandWait(g, d)
    PROVE  (SlotWait(g, d, t) \/ HandWait(g, d))'
<1>0. UNCHANGED serverVars /\ UNCHANGED <<serverVars, stream>>
  BY DEF ClientNext
<1>1. CASE UNCHANGED sendMsgs
  BY <1>0, <1>1, WaitsOn DEF serverVars
<1>2. CASE SendPrepare
  <2>1. PICK g2, b, m, u, hd : Prepared(g2, b, m, u, hd)
    BY <1>0, <1>2, SendPrepared
  <2>2. /\ g2 \in Groups /\ b \in Pos /\ b = curMsgPosition[g2] /\ m \in Msg
        /\ sendMsgs[g2][b] = NoMsg /\ sendMsgs' = [sendMsgs EXCEPT ![g2][b] = m]
        /\ pc = "send"
    BY <2>1 DEF Prepared
  <2>3. \A q \in Pos : sendMsgs[g2][q] # NoMsg => q < b
    BY <2>2, SlotBehind DEF End, Finalizing
  <2> QED
    BY <1>0, <2>2, <2>3, WaitsPut
<1>3. ASSUME NEW type \in {"sync", "finalize"}, PutMsg(type, call.msg)
      PROVE  (SlotWait(g, d, t) \/ HandWait(g, d))'
  <2>1. /\ call.group \in Groups /\ call.msg \in Msg /\ call.msg.type # "prepare"
        /\ sendMsgs[call.group][curMsgPosition[call.group]] = NoMsg
        /\ sendMsgs' = [sendMsgs EXCEPT ![call.group][curMsgPosition[call.group]] = call.msg]
        /\ pc = "send"
    BY <1>3 DEF PutMsg, TypeInv, TypeOK, ClientTypeOK, Call
  <2>2. curMsgPosition[call.group] \in Pos
    <3>1. ~finalized[call.group] /\ curMsgPosition[call.group] < MsgCnt
      BY <2>1 DEF TypeInv, CallOK
    <3>2. curMsgPosition[call.group] \in 0 .. MsgCnt /\ MsgCnt \in Nat
      BY <2>1, PlaceTypes
    <3> QED
      BY <3>1, <3>2 DEF Pos
  <2> QED
    BY <1>0, <2>1, <2>2, WaitsPut
<1>4. CASE \/ CallApi \/ SendExt \/ CommitWrite \/ WaitReturn \/ FinalizeQueried \/ FinalizeDone
  BY <1>1, <1>4 DEF CallApi, Prepare, PrepareRefused, InterHcclGroupSync, Commit, Wait, Finalize,
     NextLaunch, SendExt, CommitWrite, WaitReturn, FinalizeQueried, FinalizeDone, areaVars
<1>5. CASE SendSync \/ SendFinalize
  BY <1>3, <1>5 DEF SendSync, SendFinalize
<1> QED
  BY <1>2, <1>4, <1>5 DEF ClientNext, ContinueCall

LEMMA WaitsElsewhere ==
    ASSUME TypeInv, PlaceInv, RowsGrow, Alive', NEW g2 \in Groups, GroupServerProcess(g2),
           NEW g \in Groups \ {g2}, NEW d, NEW t, SlotWait(g, d, t) \/ HandWait(g, d)
    PROVE  (SlotWait(g, d, t) \/ HandWait(g, d))'
<1>1. RetryInv
  BY DEF PlaceInv
<1>2. sendMsgs'[g] = sendMsgs[g] /\ retryCnt'[g] = retryCnt[g] /\ rcvMsg'[g] = rcvMsg[g]
  <2>1. CASE \/ PrepareProcess(g2) \/ PrepareRetry(g2)
             \/ InterGroupSyncProcess(g2) \/ InterGroupSyncRetry(g2) \/ FinalizeProcess(g2)
    BY <1>1, <2>1, ServeEffects
  <2>2. CASE GroupFinish(g2) \/ Finished(g2) \/ InTime(g2) \/ TimedOut(g2) \/ RetryExceeded(g2)
               \/ NoOpHandle(g2)
    BY <1>1, <2>2, OtherVisits DEF Alive
  <2> QED
    BY <2>1, <2>2 DEF GroupServerProcess
<1> QED
  BY <1>2, WaitsOn

\* The wait for a task is in the stream before the tasks yet to be launched.
LEMMA SyncEntered ==
    ASSUME TypeInv, PlaceInv, CommitInv, LaunchInv, KnownInv,
           UNCHANGED clientVars, NEW g \in Groups, g \in Synced, InterGroupSyncProcess(g),
           NEW d \in 1 .. Len(tasks), SyncMsg(CurrentMsg(g), d), NEW t, ToLaunch(t)
    PROVE  StreamWait(g, d, t)'
<1>d. SUFFICES ASSUME NEW m, m = CurrentMsg(g), NEW e, e = SyncSqe(m) PROVE StreamWait(g, d, t)'
  OBVIOUS
<1>1. /\ server = "run" /\ SyncKnown(m) /\ stream' = [stream EXCEPT ![g] = @ \o <<e>>]
      /\ UNCHANGED <<tasks, handles>> /\ m \in Msg /\ SyncMsg(m, d)
  BY <1>d, CurrentMsgType DEF InterGroupSyncProcess, Serve, Visit, SyncStreams, Enqueue, clientVars
<1>2. m.dep \in Groups /\ m.handle \in Handles /\ m.handle \in Nat
  BY <1>1, ConstantFacts DEF Msg
<1>3. /\ handleToMsgPos[m.dep][m.handle] \in Pos /\ handleToRepeat[m.dep][m.handle] \in Nat
  BY <1>1, <1>2 DEF SyncKnown, TypeInv, TypeOK, ServerTypeOK, LinksOK
<1>4. launch = serverLaunch
  <2>1. launch + 1 # serverLaunch
    BY <1>1, <1>2 DEF KnownInv, SyncKnown
  <2> QED
    BY <1>1, <2>1, LaunchCases
<1>5. /\ m.handle + 1 \in 1 .. Len(handles[m.dep])
      /\ handles[m.dep][m.handle + 1].task = d
      /\ handles[m.dep][m.handle + 1].pos = handleToMsgPos[m.dep][m.handle]
      /\ handles[m.dep][m.handle + 1].repeat = handleToRepeat[m.dep][m.handle]
  <2>1. /\ m.handle + 1 <= Len(handles[m.dep]) /\ handles[m.dep][m.handle + 1].task = d
        /\ Len(handles[m.dep]) \in Nat
    BY <1>1, <1>2, RowFacts DEF SyncMsg, SyncOf, RowOf
  <2>2. /\ handles[m.dep][m.handle + 1].pos = handleToMsgPos[m.dep][m.handle]
        /\ handles[m.dep][m.handle + 1].repeat = handleToRepeat[m.dep][m.handle]
    BY <1>1, <1>2, <1>4 DEF KnownInv, SyncKnown
  <2> QED
    BY <1>2, <2>1, <2>2
<1>6. tasks[d].repeat = handleToRepeat[m.dep][m.handle]
  BY <1>2, <1>5 DEF CommitInv, TableInv
<1>7. /\ e \in Sqe /\ e.type = "waitFinish" /\ e.group = m.dep
      /\ e.pos = handleToMsgPos[m.dep][m.handle] /\ e.val = handleToRepeat[m.dep][m.handle]
  BY <1>d, <1>2, <1>3 DEF SyncSqe, Sqe, SqeTypes
<1>8. SyncEntry(e, d)'
  <2>1. tasks[d].repeat <= e.val
    BY <1>3, <1>6, <1>7
  <2> QED
    BY <1>1, <1>5, <1>7, <2>1 DEF SyncEntry, EntryOf
<1>9. /\ <<e>> \in Seq(Sqe) /\ Added(g, <<e>>) /\ e.type = "waitFinish"
  BY <1>1, <1>7 DEF Added
<1>10. /\ Len(stream'[g]) = Len(stream[g]) + 1 /\ stream'[g][Len(stream[g]) + 1] = e
       /\ \A j \in 1 .. Len(stream[g]) : stream'[g][j] = stream[g][j]
       /\ Len(stream[g]) \in Nat
  <2>1. stream[g] \in Seq(Sqe)
    BY EntryFacts
  <2>2. stream'[g] = stream[g] \o <<e>>
    BY <1>1 DEF TypeInv, TypeOK
  <2> QED
    BY <1>7, <1>9, <2>1, <2>2
<1>11. \A j \in 1 .. Len(stream[g]) : ~(IsTurn(stream[g][j]) /\ stream[g][j].task = t)
  BY DEF CommitInv, EntryInv, EntryOK, IsTurn, ToLaunch
<1>12. \A j \in 1 .. Len(stream'[g]) : ~(IsTurn(stream'[g][j]) /\ stream'[g][j].task = t)
  BY <1>7, <1>10, <1>11 DEF IsTurn
<1>13. Len(stream[g]) + 1 \in 1 .. Len(stream'[g])
  BY <1>10
<1> QED
  BY <1>8, <1>10, <1>12, <1>13 DEF StreamWait

\* A message of the group itself is served, or retried.
LEMMA WaitsServed ==
    ASSUME TypeInv, PlaceInv, CommitInv, LaunchInv, RowsGrow, NEW g \in Groups, NEW type,
           Serve(g, type), CurrentMsg(g).type = type,
           NextMsg(g) \/ RetryMsg(g) \/ UNCHANGED <<rcvMsg, retryCnt>>,
           NEW d, NEW t, SlotWait(g, d, t), ~(SyncMsg(CurrentMsg(g), d) /\ retryCnt[g] = 0)
    PROVE  SlotWait(g, d, t)' /\ ~(type = "prepare" /\ CurrentMsg(g).task = t)
<1>d. SUFFICES ASSUME NEW m, m = CurrentMsg(g), NEW p, p = msgPos[g]
               PROVE  SlotWait(g, d, t)' /\ ~(type = "prepare" /\ m.task = t)
  BY <1>d
<1>1. /\ sendMsgs \in [Groups -> [Pos -> Msg]] /\ rcvMsg \in [Groups -> Msg]
      /\ retryCnt \in [Groups -> 0 .. MaxRetry + 1] /\ p \in Pos
  BY <1>d DEF TypeInv, TypeOK, AreaTypeOK, ServerTypeOK
<1>2. PICK q \in Pos :
        /\ SyncMsg(sendMsgs[g][q], d)
        /\ \A b \in Pos : InSlot(g, b) /\ sendMsgs[g][b].task = t => q < b
  BY DEF SlotWait
<1>3. /\ server = "run" /\ m.type = type
      /\ IF retryCnt[g] > 0 THEN m = rcvMsg[g] /\ sendMsgs' = sendMsgs
         ELSE m = sendMsgs[g][p] /\ sendMsgs' = [sendMsgs EXCEPT ![g][p] = NoMsg]
  BY <1>d DEF Serve, Visit, TakeMsg, CurrentMsg
<1>4. sendMsgs[g][q] # NoMsg
  BY <1>2 DEF SyncMsg, SyncOf, NoMsg
<1>5. ~(type = "prepare" /\ m.task = t)
  <2>1. CASE retryCnt[g] > 0
    BY <1>3, <2>1 DEF SlotWait, InHand
  <2>2. ASSUME ~(retryCnt[g] > 0), type = "prepare", m.task = t PROVE FALSE
    <3>1. q < msgPos[g]
      BY <1>d, <1>1, <1>2, <1>3, <2>2 DEF InSlot
    <3> QED
      BY <1>3, <1>4, <3>1, PassedSlots
  <2> QED
    BY <2>1, <2>2
<1>6. sendMsgs'[g][q] = sendMsgs[g][q]
  <2>1. CASE retryCnt[g] > 0
    BY <1>3, <2>1
  <2>2. CASE retryCnt[g] = 0
    <3>1. q # p
      BY <1>d, <1>2, <1>3, <2>2
    <3> QED
      BY <1>1, <1>3, <2>2, <3>1
  <2> QED
    BY <1>1, <2>1, <2>2
<1>7. ~(InHand(g)' /\ rcvMsg'[g].task = t)
  <2>1. CASE NextMsg(g)
    BY <1>1, <2>1 DEF NextMsg, InHand
  <2>2. CASE RetryMsg(g)
    BY <1>d, <1>1, <1>3, <1>5, <2>2 DEF RetryMsg, InHand
  <2>3. CASE UNCHANGED <<rcvMsg, retryCnt>>
    BY <2>3 DEF SlotWait, InHand
  <2> QED
    BY <2>1, <2>2, <2>3
<1>8. ASSUME NEW b \in Pos, InSlot(g, b)', sendMsgs'[g][b].task = t PROVE q < b
  <2>1. sendMsgs'[g][b] = sendMsgs[g][b]
    BY <1>1, <1>3, <1>8 DEF InSlot, NoMsg
  <2> QED
    BY <1>2, <1>8, <2>1 DEF InSlot
<1> QED
  BY <1>2, <1>5, <1>6, <1>7, <1>8, SlotStays

LEMMA WaitsHere ==
    ASSUME TypeInv, PlaceInv, CommitInv, LaunchInv, KnownInv, RowsGrow,
           UNCHANGED clientVars, Alive', NEW g \in Groups, g \in Synced, GroupServerProcess(g),
           NEW d \in 1 .. Len(tasks), NEW t, ToLaunch(t), SlotWait(g, d, t) \/ HandWait(g, d)
    PROVE  /\ (SlotWait(g, d, t) \/ HandWait(g, d) \/ StreamWait(g, d, t))'
           /\ PrepareProcess(g) => CurrentMsg(g).task # t
<1>0. rcvMsg \in [Groups -> Msg] /\ retryCnt \in [Groups -> 0 .. MaxRetry + 1] /\ RetryInv
  BY DEF TypeInv, TypeOK, ServerTypeOK, PlaceInv
<1>1. CASE \/ GroupFinish(g) \/ Finished(g) \/ InTime(g) \/ TimedOut(g) \/ RetryExceeded(g)
           \/ NoOpHandle(g)
  <2>1. UNCHANGED <<sendMsgs, retryCnt, rcvMsg>>
    BY <1>0, <1>1, OtherVisits DEF Alive
  <2>2. ~PrepareProcess(g)
    BY <1>0, <1>1 DEF PrepareProcess, Serve, RetryInv, GroupFinish, Finished, InTime, TimedOut, Idle,
       RetryExceeded, NoOpHandle, Alive
  <2> QED
    BY <2>1, <2>2, WaitsOn
<1>2. CASE SyncMsg(CurrentMsg(g), d)
  <2>1. CurrentMsg(g).type = "sync"
    BY <1>2 DEF SyncMsg, SyncOf
  <2>2. CASE InterGroupSyncProcess(g)
    BY <1>2, <2>1, <2>2, SyncEntered DEF PrepareProcess, Serve
  <2>3. CASE InterGroupSyncRetry(g)
    <3>1. retryCnt'[g] > 0 /\ rcvMsg'[g] = CurrentMsg(g)
      BY <1>0, <2>3 DEF InterGroupSyncRetry, RetryMsg
    <3>2. SyncOf(handles', rcvMsg'[g], d)
      BY <1>2, <3>1, CurrentMsgType, SyncStays
    <3> QED
      BY <2>1, <3>1, <3>2 DEF HandWait, SyncMsg, PrepareProcess, Serve
  <2> QED
    BY <1>1, <2>1, <2>2, <2>3 DEF GroupServerProcess, PrepareProcess, PrepareRetry,
       FinalizeProcess, Serve
<1>3. CASE ~SyncMsg(CurrentMsg(g), d)
  <2>1. SlotWait(g, d, t)
    BY <1>3 DEF HandWait, CurrentMsg
  <2>2. CASE PrepareProcess(g)
    <3>1. Serve(g, "prepare") /\ CurrentMsg(g).type = "prepare" /\ NextMsg(g)
      BY <2>2 DEF PrepareProcess, Serve
    <3> QED
      BY <1>3, <2>1, <3>1, WaitsServed
  <2>3. CASE PrepareRetry(g) \/ InterGroupSyncRetry(g)
    <3>1. PICK type : Serve(g, type) /\ CurrentMsg(g).type = type /\ RetryMsg(g)
      BY <2>3 DEF PrepareRetry, InterGroupSyncRetry, Serve
    <3>2. PrepareProcess(g) => type = "prepare"
      BY <3>1 DEF PrepareProcess, Serve
    <3> QED
      BY <1>3, <2>1, <3>1, <3>2, WaitsServed
  <2>4. CASE InterGroupSyncProcess(g)
    <3>1. Serve(g, "sync") /\ CurrentMsg(g).type = "sync" /\ NextMsg(g)
      BY <2>4 DEF InterGroupSyncProcess, Serve
    <3> QED
      BY <1>3, <2>1, <3>1, WaitsServed DEF PrepareProcess, Serve
  <2>5. CASE FinalizeProcess(g)
    <3>1. /\ Serve(g, "finalize") /\ CurrentMsg(g).type = "finalize"
          /\ UNCHANGED <<rcvMsg, retryCnt>>
      BY <2>5 DEF FinalizeProcess, Serve
    <3> QED
      BY <1>3, <2>1, <3>1, WaitsServed DEF PrepareProcess, Serve
  <2> QED
    BY <1>1, <2>2, <2>3, <2>4, <2>5 DEF GroupServerProcess
<1> QED
  BY <1>2, <1>3

LEMMA WaitsRestart ==
    ASSUME TypeInv, PlaceInv, RowsGrow, RestartServer, NEW g \in Groups, NEW d, NEW t,
           SlotWait(g, d, t) \/ HandWait(g, d)
    PROVE  SlotWait(g, d, t)'
<1>1. sendMsgs' = sendMsgs /\ retryCnt'[g] = 0 /\ server = "exit"
  BY DEF RestartServer, areaVars, FreshServer, PerGroup
<1>2. SlotWait(g, d, t)
  BY <1>1 DEF HandWait, PlaceInv, RetryInv
<1>3. PICK q \in Pos :
        /\ SyncMsg(sendMsgs[g][q], d)
        /\ \A p \in Pos : InSlot(g, p) /\ sendMsgs[g][p].task = t => q < p
  BY <1>2 DEF SlotWait
<1>4. ~(InHand(g)' /\ rcvMsg'[g].task = t)
  BY <1>1 DEF InHand
<1>5. \A p \in Pos : InSlot(g, p)' /\ sendMsgs'[g][p].task = t => q < p
  BY <1>1, <1>3 DEF InSlot
<1> QED
  BY <1>1, <1>3, <1>4, <1>5, SlotStays

\* What waits in a message to wait for d goes on to do so, or waits in the stream.
LEMMA WaitsStep ==
    ASSUME TypeInv, PlaceInv, CommitInv, LaunchInv, KnownInv, RowsGrow, [Next]_vars, Alive',
           NEW g \in Groups, g \in Synced, NEW d \in 1 .. Len(tasks), NEW t, ToLaunch(t),
           SlotWait(g, d, t) \/ HandWait(g, d)
    PROVE  (SlotWait(g, d, t) \/ HandWait(g, d) \/ StreamWait(g, d, t))'
<1>1. CASE UNCHANGED <<sendMsgs, serverVars>>
  BY <1>1, WaitsOn DEF serverVars
<1>2. CASE ClientNext
  BY <1>2, AliveBefore, WaitsClient
<1>3. CASE ServerNext
  <2>1. UNCHANGED clientVars
    BY <1>3 DEF ServerNext
  <2>2. CASE RestartServer
    BY <2>2, WaitsRestart
  <2>3. ASSUME NEW g2 \in Groups, GroupServerProcess(g2)
        PROVE  (SlotWait(g, d, t) \/ HandWait(g, d) \/ StreamWait(g, d, t))'
    <3>1. CASE g2 = g
      BY <2>1, <2>3, <3>1, WaitsHere
    <3>2. CASE g2 # g
      <4>1. g \in Groups \ {g2}
        BY <3>2
      <4> QED
        BY <2>3, <4>1, WaitsElsewhere
    <3> QED
      BY <3>1, <3>2
  <2> QED
    BY <1>3, <2>2, <2>3 DEF ServerNext
<1>4. CASE (\E g2 \in Groups : StreamNext(g2)) \/ UNCHANGED vars
  <2>1. UNCHANGED <<sendMsgs, serverVars>>
    BY <1>4 DEF StreamNext, WaitCommit, WaitFinish, RunKernel, PostFinish, Execute, vars, areaVars
  <2> QED
    BY <1>1, <2>1
<1> QED
  BY <1>2, <1>3, <1>4 DEF Next, Terminated

LEMMA LaunchesOther ==
    ASSUME TypeInv, PlaceInv, CommitInv, LaunchInv, KnownInv, RowsGrow,
           NEW g2 \in Groups, PrepareProcess(g2), UNCHANGED clientVars,
           NEW g \in Groups, g \in Synced, NEW d \in 1 .. Len(tasks), NEW t, ToLaunch(t),
           t \in 1 .. Len(tasks) => tasks[t].group = g, SlotWait(g, d, t) \/ HandWait(g, d)
    PROVE  CurrentMsg(g2).task # t
<1>1. CASE g2 = g
  <2>1. Alive' /\ GroupServerProcess(g)
    BY <1>1 DEF PrepareProcess, Serve, Visit, Alive, GroupServerProcess
  <2> QED
    BY <1>1, <2>1, WaitsHere
<1>2. CASE g2 # g
  <2>1. PICK p, m, u, sqes : Processed(g2, p, m, u, sqes)
    BY PrepareProcessed
  <2>2. /\ m = CurrentMsg(g2) /\ u = m.task /\ u \in 1 .. Len(tasks)
        /\ tasks[u].group = g2
    BY <2>1 DEF Processed, NotLaunched, At
  <2> QED
    BY <1>2, <2>2
<1> QED
  BY <1>1, <1>2

\* The streams: an entry that waits for a task goes on to do so until it is over.
LEMMA StreamSteps ==
    ASSUME TypeInv, CommitInv, [Next]_vars
    PROVE  \/ UNCHANGED stream
           \/ \E g \in Groups : Dropped(g) /\ StreamNext(g)
           \/ \E g \in Groups, sqes \in Seq(Sqe) : Added(g, sqes)
<1>1. CASE ClientNext \/ UNCHANGED vars
  BY <1>1 DEF ClientNext, vars
<1>2. ASSUME NEW g \in Groups, StreamNext(g) PROVE Dropped(g)
  BY <1>2 DEF StreamNext, WaitCommit, WaitFinish, RunKernel, PostFinish, Execute, Dropped
<1>3. CASE ServerNext
  <2>0. UNCHANGED clientVars
    BY <1>3 DEF ServerNext
  <2>1. CASE RestartServer
    BY <2>1 DEF RestartServer
  <2>2. ASSUME NEW g \in Groups, GroupServerProcess(g)
        PROVE  UNCHANGED stream \/ \E g2 \in Groups, sqes \in Seq(Sqe) : Added(g2, sqes)
    <3>1. CASE PrepareProcess(g)
      BY <2>0, <3>1, PrepareProcessed DEF Processed
    <3>2. CASE InterGroupSyncProcess(g)
      <4>1. PICK s \in SyncStreams(g) : Enqueue(s, <<SyncSqe(CurrentMsg(g))>>)
        BY <3>2 DEF InterGroupSyncProcess
      <4>2. CurrentMsg(g) \in Msg /\ SyncKnown(CurrentMsg(g))
        BY <3>2, CurrentMsgType DEF InterGroupSyncProcess
      <4>3. SyncSqe(CurrentMsg(g)) \in Sqe
        <5> SUFFICES ASSUME NEW m \in Msg, SyncKnown(m) PROVE SyncSqe(m) \in Sqe
          BY <4>2
        <5>1. m.dep \in Groups /\ m.handle \in Handles
          BY DEF Msg
        <5>2. /\ handleToMsgPos[m.dep][m.handle] \in Pos
              /\ handleToRepeat[m.dep][m.handle] \in Nat
          BY <5>1 DEF SyncKnown, TypeInv, TypeOK, ServerTypeOK, LinksOK
        <5> QED
          BY <5>1, <5>2 DEF SyncSqe, Sqe, SqeTypes
      <4>4. s \in Groups
        BY DEF SyncStreams
      <4>5. <<SyncSqe(CurrentMsg(g))>> \in Seq(Sqe)
        BY <4>3
      <4> QED
        BY <4>1, <4>4, <4>5 DEF Enqueue, Added
    <3>3. CASE \/ PrepareRetry(g) \/ InterGroupSyncRetry(g) \/ FinalizeProcess(g)
               \/ GroupFinish(g) \/ Finished(g) \/ InTime(g) \/ TimedOut(g) \/ RetryExceeded(g)
               \/ NoOpHandle(g)
      BY <3>3 DEF PrepareRetry, InterGroupSyncRetry, RetryMsg, FinalizeProcess, GroupFinish,
         Finished, InTime, TimedOut, RetryExceeded, NoOpHandle, OtherServerVars
    <3> QED
      BY <2>2, <3>1, <3>2, <3>3 DEF GroupServerProcess
  <2> QED
    BY <1>3, <2>1, <2>2 DEF ServerNext
<1> QED
  BY <1>1, <1>2, <1>3 DEF Next, Terminated

LEMMA EntryStays ==
    ASSUME TypeInv, RowsGrow, TasksGrow, NEW e \in Sqe, NEW d \in 1 .. Len(tasks),
           SyncEntry(e, d)
    PROVE  EntryOf(handles', tasks'[d].repeat, e, d)
<1>1. e.group \in Groups /\ tasks'[d].repeat = tasks[d].repeat
  BY DEF Sqe, TasksGrow
<1> QED
  BY <1>1 DEF SyncEntry, EntryOf, RowsGrow

LEMMA WaitsInStream ==
    ASSUME TypeInv, TypeInv', CommitInv, TurnsInv', RowCountInv, RowsGrow, TasksGrow, [Next]_vars,
           NEW g \in Groups, NEW d \in 1 .. Len(tasks), NEW t,
           StreamWait(g, d, t)
    PROVE  Over(d)' \/ StreamWait(g, d, t)'
<1>1. PICK k \in 1 .. Len(stream[g]) :
        /\ SyncEntry(stream[g][k], d)
        /\ \A j \in 1 .. Len(stream[g]) : IsTurn(stream[g][j]) /\ stream[g][j].task = t => k < j
  BY DEF StreamWait
<1>2. Len(stream[g]) \in Nat /\ stream[g][k] \in Sqe
  BY EntryFacts
<1>3. EntryOf(handles', tasks'[d].repeat, stream[g][k], d)
  BY <1>1, <1>2, EntryStays
<1>4. CASE stream'[g] = stream[g]
  BY <1>1, <1>3, <1>4 DEF StreamWait, SyncEntry
<1>5. CASE Dropped(g) /\ StreamNext(g)
  <2>1. /\ Head(stream[g]) = stream[g][1] /\ Len(stream'[g]) = Len(stream[g]) - 1
        /\ \A j \in 1 .. Len(stream'[g]) :
             j + 1 \in 1 .. Len(stream[g]) /\ stream'[g][j] = stream[g][j + 1]
    BY <1>5, DroppedEntries
  <2>2. CASE k > 1
    <3>1. k - 1 \in 1 .. Len(stream'[g]) /\ (k - 1) + 1 = k
      BY <1>2, <2>1, <2>2
    <3>2. stream'[g][k - 1] = stream[g][k]
      BY <2>1, <3>1
    <3>3. \A j \in 1 .. Len(stream'[g]) :
            IsTurn(stream'[g][j]) /\ stream'[g][j].task = t => k - 1 < j
      BY <1>1, <2>1
    <3> QED
      BY <1>3, <3>1, <3>2, <3>3 DEF StreamWait, SyncEntry
  <2>3. CASE k = 1
    <3>d. SUFFICES ASSUME NEW e, e = stream[g][1], NEW c, c = finishedTurnCnt[e.group][e.pos]
                   PROVE  Over(d)'
      OBVIOUS
    <3>1. e.type = "waitFinish" /\ tasks[d].repeat <= e.val /\ e.group \in Groups /\ e.pos \in Pos
      BY <1>1, <1>2, <2>3, <3>d DEF SyncEntry, EntryOf, Sqe
    <3>2. LoadHalf(c) >= e.val /\ UNCHANGED tasks
      BY <1>5, <2>1, <3>d, <3>1 DEF StreamNext, WaitCommit, WaitFinish, RunKernel, PostFinish,
         Execute, CounterReached
    <3>3. c \in Nat
      BY <3>d, <3>1, CountFacts
    <3>4. LoadHalf(c) <= c
      BY <3>3 DEF LoadHalf, Half
    <3>5. PICK i \in 1 .. Len(handles[e.group]) :
            handles[e.group][i].task = d /\ handles[e.group][i].pos = e.pos
      BY <1>1, <2>3, <3>d DEF SyncEntry, EntryOf
    <3>6. c <= tasks[d].executed
      BY <3>d, <3>1, <3>5 DEF RowCountInv, RowCount
    <3>7. LoadHalf(c) \in Nat /\ e.val \in Nat /\ tasks[d].repeat \in Nat /\ tasks[d].executed \in Nat
      <4>1. LoadHalf(c) \in Nat
        BY <3>3 DEF LoadHalf, Half
      <4> QED
        BY <1>2, <2>3, <3>d, <4>1, TaskFacts DEF Sqe
    <3>8. tasks'[d].executed >= tasks[d].repeat
      BY <3>1, <3>2, <3>3, <3>4, <3>6, <3>7
    <3> QED
      BY <3>8, OverGoes
  <2> QED
    BY <1>2, <2>2, <2>3
<1>6. ASSUME NEW sqes \in Seq(Sqe), Added(g, sqes) PROVE StreamWait(g, d, t)'
  <2>1. /\ Len(stream'[g]) = Len(stream[g]) + Len(sqes) /\ Len(sqes) \in Nat
        /\ \A j \in 1 .. Len(stream[g]) : j \in 1 .. Len(stream'[g]) /\ stream'[g][j] = stream[g][j]
    BY <1>6, AddedEntries
  <2>2. ASSUME NEW j \in 1 .. Len(stream'[g]), IsTurn(stream'[g][j]), stream'[g][j].task = t
        PROVE  k < j
    <3>1. CASE j \in 1 .. Len(stream[g])
      BY <1>1, <2>1, <2>2, <3>1
    <3>2. CASE j > Len(stream[g])
      BY <1>2, <3>2
    <3> QED
      BY <1>2, <3>1, <3>2
  <2>3. k \in 1 .. Len(stream'[g]) /\ stream'[g][k] = stream[g][k]
    BY <2>1
  <2> QED
    BY <1>3, <2>2, <2>3 DEF StreamWait, SyncEntry
<1> QED
  <2>1. ASSUME NEW g2 \in Groups, g2 # g, Dropped(g2) \/ \E sqes \in Seq(Sqe) : Added(g2, sqes)
        PROVE  stream'[g] = stream[g]
    BY <2>1 DEF Dropped, Added, TypeInv, TypeOK
  <2> QED
    BY <1>4, <1>5, <1>6, <2>1, StreamSteps

LEMMA AheadStep ==
    ASSUME Careful, TypeInv, TypeInv', PlaceInv, CommitInv, TurnsInv', FinishInv,
           LastInv, KnownInv, [Next]_vars, NEW g \in Groups, NEW d \in 1 .. Len(tasks), NEW t,
           t \in 1 .. Len(tasks) => tasks[t].group = g, Ahead(g, d, t)
    PROVE  Ahead(g, d, t)'
<1> SUFFICES ASSUME g \in Synced PROVE Ahead(g, d, t)'
  BY DEF Ahead
<1>0. TasksGrow /\ LaunchInv /\ RowCountInv
  BY GrowStep DEF FinishInv
<1>1. CASE Over(d)
  BY <1>0, <1>1, OverStays DEF Ahead
<1>2. CASE NextLaunch /\ UNCHANGED <<serverVars, stream>>
  <2>1. Over(d)
    BY <1>2, LaunchOver
  <2> QED
    BY <1>1, <2>1
<1>3. CASE RowsGrow /\ StreamWait(g, d, t)
  BY <1>0, <1>3, WaitsInStream DEF Ahead
<1>4. CASE RowsGrow /\ ToLaunch(t) /\ (Alive => SlotWait(g, d, t) \/ HandWait(g, d))
  <2>1. Alive' => (SlotWait(g, d, t) \/ HandWait(g, d) \/ StreamWait(g, d, t))'
    <3> SUFFICES ASSUME Alive'
                 PROVE  (SlotWait(g, d, t) \/ HandWait(g, d) \/ StreamWait(g, d, t))'
      OBVIOUS
    <3>1. Alive
      BY AliveBefore
    <3> QED
      BY <1>0, <1>4, <3>1, WaitsStep
  <2>2. ToLaunch(t)'
    <3>1. CASE Calm
      BY <1>4, <3>1 DEF ToLaunch, Calm
    <3>2. CASE SendPrepare /\ UNCHANGED <<serverVars, stream>>
      <4>1. PICK g2, p, m, u, hd : Prepared(g2, p, m, u, hd)
        BY <3>2, SendPrepared
      <4>2. /\ u = Len(tasks) + 1 /\ Len(tasks') = u /\ ~tasks'[u].launched
            /\ \A w \in 1 .. Len(tasks) : tasks'[w] = tasks[w]
        BY <4>1 DEF Prepared
      <4>3. ASSUME t \in 1 .. Len(tasks') PROVE t = u \/ t \in 1 .. Len(tasks)
        BY <4>2, <4>3, TaskFacts
      <4> QED
        BY <1>4, <4>2, <4>3 DEF ToLaunch
    <3>3. CASE NextLaunch
      BY <1>4, <3>3 DEF NextLaunch, ToLaunch
    <3>4. ASSUME NEW g2 \in Groups, PrepareProcess(g2), UNCHANGED clientVars
          PROVE  ToLaunch(t)'
      <4>1. Alive
        BY <3>4 DEF PrepareProcess, Serve, Visit, Alive
      <4>2. CurrentMsg(g2).task # t
        BY <1>0, <1>4, <3>4, <4>1, LaunchesOther
      <4>3. PICK p, m, u, sqes : Processed(g2, p, m, u, sqes)
        BY <3>4, PrepareProcessed
      <4>4. /\ u # t /\ Len(tasks') = Len(tasks)
            /\ \A w \in 1 .. Len(tasks) : w # u => tasks'[w] = tasks[w]
        BY <4>2, <4>3 DEF Processed
      <4> QED
        BY <1>4, <4>4 DEF ToLaunch
    <3> QED
      BY <3>1, <3>2, <3>3, <3>4, CalmSteps
  <2> QED
    BY <2>1, <2>2 DEF Ahead
<1> QED
  BY <1>1, <1>2, <1>3, <1>4, RowsStep DEF Ahead

\* No message and no entry is that of a task yet to be issued.
LEMMA AheadNew ==
    ASSUME TypeInv, EntryInv, NEW g \in Groups, NEW d, NEW n \in Nat, n > Len(tasks),
           NEW t, Ahead(g, d, t), t = Len(tasks) + 1
    PROVE  Ahead(g, d, n)
<1>1. Len(tasks) \in Nat /\ n \notin 1 .. Len(tasks)
  BY TaskFacts
<1>2. StreamWait(g, d, t) => StreamWait(g, d, n)
  <2>1. \A j \in 1 .. Len(stream[g]) : ~(IsTurn(stream[g][j]) /\ stream[g][j].task = n)
    BY <1>1 DEF EntryInv, EntryOK, IsTurn
  <2> QED
    BY <2>1 DEF StreamWait
<1>3. SlotWait(g, d, t) => SlotWait(g, d, n)
  <2>1. \A p \in Pos : ~(InSlot(g, p) /\ sendMsgs[g][p].task = n)
    BY <1>1, SlotFacts
  <2>2. ~(InHand(g) /\ rcvMsg[g].task = n)
    BY <1>1, SlotFacts
  <2> QED
    BY <2>1, <2>2 DEF SlotWait
<1>4. ToLaunch(n)
  BY <1>1 DEF ToLaunch
<1> QED
  BY <1>2, <1>3, <1>4 DEF Ahead

LEMMA DepSteps ==
    ASSUME [Next]_vars
    PROVE  \/ UNCHANGED deps
           \/ SendSync /\ UNCHANGED <<serverVars, stream>>
           \/ NextLaunch
<1>1. CASE ClientNext
  BY <1>1 DEF ClientNext, CallApi, ContinueCall, Prepare, PrepareRefused, InterHcclGroupSync, Commit,
     Wait, Finalize, SendExt, SendPrepare, SendFinalize, CommitWrite, WaitReturn, FinalizeQueried,
     FinalizeDone
<1>2. CASE ServerNext \/ (\E g \in Groups : StreamNext(g)) \/ UNCHANGED vars
  BY <1>2 DEF ServerNext, StreamNext, WaitCommit, WaitFinish, RunKernel, PostFinish, Execute,
              vars, clientVars
<1> QED
  BY <1>1, <1>2 DEF Next, Terminated

\* InterHcclGroupSync: the message for the task waits in the slot it was put in.
LEMMA SyncSent ==
    ASSUME TypeInv, RowsGrow, SendSync, UNCHANGED serverVars, NEW g, g = call.group,
           NEW m, m = call.msg, NEW d, d = handles[m.dep][m.handle + 1].task,
           NEW t, t = Len(tasks) + 1
    PROVE  d \in 1 .. Len(tasks) /\ SlotWait(g, d, t)'
<1>1. /\ g \in Groups /\ m \in Msg /\ m.type = "sync" /\ pc = "send"
      /\ sendMsgs' = [sendMsgs EXCEPT ![g][curMsgPosition[g]] = m]
      /\ m.handle < Len(handles[m.dep])
  BY DEF SendSync, PutMsg, TypeInv, TypeOK, ClientTypeOK, Call, CallOK
<1>2. m.dep \in Groups /\ m.handle \in Nat
  BY <1>1, ConstantFacts DEF Msg
<1>3. m.handle + 1 \in 1 .. Len(handles[m.dep])
  BY <1>1, <1>2, RowFacts
<1>4. d \in 1 .. Len(tasks)
  BY <1>2, <1>3, RowFacts
<1>5. SyncMsg(m, d)
  BY <1>1, <1>2, <1>3 DEF SyncMsg, SyncOf, RowOf
<1>6. SyncOf(handles', m, d)
  BY <1>1, <1>5, SyncStays
<1>7. curMsgPosition[g] \in Pos /\ sendMsgs \in [Groups -> [Pos -> Msg]]
  <2>1. curMsgPosition[g] < MsgCnt
    BY <1>1 DEF TypeInv, CallOK
  <2>2. curMsgPosition[g] \in 0 .. MsgCnt /\ MsgCnt \in Nat
    BY <1>1, PlaceTypes
  <2> QED
    BY <2>1, <2>2 DEF Pos, TypeInv, TypeOK, AreaTypeOK
<1>8. Len(tasks) \in Nat
  BY TaskFacts
<1>9. ~(InHand(g)' /\ rcvMsg'[g].task = t)
  <2>1. ~(InHand(g) /\ rcvMsg[g].task = t)
    BY <1>1, <1>8, SlotFacts
  <2> QED
    BY <2>1 DEF InHand, serverVars
<1>10. ASSUME NEW p \in Pos, InSlot(g, p)', sendMsgs'[g][p].task = t PROVE FALSE
  <2>1. sendMsgs'[g][p] = m \/ sendMsgs'[g][p] = sendMsgs[g][p]
    BY <1>1, <1>7
  <2>2. InSlot(g, p) /\ sendMsgs[g][p].task = t
    BY <1>1, <1>10, <2>1 DEF InSlot
  <2> QED
    BY <1>1, <1>8, <2>2, SlotFacts
<1>11. sendMsgs'[g][curMsgPosition[g]] = m
  BY <1>1, <1>7
<1> QED
  BY <1>4, <1>6, <1>7, <1>9, <1>10, <1>11 DEF SlotWait, SyncMsg

LEMMA DepStep ==
    ASSUME Careful, TypeInv, TypeInv', PlaceInv, CommitInv, TurnsInv', FinishInv,
           LastInv, KnownInv, DepInv, [Next]_vars
    PROVE  DepInv'
<1>0. TasksGrow /\ Len(tasks) \in Nat /\ EntryInv
  BY GrowStep, TaskFacts DEF CommitInv
<1>1. ASSUME NEW g \in Groups, NEW d \in deps[g], NEW n \in Nat, n > Len(tasks)
      PROVE  d \in 1 .. Len(tasks) /\ Ahead(g, d, n)'
  <2>1. d \in 1 .. Len(tasks) /\ Ahead(g, d, Len(tasks) + 1)
    BY DEF DepInv
  <2>2. Ahead(g, d, n)
    BY <1>0, <1>1, <2>1, AheadNew
  <2>3. n \notin 1 .. Len(tasks)
    BY <1>0, <1>1
  <2> QED
    BY <2>1, <2>2, <2>3, AheadStep
<1>2. ASSUME NEW t \in 1 .. Len(tasks), NEW d \in tasks[t].deps,
             NEW g \in Groups, g = tasks[t].group
      PROVE  d \in 1 .. Len(tasks) /\ Ahead(g, d, t)'
  <2>1. d \in 1 .. Len(tasks) /\ Ahead(g, d, t)
    BY <1>2 DEF DepInv
  <2> QED
    BY <1>2, <2>1, AheadStep
<1>3. ASSUME NEW t \in 1 .. Len(tasks), NEW d \in tasks'[t].deps
      PROVE  d \in 1 .. Len(tasks') /\ \A g \in Groups : g = tasks'[t].group => Ahead(g, d, t)'
  <2>1. /\ tasks'[t].deps = tasks[t].deps /\ tasks'[t].group = tasks[t].group
        /\ Len(tasks) <= Len(tasks') /\ Len(tasks') \in Nat
    <3>1. Len(tasks') \in Nat
      <4>1. tasks' \in Seq(Task)
        BY DEF TypeInv, TypeOK
      <4> QED
        BY <4>1, LenProperties
    <3> QED
      BY <1>0, <3>1 DEF TasksGrow
  <2>2. tasks[t].group \in Groups
    BY TaskFacts
  <2> QED
    BY <1>0, <1>2, <2>1, <2>2
<1>4. CASE SendPrepare /\ UNCHANGED <<serverVars, stream>>
  <2>1. PICK g, p, m, u, hd : Prepared(g, p, m, u, hd)
    BY <1>4, SendPrepared
  <2>2. /\ g \in Groups /\ u = Len(tasks) + 1 /\ Len(tasks') = u
        /\ tasks'[u].deps = deps[g] /\ tasks'[u].group = g /\ deps' = deps
    BY <2>1 DEF Prepared, Issued
  <2>3. ASSUME NEW t \in 1 .. Len(tasks'), NEW d \in tasks'[t].deps
        PROVE  d \in 1 .. Len(tasks') /\ \A g2 \in Groups : g2 = tasks'[t].group => Ahead(g2, d, t)'
    <3>1. CASE t = u
      <4>1. d \in 1 .. Len(tasks) /\ Ahead(g, d, t)'
        BY <1>0, <1>1, <2>2, <2>3, <3>1
      <4> QED
        BY <1>0, <2>2, <3>1, <4>1
    <3>2. CASE t # u
      <4>1. t \in 1 .. Len(tasks)
        BY <1>0, <2>2, <3>2
      <4> QED
        BY <1>3, <4>1
    <3> QED
      BY <3>1, <3>2
  <2>4. ASSUME NEW g2 \in Groups, NEW d \in deps'[g2]
        PROVE  d \in 1 .. Len(tasks') /\ Ahead(g2, d, Len(tasks) + 1)'
    <3>1. \A n \in Nat : n > Len(tasks) => d \in 1 .. Len(tasks) /\ Ahead(g2, d, n)'
      BY <1>1, <2>2
    <3>2. d \in 1 .. Len(tasks') /\ \A n \in Nat : n = Len(tasks') + 1 => Ahead(g2, d, n)'
      BY <1>0, <2>2, <3>1
    <3>3. Len(tasks') + 1 \in Nat
      BY <1>0, <2>2
    <3> QED
      BY <3>2, <3>3
  <2> QED
    BY <2>3, <2>4 DEF DepInv
<1>5. CASE Len(tasks') = Len(tasks)
  <2>1. ASSUME NEW g \in Groups, NEW d \in deps[g]
        PROVE  d \in 1 .. Len(tasks') /\ Ahead(g, d, Len(tasks) + 1)'
    <3>1. d \in 1 .. Len(tasks') /\ \A n \in Nat : n = Len(tasks') + 1 => Ahead(g, d, n)'
      BY <1>0, <1>1, <1>5
    <3>2. Len(tasks') + 1 \in Nat
      BY <1>0, <1>5
    <3> QED
      BY <3>1, <3>2
  <2>2. ASSUME NEW g \in Groups, NEW d \in deps'[g]
        PROVE  d \in 1 .. Len(tasks') /\ Ahead(g, d, Len(tasks) + 1)'
    <3>1. CASE UNCHANGED deps
      BY <2>1, <2>2, <3>1
    <3>2. CASE NextLaunch
      BY <2>2, <3>2 DEF NextLaunch, PerGroup
    <3>3. CASE SendSync /\ UNCHANGED <<serverVars, stream>>
      <4>d. SUFFICES ASSUME NEW c, c = call.group, NEW m, m = call.msg,
                            NEW w, w = handles[m.dep][m.handle + 1].task
                     PROVE  d \in 1 .. Len(tasks') /\ Ahead(g, d, Len(tasks) + 1)'
        OBVIOUS
      <4>1. c \in Groups /\ deps' = [deps EXCEPT ![c] = @ \cup {w}]
        BY <3>3, <4>d DEF SendSync, TypeInv, TypeOK, ClientTypeOK, Call
      <4>2. d \in deps[g] \/ (g = c /\ d = w)
        BY <2>2, <4>1 DEF TypeInv, TypeOK, ClientTypeOK
      <4>3. CASE g = c /\ d = w
        <5>1. ~NextLaunch /\ UNCHANGED serverVars
          BY <3>3 DEF SendSync, PutMsg, NextLaunch
        <5>2. RowsGrow
          BY <5>1, RowsStep
        <5>3. \A n : n = Len(tasks) + 1 => w \in 1 .. Len(tasks) /\ SlotWait(c, w, n)'
          BY <3>3, <4>d, <5>1, <5>2, SyncSent
        <5>4. \A n \in Nat : n = Len(tasks') + 1 => SlotWait(g, d, n)'
          BY <1>5, <4>3, <5>3
        <5>5. \A n \in Nat : n = Len(tasks') + 1 => Ahead(g, d, n)'
          BY <5>4 DEF Ahead, ToLaunch
        <5>6. Len(tasks') + 1 \in Nat /\ d \in 1 .. Len(tasks')
          BY <1>0, <1>5, <4>3, <5>3
        <5> QED
          BY <5>5, <5>6
      <4> QED
        BY <2>1, <4>2, <4>3
    <3> QED
      BY <3>1, <3>2, <3>3, DepSteps
  <2> QED
    BY <1>3, <1>5, <2>2 DEF DepInv
<1>6. Len(tasks') = Len(tasks) \/ (SendPrepare /\ UNCHANGED <<serverVars, stream>>)
  BY CalmSteps, PrepareProcessed DEF Calm, NextLaunch, Processed
<1> QED
  BY <1>4, <1>5, <1>6

----------------------------------------------------------------------------
(* The channel is the API: each step of it is one of KfcTasks, or none.      *)

LEMMA PrepareIssues ==
    ASSUME TypeInv, TypeInv', DepInv, SendPrepare, UNCHANGED <<serverVars, stream>>
    PROVE  Kept!Issue
<1>1. PICK g, p, m, u, hd : Prepared(g, p, m, u, hd)
  BY SendPrepared
<1>2. /\ g \in Groups /\ Len(tasks') = u /\ u = Len(tasks) + 1 /\ tasks'[u].repeat = hd.repeat
      /\ tasks' = Append(tasks, Kept!NewTask(g, hd.repeat, deps[g]))
  BY <1>1 DEF Prepared, Issued, Api!NewTask, Kept!NewTask
<1>3. hd.repeat \in Repeats
  <2>1. tasks' \in Seq(Task) /\ u \in 1 .. Len(tasks')
    BY <1>2, TaskFacts DEF TypeInv, TypeOK
  <2>2. tasks'[u] \in Task
    BY <2>1, ElementOfSeq
  <2> QED
    BY <1>2, <2>2 DEF Task
<1>4. deps[g] \in SUBSET Kept!TaskIds
  BY <1>2 DEF DepInv, Kept!TaskIds
<1> QED
  BY <1>2, <1>3, <1>4 DEF Kept!Issue

LEMMA WriteCommits ==
    ASSUME TypeInv, TableInv, CommitWrite
    PROVE  \E t \in 1 .. Len(tasks) : Kept!Commit(t)
<1>d. SUFFICES ASSUME NEW g, g = call.group, NEW i, i = call.handle + 1,
                      NEW hd, hd = handles[g][i], NEW t, t = hd.task
               PROVE  \E w \in 1 .. Len(tasks) : Kept!Commit(w)
  OBVIOUS
<1>1. /\ g \in Groups /\ i \in 1 .. Len(handles[g]) /\ hd \in Handle /\ t \in 1 .. Len(tasks)
      /\ tasks[t] \in Task /\ Committing(g, i)
      /\ tasks' = [tasks EXCEPT ![t].committed = hd.commit]
  BY <1>d, CallTask DEF CommitWrite, Committing
<1>2. /\ tasks[t].committed < hd.commit /\ hd.commit <= tasks[t].repeat
      /\ hd.commit \in Nat /\ tasks[t].committed \in Nat /\ tasks[t].repeat \in Nat
  <2>1. /\ tasks[t].committed < hd.commit /\ hd.commit <= hd.repeat
        /\ hd.repeat = tasks[t].repeat
    <3>1. \A k \in 1 .. Len(handles[g]) :
            LET row == handles[g][k]
            IN /\ tasks[row.task].repeat = row.repeat /\ row.commit <= row.repeat
               /\ Committing(g, k) => tasks[row.task].committed < row.commit
      BY <1>1 DEF TableInv
    <3> QED
      BY <1>d, <1>1, <3>1
  <2>2. hd.commit \in Nat /\ tasks[t].committed \in Nat /\ tasks[t].repeat \in Nat
    BY <1>1, TaskFacts DEF Handle
  <2> QED
    BY <2>1, <2>2
<1>d2. SUFFICES ASSUME NEW n, n = hd.commit - tasks[t].committed
                PROVE  \E w \in 1 .. Len(tasks) : Kept!Commit(w)
  OBVIOUS
<1>3. n \in 1 .. tasks[t].repeat - tasks[t].committed /\ tasks[t].committed + n = hd.commit
  BY <1>2, <1>d2
<1>4. [tasks EXCEPT ![t].committed = hd.commit] = [tasks EXCEPT ![t].committed = @ + n]
  BY <1>3
<1> QED
  BY <1>1, <1>3, <1>4 DEF Kept!Commit

LEMMA ReturnObserves ==
    ASSUME TypeInv, RowCountInv, WaitInv, WaitReturn
    PROVE  \E t \in 1 .. Len(tasks) : Kept!Observe(t)
<1>d. SUFFICES ASSUME NEW g, g = call.group, NEW i, i = call.handle + 1,
                      NEW hd, hd = handles[g][i], NEW t, t = hd.task
               PROVE  \E w \in 1 .. Len(tasks) : Kept!Observe(w)
  OBVIOUS
<1>1. /\ g \in Groups /\ i \in 1 .. Len(handles[g]) /\ hd \in Handle /\ t \in 1 .. Len(tasks)
      /\ InWait(g, i) /\ finishedTurnCnt[g][hd.pos] >= hd.wait
      /\ tasks' = [tasks EXCEPT ![t].observed = hd.wait]
  BY <1>d, CallTask DEF WaitReturn, InWait, TurnsFinished
<1>2. hd.wait = tasks[t].observed + 1
  BY <1>d, <1>1 DEF WaitInv, RowWait
<1>3. finishedTurnCnt[g][hd.pos] <= tasks[t].executed
  BY <1>d, <1>1 DEF RowCountInv, RowCount
<1>4. /\ tasks[t].observed \in Nat /\ tasks[t].executed \in Nat
      /\ finishedTurnCnt[g][hd.pos] \in Nat
  <2>1. tasks[t] \in Task /\ hd.pos \in Pos
    BY <1>1, TaskFacts DEF Handle
  <2> QED
    BY <1>1, <2>1, CountFacts DEF Task
<1>5. tasks[t].observed < tasks[t].executed
  BY <1>1, <1>2, <1>3, <1>4
<1>6. [tasks EXCEPT ![t].observed = hd.wait] = [tasks EXCEPT ![t].observed = @ + 1]
  BY <1>2
<1> QED
  BY <1>1, <1>5, <1>6 DEF Kept!Observe

LEMMA ProcessIsLaunch ==
    ASSUME TypeInv, PlaceInv, CommitInv, LaunchInv, NumberInv, UNCHANGED clientVars,
           NEW g \in Groups, PrepareProcess(g)
    PROVE  \E t \in 1 .. Len(tasks) : Kept!Launch(t)
<1>1. PICK p, m, t, sqes : Processed(g, p, m, t, sqes)
  BY PrepareProcessed
<1>2. Alive /\ MessagesCome
  BY ServedCome DEF PrepareProcess, Serve, Visit, Alive
<1>3. PICK b \in 0 .. Len(tasks) : Numbering(b)
  BY <1>2 DEF NumberInv
<1>4. \A w \in 1 .. Len(tasks) : w < t => tasks[w].launched
  BY <1>1, <1>2, <1>3, NumberProcess
<1>5. /\ t \in 1 .. Len(tasks) /\ ~tasks[t].launched
      /\ tasks' = [tasks EXCEPT ![t].launched = TRUE]
  BY <1>1 DEF Processed, NotLaunched
<1>6. \A w \in 1 .. t - 1 : w \in 1 .. Len(tasks) /\ w < t
  BY <1>5, TaskFacts
<1> QED
  BY <1>4, <1>5, <1>6 DEF Kept!Launch

LEMMA KernelExecutes ==
    ASSUME TypeInv, CommitInv, FinishInv, LastInv, DepInv, NEW g \in Groups, RunKernel(g)
    PROVE  \E t \in 1 .. Len(tasks) : Kept!Execute(t)
<1>d. SUFFICES ASSUME NEW e, e = stream[g][1], NEW t, t = e.task
               PROVE  \E w \in 1 .. Len(tasks) : Kept!Execute(w)
  OBVIOUS
<1>0. Len(stream[g]) \in Nat /\ Len(tasks) \in Nat
  BY EntryFacts, TaskFacts
<1>1. /\ 1 \in 1 .. Len(stream[g]) /\ e.type = "kernel"
      /\ tasks' = [tasks EXCEPT ![t].executed = @ + 1]
  <2>1. Dropped(g)
    BY DEF RunKernel, Execute, Dropped
  <2>2. Len(stream[g]) >= 1 /\ Head(stream[g]) = e
    BY <1>d, <2>1, DroppedEntries
  <2> QED
    BY <1>0, <1>d, <2>2 DEF RunKernel, Execute
<1>2. t \in 1 .. Len(tasks) /\ tasks[t].group = g /\ tasks[t].launched
  <2>1. EntryOK(e, g)
    BY <1>d, <1>1 DEF CommitInv, EntryInv
  <2> QED
    BY <1>d, <1>1, <2>1 DEF EntryOK, At
<1>3. tasks[t].executed < tasks[t].committed
  <2>1. KernelOK(g, 1)
    BY <1>1 DEF CommitInv, KernelInv
  <2>2. tasks[t].executed < e.val /\ e.val <= tasks[t].committed
    BY <1>d, <1>1, <2>1 DEF KernelOK
  <2>3. e.val \in Nat /\ tasks[t].executed \in Nat /\ tasks[t].committed \in Nat
    BY <1>d, <1>1, <1>2, EntryFacts, TaskFacts
  <2> QED
    BY <2>2, <2>3
<1>4. ASSUME NEW w \in 1 .. t - 1, tasks[w].group = tasks[t].group PROVE Over(w)
  <2>1. w \in 1 .. Len(tasks) /\ w < t
    BY <1>0, <1>2
  <2>2. tasks[w].launched
    BY <1>2, <1>4, <2>1 DEF FinishInv, LaunchOrder
  <2>3. ASSUME LastEntry(g, w) PROVE FALSE
    <3>1. PICK j \in 1 .. Len(stream[g]) :
            stream[g][j].type = "kernel" /\ stream[g][j].task = w
      BY <2>3 DEF LastEntry
    <3>2. j # 1
      BY <1>d, <2>1, <3>1
    <3>3. 1 < j
      BY <1>0, <3>2
    <3>4. Follows(stream[g][1], stream[g][j])
      BY <1>1, <3>3 DEF FinishInv, OrderInv
    <3>5. t <= w
      BY <1>d, <1>1, <3>1, <3>4 DEF Follows, IsTurn
    <3> QED
      BY <1>2, <2>1, <3>5
  <2> QED
    BY <1>2, <1>4, <2>1, <2>2, <2>3 DEF LastInv
<1>5. ASSUME tasks[t].group \in Synced, NEW d \in tasks[t].deps PROVE Over(d)
  <2>1. Ahead(g, d, t)
    BY <1>2 DEF DepInv
  <2>2. ~ToLaunch(t)
    BY <1>2 DEF ToLaunch
  <2>3. ASSUME StreamWait(g, d, t) PROVE FALSE
    <3>1. PICK k \in 1 .. Len(stream[g]) :
            \A j \in 1 .. Len(stream[g]) : IsTurn(stream[g][j]) /\ stream[g][j].task = t => k < j
      BY <2>3 DEF StreamWait
    <3>2. IsTurn(stream[g][1]) /\ stream[g][1].task = t
      BY <1>d, <1>1 DEF IsTurn
    <3>3. k < 1
      BY <1>1, <3>1, <3>2
    <3> QED
      BY <1>0, <3>3
  <2> QED
    BY <1>2, <1>5, <2>1, <2>2, <2>3 DEF Ahead
<1> QED
  BY <1>1, <1>2, <1>3, <1>4, <1>5 DEF Kept!Execute, Kept!Completed, Over

LEMMA ApiStep ==
    ASSUME TypeInv, TypeInv', PlaceInv, CommitInv, FinishInv, LastInv, NumberInv, DepInv,
           WaitInv, [Next]_vars
    PROVE  [Kept!Next]_tasks
<1>1. LaunchInv /\ RowCountInv /\ TableInv
  BY DEF FinishInv, CommitInv
<1>2. CASE SendPrepare /\ UNCHANGED <<serverVars, stream>>
  BY <1>2, PrepareIssues DEF Kept!Next
<1>3. CASE CommitWrite
  BY <1>1, <1>3, WriteCommits DEF Kept!Next, Kept!TaskIds
<1>4. CASE WaitReturn
  BY <1>1, <1>4, ReturnObserves DEF Kept!Next, Kept!TaskIds
<1>5. ASSUME NEW g \in Groups, PrepareProcess(g), UNCHANGED clientVars PROVE Kept!Next
  BY <1>1, <1>5, ProcessIsLaunch DEF Kept!Next, Kept!TaskIds
<1>6. ASSUME NEW g \in Groups, RunKernel(g) PROVE Kept!Next
  BY <1>6, KernelExecutes DEF Kept!Next, Kept!TaskIds
<1> QED
  BY <1>2, <1>3, <1>4, <1>5, <1>6, TaskSteps

ApiInv ==
    OpenInv /\ RoomInv /\ NumberInv /\ RefInv /\ KnownInv /\ DepInv /\ WaitInv

LEMMA ApiInit == Init => ApiInv
<1> SUFFICES ASSUME Init PROVE ApiInv
  OBVIOUS
<1>1. /\ tasks = <<>> /\ Len(tasks) = 0 /\ handles = PerGroup(<<>>) /\ deps = PerGroup({})
      /\ finalized = PerGroup(FALSE) /\ pc = "ready" /\ primitiveId = 0 /\ expectSeqNum = 0
      /\ launch = 1 /\ serverLaunch = 1 /\ sendMsgs = PerPos(NoMsg)
      /\ \A g \in Groups : /\ handles[g] = <<>> /\ retryCnt[g] = 0 /\ deps[g] = {}
                           /\ \A h \in Handles : handleToMsgPos[g][h] = Unknown
  BY DEF Init, Api!Init, InitArea, InitClient, InitServer, FreshServer, PerGroup
<1>2. \A g \in Groups : ~InHand(g) /\ (\A p \in Pos : ~InSlot(g, p)) /\ Len(handles[g]) = 0
  BY <1>1 DEF InHand, InSlot, PerPos, NoMsg
<1>3. OpenInv /\ RoomInv /\ RefInv /\ KnownInv /\ DepInv /\ WaitInv
  BY <1>1, <1>2, MaxHandleAssumption
     DEF OpenInv, PerGroup, RoomInv, RefInv, KnownInv, DepInv, WaitInv
<1>4. NumberInv
  <2>1. \A b \in 0 .. Len(tasks) : b = 0
    BY <1>1
  <2>2. ASSUME NEW b \in 0 .. Len(tasks) PROVE Numbering(b)
    <3>1. TableNumbers(b) /\ MessageNumbers(b)
      BY <1>1, <1>2 DEF TableNumbers, MessageNumbers
    <3>2. NextNumber(b)
      BY <1>1, <2>1, SeqModAssumption DEF NextNumber
    <3>3. Progress(b)
      BY <1>1, <2>1 DEF Progress, LaunchedTo
    <3> QED
      BY <3>1, <3>2, <3>3 DEF Numbering
  <2>3. 0 \in 0 .. Len(tasks)
    BY <1>1
  <2> QED
    BY <2>2, <2>3 DEF NumberInv
<1> QED
  BY <1>3, <1>4 DEF ApiInv

LEMMA ApiInvariant ==
    ASSUME Orderly
    PROVE  Spec => [](TypeInv /\ PlaceInv /\ CommitInv /\ FinishInv /\ LastInv /\ ApiInv)
<1>1. Careful /\ FinalizeLast
  BY DEF Orderly
<1>2. TypeInv /\ TypeInv' /\ PlaceInv /\ CommitInv /\ CommitInv' /\ FinishInv /\ LastInv /\ ApiInv
        /\ [Next]_vars => ApiInv'
  <2> SUFFICES ASSUME TypeInv, TypeInv', PlaceInv, CommitInv, CommitInv', FinishInv, LastInv,
                      ApiInv, [Next]_vars
               PROVE  ApiInv'
    OBVIOUS
  <2>0. OpenInv /\ RoomInv /\ NumberInv /\ RefInv /\ KnownInv /\ DepInv /\ WaitInv /\ TurnsInv'
    BY DEF ApiInv, CommitInv
  <2>1. OpenInv' /\ RoomInv' /\ WaitInv'
    BY <1>1, <2>0, OpenStep, RoomStep, WaitStep
  <2>2. NumberInv'
    BY <2>0, NumberStep
  <2>3. RefInv' /\ KnownInv'
    BY <1>1, <2>0, RefStep, KnownStep
  <2>4. DepInv'
    BY <1>1, <2>0, DepStep
  <2> QED
    BY <2>1, <2>2, <2>3, <2>4 DEF ApiInv
<1>3. Spec => [](TypeInv /\ PlaceInv /\ CommitInv /\ FinishInv /\ LastInv)
  BY <1>1, LastInvariant
<1> QED
  BY <1>2, <1>3, ApiInit, PTL DEF Spec

\* The messages of a launch are numbered over all groups, but the width of a
\* number, and the count that FINALIZE sets back, are those of a launch; a task
\* is found by its handle, a wait by the position of its task: where the author
\* keeps to Orderly, the tasks of all groups are launched in the order of the
\* Prepare calls, no turn runs before its Commit or before the tasks ahead of it in
\* its group, and none of a group in Synced before those InterHcclGroupSync named.
THEOREM ApiSpecCorrect == ASSUME Orderly PROVE Spec => ApiSpec
<1>1. Init => Kept!Init
  BY DEF Init, Api!Init, Kept!Init
<1>2. TypeInv /\ TypeInv' /\ PlaceInv /\ CommitInv /\ FinishInv /\ LastInv /\ ApiInv /\ [Next]_vars
        => [Kept!Next]_tasks
  BY ApiStep DEF ApiInv
<1> QED
  BY <1>1, <1>2, ApiInvariant, PTL DEF Spec, ApiSpec, Kept!Spec

\* A task keeps its turns, or one of them runs and those it depends on are over.
LEMMA DependsStep ==
    ASSUME TypeInv, [Kept!Next]_tasks, NEW t \in DOMAIN tasks', tasks'[t].executed > 0
    PROVE  /\ t \in 1 .. Len(tasks)
           /\ \/ tasks'[t].executed = tasks[t].executed
              \/ tasks[t].group \in Synced => \A d \in tasks[t].deps : Over(d)
<1>a. /\ tasks \in Seq(Task) /\ Len(tasks) \in Nat /\ DOMAIN tasks = 1 .. Len(tasks)
      /\ \A w \in 1 .. Len(tasks) : tasks[w] \in Task
  <2>1. tasks \in Seq(Task)
    BY DEF TypeInv, TypeOK
  <2> QED
    BY <2>1, LenProperties, TaskFacts
<1>1. CASE Kept!Issue
  <2>1. PICK g \in Groups, r \in Repeats, ds \in SUBSET (1 .. Len(tasks)) :
            tasks' = Append(tasks, Kept!NewTask(g, r, ds))
    BY <1>1 DEF Kept!Issue, Kept!TaskIds
  <2>d. SUFFICES ASSUME NEW e, e = Kept!NewTask(g, r, ds)
                 PROVE  t \in 1 .. Len(tasks) /\ tasks'[t].executed = tasks[t].executed
    OBVIOUS
  <2>2. e.executed = 0
    BY <2>d DEF Kept!NewTask
  <2>e. tasks \in Seq(Task \cup {e})
    BY <1>a
  <2>3. /\ tasks' \in Seq(Task \cup {e}) /\ Len(tasks') = Len(tasks) + 1
        /\ tasks'[Len(tasks) + 1] = e
        /\ \A w \in 1 .. Len(tasks) : tasks'[w] = tasks[w]
    BY <2>1, <2>d, <2>e, AppendProperties
  <2>4. DOMAIN tasks' = 1 .. Len(tasks) + 1
    BY <2>3, LenProperties
  <2> QED
    BY <1>a, <2>2, <2>3, <2>4
<1>2. ASSUME NEW w \in 1 .. Len(tasks), Kept!Launch(w) \/ Kept!Commit(w) \/ Kept!Observe(w)
      PROVE  t \in 1 .. Len(tasks) /\ tasks'[t].executed = tasks[t].executed
  <2>1. CASE Kept!Launch(w)
    BY <1>a, <2>1 DEF Kept!Launch, Task
  <2>2. CASE Kept!Commit(w)
    BY <1>a, <2>2 DEF Kept!Commit, Task
  <2>3. CASE Kept!Observe(w)
    BY <1>a, <2>3 DEF Kept!Observe, Task
  <2> QED
    BY <1>2, <2>1, <2>2, <2>3
<1>3. ASSUME NEW w \in 1 .. Len(tasks), Kept!Execute(w)
      PROVE  /\ t \in 1 .. Len(tasks)
             /\ \/ tasks'[t].executed = tasks[t].executed
                \/ tasks[t].group \in Synced => \A d \in tasks[t].deps : Over(d)
  <2>1. t \in 1 .. Len(tasks) /\ (w # t => tasks'[t] = tasks[t])
    BY <1>a, <1>3 DEF Kept!Execute
  <2>2. tasks[w].group \in Synced => \A d \in tasks[w].deps : Over(d)
    BY <1>3 DEF Kept!Execute, Kept!Completed, Over
  <2> QED
    BY <2>1, <2>2
<1> QED
  BY <1>a, <1>1, <1>2, <1>3 DEF Kept!Next, Kept!TaskIds

\* InterHcclGroupSync: in a group whose server keeps its context, the first turn of
\* a task runs after the last turn of each task it depends on, although the wait for
\* that is put behind a count which another stream writes, at a position known from
\* the server's tables, and the waits of other groups may be put into any stream.
THEOREM SyncedDependenciesKeptCorrect ==
    ASSUME Orderly PROVE Spec => []SyncedDependenciesKept
<1>1. Init => SyncedDependenciesKept
  BY DEF Init, Api!Init, SyncedDependenciesKept
<1>2. TypeInv /\ TypeInv' /\ PlaceInv /\ CommitInv /\ CommitInv' /\ FinishInv /\ LastInv /\ ApiInv
        /\ SyncedDependenciesKept /\ [Next]_vars => SyncedDependenciesKept'
  <2> SUFFICES ASSUME TypeInv, TypeInv', PlaceInv, CommitInv, CommitInv', FinishInv, LastInv,
                      ApiInv, SyncedDependenciesKept, [Next]_vars, NEW t \in DOMAIN tasks',
                      tasks'[t].group \in Synced, tasks'[t].executed > 0, NEW d \in tasks'[t].deps
               PROVE  tasks'[d].executed = tasks'[d].repeat
    BY DEF SyncedDependenciesKept, DependenciesOver
  <2>1. TasksGrow /\ [Kept!Next]_tasks /\ TurnsInv'
    BY GrowStep, ApiStep DEF ApiInv, CommitInv
  <2>2. /\ t \in 1 .. Len(tasks)
        /\ \/ tasks'[t].executed = tasks[t].executed
           \/ tasks[t].group \in Synced => \A e \in tasks[t].deps : Over(e)
    BY <2>1, DependsStep
  <2>3. DOMAIN tasks = 1 .. Len(tasks) /\ tasks[t].executed \in Nat
    <3>1. tasks \in Seq(Task)
      BY DEF TypeInv, TypeOK
    <3> QED
      BY <2>2, <3>1, LenProperties, TaskFacts
  <2>4. d \in tasks[t].deps /\ d \in 1 .. Len(tasks) /\ tasks[t].group \in Synced
    BY <2>1, <2>2 DEF TasksGrow, ApiInv, DepInv
  <2>5. Over(d)
    <3>1. CASE tasks'[t].executed = tasks[t].executed
      BY <2>2, <2>3, <2>4, <3>1 DEF SyncedDependenciesKept, DependenciesOver, Over
    <3> QED
      BY <2>2, <2>4, <3>1
  <2> QED
    BY <2>1, <2>4, <2>5, OverStays DEF Over
<1> QED
  BY <1>1, <1>2, ApiInvariant, PTL DEF Spec
=============================================================================
