----------------------------- MODULE KfcV2Proofs -----------------------------
(*****************************************************************************)
(* The RPC server V2 leaves nothing behind: to a careful author it neither   *)
(* fails nor keeps a message or a count of a launch that has ended, for      *)
(* every value of the constants that gives each handle a number.             *)
(*                                                                           *)
(* The invariant has three parts.  Places: where the server, the client and  *)
(* the messages of a group are, and when a group is over.  Counts: a         *)
(* finished turn is of a launched row; a count of commits that outlives the  *)
(* messages has an entry of its stream that clears it.  Calls: what the      *)
(* author has waited for is launched, so that his Finalize finds every task  *)
(* launched, and no message is ever behind the number the server expects.    *)
(*                                                                           *)
(* And it runs no turn before its Commit, to that author and to one who is   *)
(* not careful (the last part of the module).                                *)
(*****************************************************************************)
EXTENDS KfcChannelV2, SequenceTheorems, TLAPS

\* The same client and streams with the other server: what is proved of them there is used
\* here.  Its parameters that only the server V1 has are fixed.
C == INSTANCE KfcChannelProofs WITH Legacy <- FALSE, TimeoutsFire <- FALSE

\* The data of KfcChannel without its V1 parameters is that of this module.
LEMMA SameData ==
    /\ C!Groups = Groups /\ C!Pos = Pos /\ C!Handles = Handles /\ C!NoMsg = NoMsg
    /\ C!Msg = Msg /\ C!Sqe = Sqe /\ C!Handle = Handle /\ C!Unknown = NotSeen
    /\ C!NoCall = NoCall
    /\ \A g, h, m, f : C!ApiCall(g, h, m, f) = ApiCall(g, h, m, f)
    /\ \A g, r, d : C!Api!NewTask(g, r, d) = Api!NewTask(g, r, d)
BY DEF Groups, C!Groups, Pos, C!Pos, Handles, C!Handles, NoMsg, C!NoMsg, Msg, C!Msg, MsgTypes, C!MsgTypes,
  Sqe, C!Sqe, SqeTypes, C!SqeTypes, Handle, C!Handle, C!Unknown, NotSeen, NoCall, C!NoCall, ApiCall, C!ApiCall,
  C!Api!NewTask, Api!NewTask

\* What an author may call is what he may call of KfcChannel.
LEMMA SameCalls ==
    ASSUME NEW g \in Groups
    PROVE  /\ MaySend(g) => C!MaySend(g)
           /\ MayFinalize(g) => C!MayFinalize(g)
           /\ \A h : MayWait(g, h) => C!MayWait(g, h)
BY SameData DEF MaySend, C!MaySend, MayFinalize, C!MayFinalize, MayWait, C!MayWait, CommittedAll, C!CommittedAll,
   DepsCommitted, C!DepsCommitted

\* The client's steps (HcclImpl) are those it takes with the other server, so that
\* what is proved of them there holds here.
LEMMA SameClient == ClientNext => C!ClientNext
<1> SUFFICES ASSUME ClientNext PROVE C!ClientNext
  OBVIOUS
<1> USE SameData
<1>1. ASSUME NEW g \in Groups, NEW r \in Repeats, NEW ext \in Exts, NEW commit \in BOOLEAN,
             Prepare(g, r, ext, commit)
      PROVE  C!Prepare(g, r, ext, commit)
  BY <1>1, SameCalls DEF Prepare, C!Prepare, FirstStep, C!FirstStep, areaVars, C!areaVars
<1>2. ASSUME NEW g \in Groups, PrepareRefused(g) PROVE C!PrepareRefused(g)
  BY <1>2 DEF PrepareRefused, C!PrepareRefused, areaVars, C!areaVars
<1>3. ASSUME NEW g \in Groups, NEW g2 \in Groups, NEW h \in Handles, InterHcclGroupSync(g, g2, h)
      PROVE  C!InterHcclGroupSync(g, g2, h)
  BY <1>3, SameCalls DEF InterHcclGroupSync, C!InterHcclGroupSync, areaVars, C!areaVars
<1>4. ASSUME NEW g \in Groups, NEW h \in Handles, Commit(g, h) PROVE C!Commit(g, h)
  BY <1>4 DEF Commit, C!Commit, areaVars, C!areaVars
<1>5. ASSUME NEW g \in Groups, NEW h \in Handles, Wait(g, h) PROVE C!Wait(g, h)
  BY <1>5, SameCalls DEF Wait, C!Wait, areaVars, C!areaVars
<1>6. ASSUME NEW g \in Groups, NEW sync \in SyncModes, Finalize(g, sync) PROVE C!Finalize(g, sync)
  BY <1>6, SameCalls DEF Finalize, C!Finalize, areaVars, C!areaVars
<1>7. ASSUME NextLaunch PROVE C!NextLaunch
  BY <1>7 DEF NextLaunch, C!NextLaunch, areaVars, C!areaVars, PerGroup, C!PerGroup
<1>8. ASSUME ContinueCall PROVE C!ContinueCall
  <2> USE DEF GoOn, C!GoOn, Return, C!Return, AdvancePosition, C!AdvancePosition, areaVars, C!areaVars
  <2>0. ASSUME NEW t, NEW m, PutMsg(t, m) PROVE C!PutMsg(t, m)
    BY <2>0 DEF PutMsg, C!PutMsg
  <2>1. SendExt => C!SendExt
    BY DEF SendExt, C!SendExt, ExtFree, C!ExtFree
  <2>2. SendPrepare => C!SendPrepare
    BY <2>0 DEF SendPrepare, C!SendPrepare, NextSeq, C!NextSeq
  <2>3. SendSync => C!SendSync
    BY <2>0 DEF SendSync, C!SendSync
  <2>4. SendFinalize => C!SendFinalize
    BY <2>0 DEF SendFinalize, C!SendFinalize
  <2>5. CommitWrite => C!CommitWrite
    BY DEF CommitWrite, C!CommitWrite, CommitWritable, C!CommitWritable
  <2>6. WaitReturn => C!WaitReturn
    BY DEF WaitReturn, C!WaitReturn, TurnsFinished, C!TurnsFinished
  <2>7. FinalizeQueried => C!FinalizeQueried
    BY DEF FinalizeQueried, C!FinalizeQueried, TurnsFinished, C!TurnsFinished, Half, C!Half
  <2>8. FinalizeDone => C!FinalizeDone
    BY DEF FinalizeDone, C!FinalizeDone, ResetFinishedTurnCnt, C!ResetFinishedTurnCnt
  <2> QED
    BY <1>8, <2>1, <2>2, <2>3, <2>4, <2>5, <2>6, <2>7, <2>8 DEF ContinueCall, C!ContinueCall
<1>9. UNCHANGED <<C!serverVars, stream>>
  BY DEF ClientNext, serverVars, C!serverVars
<1> QED
  BY <1>1, <1>2, <1>3, <1>4, <1>5, <1>6, <1>7, <1>8, <1>9 DEF ClientNext, CallApi, C!ClientNext, C!CallApi

----------------------------------------------------------------------------
(* Types.                                                                   *)
Constants == /\ NGroups \in Nat \ {0} /\ MsgCnt \in Nat \ {0, 1} /\ MaxHandle \in Nat \ {0}
             /\ Repeats \subseteq 1 .. 255 /\ SeqMod \in Nat \ {0} /\ MaxRetry \in Nat
             /\ FinalizeCnt \in Nat \ {0} /\ (\A r \in Repeats : r < FinalizeCnt)
             /\ Launches \in Nat \ {0} /\ MaxTasks \in Nat
             /\ SyncModes \subseteq BOOLEAN /\ Exts \subseteq BOOLEAN
             /\ FinalizeLast \in BOOLEAN /\ DependentsFirst \in BOOLEAN /\ ExcessPrepare \in BOOLEAN

\* The assumptions on the constants, in the form the proofs cite.
LEMMA ConstantsHold == Constants
BY NGroupsAssumption, MsgCntAssumption, MaxHandleAssumption, RepeatsAssumption,
   SeqModAssumption, MaxRetryAssumption, FinalizeCntAssumption, BoundsAssumption,
   ClientConstants DEF Constants

Call == [group : Groups, handle : Handles, msg : Msg, flag : BOOLEAN]

Task == [group : Groups, repeat : Repeats, deps : SUBSET (1 .. MaxTasks),
         launched : BOOLEAN, committed : Nat, executed : Nat, observed : Nat]

AreaTypes ==
    /\ sendMsgs \in [Groups -> [Pos -> Msg]]
    /\ paramExt \in [Groups -> [Pos -> BOOLEAN]]
    /\ commitTurnCnt \in [Groups -> [Pos -> Nat]]
    /\ finishedTurnCnt \in [Groups -> [Pos -> Nat]]

ServerTypes ==
    /\ server \in {"run", "exit", "fail"}
    /\ visit \in Groups
    /\ expectSeqNum \in Nat
    /\ rcvMsg \in [Groups -> Msg]
    /\ msgPos \in [Groups -> Pos]
    /\ retryCnt \in [Groups -> {0, 1}]
    /\ finalizeFlag \in [Groups -> BOOLEAN]
    /\ finishFlag \in [Groups -> BOOLEAN]
    /\ handleToMsgPos \in [Groups -> [Handles -> Pos \cup {NotSeen}]]
    /\ handleToRepeat \in [Groups -> [Handles -> Nat]]
    /\ timeout = PerGroup(0)
    /\ serverLaunch \in 1 .. Launches

TaskOf(m) == m.type = "prepare" => m.task \in 1 .. Len(tasks)

Links ==
    /\ Len(tasks) <= MaxTasks
    /\ \A g \in Groups, p \in Pos : TaskOf(sendMsgs[g][p])
    /\ \A g \in Groups : TaskOf(rcvMsg[g])
    /\ \A g \in Groups : \A i \in 1 .. Len(stream[g]) :
          stream[g][i].type = "kernel" => stream[g][i].task \in 1 .. Len(tasks)

ClientTypes == C!ClientTypeOK /\ C!CallOK /\ C!HandlesOK

BufferOK ==
    /\ buffered \in [Groups -> Seq(Sqe)]
    /\ \A g \in Groups : \A j \in 1 .. Len(buffered[g]) :
        buffered[g][j].type = "waitFinish" /\ ~buffered[g][j].last

TypeInv ==
    /\ AreaTypes /\ ClientTypes /\ ServerTypes /\ Links
    /\ stream \in [Groups -> Seq(Sqe)] /\ tasks \in Seq(Task)
    /\ BufferOK /\ careful \in BOOLEAN

\* The types here are at least those of KfcChannel.
LEMMA TypesThere == TypeInv => C!TypeInv
<1> SUFFICES ASSUME TypeInv PROVE C!TypeInv
  OBVIOUS
<1> USE SameData
<1>0. Constants
  BY ConstantsHold
<1>1. C!AreaTypeOK
  BY DEF TypeInv, AreaTypes, C!AreaTypeOK
<1>2. C!ServerTypeOK
  <2>1. retryCnt \in [Groups -> 0 .. MaxRetry + 1]
    <3>1. {0, 1} \subseteq 0 .. MaxRetry + 1
      BY <1>0 DEF Constants
    <3> QED
      BY <3>1 DEF TypeInv, ServerTypes
  <2>2. timeout \in [Groups -> 0 .. C!MaxTimeout]
    BY DEF TypeInv, ServerTypes, PerGroup, C!MaxTimeout
  <2>3. handleToRepeat \in [Groups -> [Handles -> Nat \cup {NotSeen}]]
    BY DEF TypeInv, ServerTypes
  <2> QED
    BY <2>1, <2>2, <2>3 DEF TypeInv, ServerTypes, C!ServerTypeOK
<1>3. C!LinksOK
  <2>1. \A g \in Groups, h \in Handles : handleToRepeat[g][h] # NotSeen
    BY DEF TypeInv, ServerTypes, NotSeen
  <2> QED
    BY <2>1 DEF TypeInv, Links, TaskOf, C!LinksOK, C!TaskOf
<1>4. tasks \in Seq(C!Task) /\ stream \in [Groups -> Seq(Sqe)]
  BY DEF TypeInv, Task, C!Task
<1> QED
  BY <1>1, <1>2, <1>3, <1>4 DEF C!TypeInv, C!TypeOK, TypeInv, ClientTypes

\* The types of KfcChannel, read back: areas, client, streams and tasks.
LEMMA TypesBack ==
    C!TypeInv => /\ AreaTypes /\ ClientTypes /\ Links
                 /\ stream \in [Groups -> Seq(Sqe)] /\ tasks \in Seq(Task)
BY SameData DEF C!TypeInv, C!TypeOK, C!AreaTypeOK, C!LinksOK, C!TaskOf, C!Task, Task, ClientTypes,
   AreaTypes, Links, TaskOf

\* A stream's steps (the condition tasks of a rank) are those of KfcChannel.
LEMMA SameStream == ASSUME NEW g \in Groups, StreamNext(g) PROVE C!StreamNext(g)
<1> USE SameData DEF Execute, C!Execute, clientVars, C!clientVars, serverVars, C!serverVars
<1>1. WaitCommit(g) => C!WaitCommit(g)
  <2>1. /\ \A x : C!LoadHalf(x) = LoadHalf(x)
        /\ \A x, y : C!StoreHalf(x, y) = StoreHalf(x, y)
    BY DEF LoadHalf, C!LoadHalf, StoreHalf, C!StoreHalf, Half, C!Half
  <2> QED
    BY <2>1 DEF WaitCommit, C!WaitCommit, CounterReached, C!CounterReached, CounterAfter, C!CounterAfter
<1>2. WaitFinish(g) => C!WaitFinish(g)
  BY DEF WaitFinish, C!WaitFinish, CounterReached, C!CounterReached, LoadHalf, C!LoadHalf, Half, C!Half
<1>3. RunKernel(g) => C!RunKernel(g)
  BY DEF RunKernel, C!RunKernel
<1>4. PostFinish(g) => C!PostFinish(g)
  BY DEF PostFinish, C!PostFinish, LoadHalf, C!LoadHalf, StoreHalf, C!StoreHalf, Half, C!Half
<1> QED
  BY <1>1, <1>2, <1>3, <1>4 DEF StreamNext, C!StreamNext

\* The lemmas about client and streams that hold with either server.
LEMMA Shared ==
    ASSUME TypeInv
    PROVE  /\ ClientNext => C!TypeInv'
           /\ \A g \in Groups : StreamNext(g) => C!TypeInv'
           /\ UNCHANGED clientVars /\ Len(tasks') = Len(tasks) => ClientTypes'
<1> USE ConstantsHold, TypesThere DEF Constants
<1>1. ClientNext => C!TypeInv'
  BY SameClient, C!ClientType DEF C!ClientType
<1>2. ASSUME NEW g \in Groups, StreamNext(g) PROVE C!TypeInv'
  <2>1. C!StreamNext(g) /\ g \in C!Groups
    BY <1>2, SameStream, SameData
  <2> QED
    BY <2>1, C!StreamType DEF C!StreamType
<1>3. ASSUME UNCHANGED clientVars, Len(tasks') = Len(tasks) PROVE ClientTypes'
  <2>1. UNCHANGED C!clientVars
    BY <1>3 DEF clientVars, C!clientVars
  <2> QED
    BY <1>3, <2>1, C!ClientKept DEF C!ClientKept, ClientTypes
<1> QED
  BY <1>1, <1>2, <1>3

\* Entries kept back for the next launch (LaunchNewTask) keep their type.
LEMMA BufferKept == ASSUME BufferOK, UNCHANGED buffered PROVE BufferOK'
BY DEF BufferOK

\* A client's step keeps every variable in its type.
LEMMA ClientStepTypes == ASSUME TypeInv, ClientStep PROVE TypeInv'
<1>1. ClientNext /\ UNCHANGED <<serverVars, stream, buffered, careful>>
  BY DEF ClientStep, ClientNext
<1>2. C!TypeInv'
  BY <1>1, Shared
<1>3. (/\ AreaTypes /\ ClientTypes /\ Links
       /\ stream \in [Groups -> Seq(Sqe)] /\ tasks \in Seq(Task))'
  BY <1>2, TypesBack, PTL
<1>4. ServerTypes' /\ BufferOK' /\ careful' \in BOOLEAN
  BY <1>1, BufferKept DEF TypeInv, ServerTypes, serverVars
<1> QED
  BY <1>3, <1>4 DEF TypeInv

\* A stream's step keeps every variable in its type.
LEMMA StreamStepTypes == ASSUME TypeInv, NEW g \in Groups, DeviceStep(g) PROVE TypeInv'
<1>1. StreamNext(g) /\ UNCHANGED <<serverVars, buffered, careful>>
  BY DEF DeviceStep, StreamNext, WaitCommit, WaitFinish, RunKernel, PostFinish, Execute
<1>2. C!TypeInv'
  BY <1>1, Shared
<1>3. (/\ AreaTypes /\ ClientTypes /\ Links
       /\ stream \in [Groups -> Seq(Sqe)] /\ tasks \in Seq(Task))'
  BY <1>2, TypesBack, PTL
<1>4. ServerTypes' /\ BufferOK' /\ careful' \in BOOLEAN
  BY <1>1, BufferKept DEF TypeInv, ServerTypes, serverVars
<1> QED
  BY <1>3, <1>4 DEF TypeInv

----------------------------------------------------------------------------
(* The server's steps.                                                      *)

\* The message a group is at, read or held, is a message of a known task.
LEMMA SlotNowType ==
    ASSUME TypeInv, NEW g \in Groups
    PROVE  SlotNow(g) \in Msg /\ TaskOf(SlotNow(g)) /\ msgPos[g] \in Pos
<1>1. sendMsgs[g][msgPos[g]] \in Msg /\ rcvMsg[g] \in Msg /\ msgPos[g] \in Pos
  BY DEF TypeInv, AreaTypes, ServerTypes
<1>2. TaskOf(sendMsgs[g][msgPos[g]]) /\ TaskOf(rcvMsg[g])
  BY <1>1 DEF TypeInv, Links
<1> QED
  BY <1>1, <1>2 DEF SlotNow

\* ProcessMessage keeps areas and messages in their types: it clears the slot it read.
LEMMA ProcessTypes ==
    ASSUME TypeInv, NEW g \in Groups, NEW type, Process(g, type), Len(tasks') = Len(tasks)
    PROVE  /\ AreaTypes' /\ UNCHANGED <<finishFlag, timeout, serverLaunch>>
           /\ rcvMsg' \in [Groups -> Msg]
           /\ \A gg \in Groups, p \in Pos : TaskOf(sendMsgs[gg][p])'
           /\ \A gg \in Groups : TaskOf(rcvMsg[gg])'
<1>0. /\ NoMsg \in Msg /\ NoMsg.type = "none" /\ SlotNow(g) \in Msg /\ TaskOf(SlotNow(g))
      /\ msgPos[g] \in Pos
  <2>1. 0 \in Groups /\ 0 \in Handles
    BY ConstantsHold DEF Constants, Groups, Handles
  <2> QED
    BY <2>1, SlotNowType DEF NoMsg, Msg, MsgTypes
<1>1. /\ sendMsgs \in [Groups -> [Pos -> Msg]] /\ paramExt \in [Groups -> [Pos -> BOOLEAN]]
      /\ rcvMsg \in [Groups -> Msg]
  BY DEF TypeInv, AreaTypes, ServerTypes
<1>2. /\ sendMsgs' = sendMsgs \/ sendMsgs' = [sendMsgs EXCEPT ![g][msgPos[g]] = NoMsg]
      /\ paramExt' = paramExt
         \/ paramExt' = [paramExt EXCEPT ![g][msgPos[g]] = @ /\ ~SlotNow(g).ext]
      /\ rcvMsg' = [rcvMsg EXCEPT ![g] = SlotNow(g)]
      /\ UNCHANGED <<commitTurnCnt, finishedTurnCnt, finishFlag, timeout, serverLaunch>>
  BY DEF Process, GiveBack, At
<1>3. sendMsgs' \in [Groups -> [Pos -> Msg]]
  <2>1. [sendMsgs EXCEPT ![g][msgPos[g]] = NoMsg] \in [Groups -> [Pos -> Msg]]
    BY <1>0, <1>1
  <2> QED
    BY <1>1, <1>2, <2>1
<1>4. paramExt' \in [Groups -> [Pos -> BOOLEAN]]
  <2> DEFINE x == paramExt[g][msgPos[g]] /\ ~SlotNow(g).ext
  <2>1. x \in BOOLEAN
    OBVIOUS
  <2>2. paramExt' = paramExt \/ paramExt' = [paramExt EXCEPT ![g][msgPos[g]] = x]
    BY <1>2
  <2> HIDE DEF x
  <2>3. [paramExt EXCEPT ![g][msgPos[g]] = x] \in [Groups -> [Pos -> BOOLEAN]]
    BY <1>0, <1>1, <2>1
  <2> QED
    BY <1>1, <2>2, <2>3
<1>5. AreaTypes'
  BY <1>2, <1>3, <1>4 DEF AreaTypes, TypeInv
<1>6. rcvMsg' \in [Groups -> Msg]
  BY <1>0, <1>1, <1>2
<1>7. ASSUME NEW gg \in Groups, NEW p \in Pos PROVE TaskOf(sendMsgs[gg][p])'
  <2>1. sendMsgs'[gg][p] = sendMsgs[gg][p] \/ sendMsgs'[gg][p] = NoMsg
    BY <1>0, <1>1, <1>2
  <2>2. TaskOf(sendMsgs[gg][p])
    BY DEF TypeInv, Links
  <2> QED
    BY <1>0, <2>1, <2>2 DEF TaskOf
<1>8. ASSUME NEW gg \in Groups PROVE TaskOf(rcvMsg[gg])'
  <2>1. rcvMsg'[gg] = rcvMsg[gg] \/ rcvMsg'[gg] = SlotNow(g)
    BY <1>1, <1>2
  <2>2. TaskOf(rcvMsg[gg])
    BY DEF TypeInv, Links
  <2> QED
    BY <1>0, <2>1, <2>2 DEF TaskOf
<1> QED
  BY <1>2, <1>5, <1>6, <1>7, <1>8

\* Entries put at the end of a stream, or of a buffer.
LEMMA Concat ==
    ASSUME NEW s \in Seq(Sqe), NEW u \in Seq(Sqe)
    PROVE  /\ s \o u \in Seq(Sqe) /\ Len(s \o u) = Len(s) + Len(u)
           /\ Len(s) \in Nat /\ Len(u) \in Nat
           /\ \A i \in 1 .. Len(s) : (s \o u)[i] = s[i]
           /\ \A i \in 1 .. Len(u) : (s \o u)[Len(s) + i] = u[i]
           /\ \A i \in 1 .. Len(s \o u) : i \in 1 .. Len(s) \/ i - Len(s) \in 1 .. Len(u)
           /\ \A i \in 1 .. Len(s \o u) :
                (s \o u)[i] = IF i <= Len(s) THEN s[i] ELSE u[i - Len(s)]
<1>1. /\ s \o u \in Seq(Sqe) /\ Len(s \o u) = Len(s) + Len(u)
      /\ Len(s) \in Nat /\ Len(u) \in Nat
  OBVIOUS
<1>2. \A i \in 1 .. Len(s) + Len(u) : (s \o u)[i] = IF i <= Len(s) THEN s[i] ELSE u[i - Len(s)]
  OBVIOUS
<1> QED
  BY <1>1, <1>2

\* The entries of a task: for each turn a wait, a kernel and a post, in this order.
LEMMA TurnSqesType ==
    ASSUME NEW g \in Groups, NEW p \in Pos, NEW m \in Msg
    PROVE  /\ TurnSqes(g, p, m) \in Seq(Sqe) /\ Len(TurnSqes(g, p, m)) = 3 * m.repeat
           /\ \A i \in 1 .. 3 * m.repeat :
                 TurnSqes(g, p, m)[i] =
                     [type |-> CASE i % 3 = 1 -> "waitCommit" [] i % 3 = 2 -> "kernel" [] OTHER -> "post",
                      group |-> g, pos |-> p, val |-> (i + 2) \div 3, last |-> FALSE, task |-> m.task]
           /\ \A i \in 1 .. 3 * m.repeat : TurnSqes(g, p, m)[i].task = m.task
<1> DEFINE sqe(i) ==
        [type |-> CASE i % 3 = 1 -> "waitCommit" [] i % 3 = 2 -> "kernel" [] OTHER -> "post",
         group |-> g, pos |-> p, val |-> (i + 2) \div 3, last |-> FALSE, task |-> m.task]
<1>1. 3 * m.repeat \in Nat /\ m.task \in Nat
  BY DEF Msg
<1>2. ASSUME NEW i \in 1 .. 3 * m.repeat PROVE sqe(i) \in Sqe
  <2>1. (i + 2) \div 3 \in Nat
    BY <1>1
  <2>2. (CASE i % 3 = 1 -> "waitCommit" [] i % 3 = 2 -> "kernel" [] OTHER -> "post") \in SqeTypes
    BY DEF SqeTypes
  <2> QED
    BY <1>1, <2>1, <2>2 DEF Sqe
<1>3. TurnSqes(g, p, m) = [i \in 1 .. 3 * m.repeat |-> sqe(i)]
  BY DEF TurnSqes
<1>4. \A i \in 1 .. 3 * m.repeat : TurnSqes(g, p, m)[i] = sqe(i)
  BY <1>3
<1>7. \A i : sqe(i).task = m.task
  OBVIOUS
<1> HIDE DEF sqe
<1>8. \A i \in 1 .. 3 * m.repeat : TurnSqes(g, p, m)[i].task = m.task
  BY <1>4, <1>7
<1>5. TurnSqes(g, p, m) \in [1 .. 3 * m.repeat -> Sqe]
  BY <1>2, <1>3
<1>6. TurnSqes(g, p, m) \in Seq(Sqe) /\ Len(TurnSqes(g, p, m)) = 3 * m.repeat
  BY <1>1, <1>5
<1> QED
  BY <1>4, <1>6, <1>8 DEF sqe

\* The entries of a FINALIZE: one that waits for, and clears, each position behind it.
LEMMA ResetSqesType ==
    ASSUME TypeInv, NEW g \in Groups
    PROVE  /\ ResetCommitTask(g) \in Seq(Sqe) /\ Len(ResetCommitTask(g)) = msgPos[g]
           /\ msgPos[g] \in Pos /\ msgPos[g] \in Nat
           /\ \A i \in 1 .. msgPos[g] :
                 ResetCommitTask(g)[i] =
                     [type |-> "waitCommit", group |-> g, pos |-> i - 1, val |-> 0, last |-> TRUE,
                      task |-> 0]
           /\ \A i \in 1 .. msgPos[g] : ResetCommitTask(g)[i].type = "waitCommit"
<1>1. msgPos[g] \in Pos /\ msgPos[g] \in Nat /\ MsgCnt \in Nat
  BY ConstantsHold DEF TypeInv, ServerTypes, Pos, Constants
<1> DEFINE sqe(i) ==
        [type |-> "waitCommit", group |-> g, pos |-> i - 1, val |-> 0, last |-> TRUE, task |-> 0]
<1>2. ASSUME NEW i \in 1 .. msgPos[g] PROVE sqe(i) \in Sqe
  <2>1. i - 1 \in Pos
    BY <1>1 DEF Pos
  <2> QED
    BY <2>1 DEF Sqe, SqeTypes
<1>3. ResetCommitTask(g) = [i \in 1 .. msgPos[g] |-> sqe(i)]
  BY DEF ResetCommitTask
<1>4. \A i \in 1 .. msgPos[g] : ResetCommitTask(g)[i] = sqe(i)
  BY <1>3
<1>6. \A i : sqe(i).type = "waitCommit"
  OBVIOUS
<1> HIDE DEF sqe
<1>5. ResetCommitTask(g) \in [1 .. msgPos[g] -> Sqe]
  BY <1>2, <1>3
<1>7. ResetCommitTask(g) \in Seq(Sqe) /\ Len(ResetCommitTask(g)) = msgPos[g]
  BY <1>1, <1>5
<1> QED
  BY <1>1, <1>4, <1>6, <1>7 DEF sqe

\* Entries are put behind others in any grouping.
LEMMA Associative ==
    \A s, t, u \in Seq(Sqe) : s \o t \o u = s \o (t \o u)
<1> SUFFICES ASSUME NEW S, S = Sqe, NEW s \in Seq(S), NEW t \in Seq(S), NEW u \in Seq(S)
             PROVE  s \o t \o u = s \o (t \o u)
  OBVIOUS
<1> QED
  BY ConcatAssociative

\* What LaunchTask does to the streams.
LEMMA LaunchTaskTypes ==
    ASSUME TypeInv, NEW g \in Groups, NEW sqes \in Seq(Sqe), LaunchTask(g, sqes)
    PROVE  /\ stream' \in [Groups -> Seq(Sqe)] /\ BufferOK'
           /\ buffered[g] \o sqes \in Seq(Sqe)
           /\ stream' = [stream EXCEPT ![g] = @ \o (buffered[g] \o sqes)]
           /\ buffered' = [buffered EXCEPT ![g] = <<>>]
<1>1. stream[g] \in Seq(Sqe) /\ buffered[g] \in Seq(Sqe)
  BY DEF TypeInv, BufferOK
<1>2. /\ stream[g] \o buffered[g] \o sqes = stream[g] \o (buffered[g] \o sqes)
      /\ buffered[g] \o sqes \in Seq(Sqe) /\ stream[g] \o (buffered[g] \o sqes) \in Seq(Sqe)
  <2>1. stream[g] \o buffered[g] \o sqes = stream[g] \o (buffered[g] \o sqes)
    <3>1. ASSUME NEW s, NEW b, s \in Seq(Sqe), b \in Seq(Sqe) PROVE s \o b \o sqes = s \o (b \o sqes)
      BY <3>1, Associative
    <3> QED
      BY <1>1, <3>1
  <2>2. buffered[g] \o sqes \in Seq(Sqe)
    BY <1>1
  <2>3. stream[g] \o (buffered[g] \o sqes) \in Seq(Sqe)
    BY <1>1, <2>2
  <2> QED
    BY <2>1, <2>2, <2>3
<1>3. /\ stream' = [stream EXCEPT ![g] = @ \o (buffered[g] \o sqes)]
      /\ buffered' = [buffered EXCEPT ![g] = <<>>]
  BY <1>2 DEF LaunchTask
<1>4. stream' \in [Groups -> Seq(Sqe)] /\ buffered' \in [Groups -> Seq(Sqe)]
  BY <1>2, <1>3 DEF TypeInv, BufferOK
<1>5. ASSUME NEW gg \in Groups, NEW j \in 1 .. Len(buffered'[gg])
      PROVE  buffered'[gg][j].type = "waitFinish" /\ ~buffered'[gg][j].last
  <2>1. gg # g
    <3>1. buffered'[g] = <<>> /\ Len(<<>>) = 0
      BY <1>3 DEF TypeInv, BufferOK
    <3> QED
      BY <1>5, <3>1
  <2>2. buffered'[gg] = buffered[gg]
    BY <2>1, <1>3 DEF TypeInv, BufferOK
  <2> QED
    BY <2>2, <1>5 DEF TypeInv, BufferOK
<1>6. BufferOK'
  BY <1>4, <1>5 DEF BufferOK
<1> QED
  BY <1>2, <1>3, <1>4, <1>6

\* No entry of a launched task, or of a reset, is a kernel of a task that is not there.
KernelTasks(s) == \A i \in 1 .. Len(s) : s[i].type = "kernel" => s[i].task \in 1 .. Len(tasks)

\* A launch leaves no kernel of a task that is not in the table.
LEMMA LaunchTaskLinks ==
    ASSUME TypeInv, NEW g \in Groups, NEW sqes \in Seq(Sqe), LaunchTask(g, sqes), KernelTasks(sqes)
    PROVE  \A gg \in Groups : KernelTasks(stream'[gg])
<1> SUFFICES ASSUME NEW gg \in Groups PROVE KernelTasks(stream'[gg])
  OBVIOUS
<1>1. KernelTasks(stream[gg])
  BY DEF TypeInv, Links, KernelTasks
<1>2. CASE gg # g
  BY <1>1, <1>2, LaunchTaskTypes DEF TypeInv
<1>3. CASE gg = g
  <2> DEFINE b == buffered[g] \o sqes
  <2>1. stream[g] \in Seq(Sqe) /\ buffered[g] \in Seq(Sqe) /\ b \in Seq(Sqe)
    BY LaunchTaskTypes DEF TypeInv, BufferOK
  <2>2. KernelTasks(buffered[g])
    BY DEF TypeInv, BufferOK, KernelTasks
  <2>3. KernelTasks(b)
    BY <2>1, <2>2, Concat DEF KernelTasks
  <2>4. stream'[g] = stream[g] \o b
    <3>1. stream' = [stream EXCEPT ![g] = @ \o b] /\ stream \in [Groups -> Seq(Sqe)]
      BY LaunchTaskTypes DEF TypeInv
    <3> QED
      BY <3>1
  <2> HIDE DEF b
  <2> QED
    BY <1>1, <1>3, <2>1, <2>3, <2>4, Concat DEF KernelTasks
<1> QED
  BY <1>2, <1>3

\* What ServerStep must show.
ServerTyped ==
    /\ AreaTypes' /\ ServerTypes' /\ Links' /\ stream' \in [Groups -> Seq(Sqe)]
    /\ tasks' \in Seq(Task) /\ BufferOK' /\ Len(tasks') = Len(tasks)

\* The loop goes round the groups.
LEMMA NextVisit == ASSUME NEW g \in Groups, NextGroup(g) PROVE visit' \in Groups
BY ConstantsHold DEF NextGroup, Groups, Constants

\* A Prepare message that is launched keeps the types.
LEMMA PrepareTaskTypes == ASSUME TypeInv, NEW g \in Groups, PrepareTask(g) PROVE ServerTyped
<1> DEFINE m == SlotNow(g)
           p == msgPos[g]
           sqes == TurnSqes(g, p, m)
<1>1. /\ Process(g, "prepare") /\ LaunchTask(g, sqes)
      /\ handleToMsgPos' = [handleToMsgPos EXCEPT ![g][m.handle] = p]
      /\ handleToRepeat' = [handleToRepeat EXCEPT ![g][m.handle] = m.repeat]
      /\ expectSeqNum' = (m.seq + 1) % SeqMod
      /\ tasks' = [tasks EXCEPT ![m.task].launched = TRUE]
      /\ retryCnt' = [retryCnt EXCEPT ![g] = 0]
      /\ msgPos' = [msgPos EXCEPT ![g] = (@ + 1) % MsgCnt]
      /\ UNCHANGED <<server, visit, finalizeFlag>>
  BY DEF PrepareTask, Proceed
<1>2. m \in Msg /\ p \in Pos /\ m.type = "prepare" /\ m.task \in 1 .. Len(tasks)
  BY <1>1, SlotNowType DEF Process, TaskOf
<1>3. sqes \in Seq(Sqe) /\ KernelTasks(sqes)
  BY <1>2, TurnSqesType DEF KernelTasks
<1>4. /\ m.handle \in Handles /\ m.repeat \in Nat /\ m.seq \in Nat
      /\ SeqMod \in Nat \ {0} /\ MsgCnt \in Nat \ {0} /\ \A q \in Pos : (q + 1) % MsgCnt \in Pos
      /\ (m.seq + 1) % SeqMod \in Nat
  BY <1>2, ConstantsHold DEF Msg, Constants, Pos
<1> HIDE DEF m, p, sqes
<1>5. tasks' \in Seq(Task) /\ Len(tasks') = Len(tasks)
  <2>0. tasks \in Seq(Task) /\ tasks[m.task] \in Task
    BY <1>2 DEF TypeInv
  <2>1. tasks \in Seq(Task) /\ [tasks[m.task] EXCEPT !.launched = TRUE] \in Task
    BY <2>0 DEF Task
  <2>2. tasks' = [tasks EXCEPT ![m.task] = [tasks[m.task] EXCEPT !.launched = TRUE]]
    BY <1>1
  <2> QED
    BY <1>2, <2>1, <2>2
<1>6. /\ AreaTypes' /\ UNCHANGED <<finishFlag, timeout, serverLaunch>>
      /\ rcvMsg' \in [Groups -> Msg]
      /\ \A gg \in Groups, q \in Pos : TaskOf(sendMsgs[gg][q])'
      /\ \A gg \in Groups : TaskOf(rcvMsg[gg])'
  BY <1>1, <1>5, ProcessTypes
<1>7. /\ stream' \in [Groups -> Seq(Sqe)] /\ BufferOK'
      /\ \A gg \in Groups : KernelTasks(stream'[gg])
  BY <1>1, <1>3, LaunchTaskTypes, LaunchTaskLinks
<1>8. Links'
  BY <1>5, <1>6, <1>7 DEF Links, KernelTasks, TypeInv
<1>9. /\ msgPos' \in [Groups -> Pos] /\ retryCnt' \in [Groups -> {0, 1}]
      /\ handleToMsgPos' \in [Groups -> [Handles -> Pos \cup {NotSeen}]]
      /\ handleToRepeat' \in [Groups -> [Handles -> Nat]]
  BY <1>1, <1>2, <1>4 DEF TypeInv, ServerTypes
<1>10. ServerTypes'
  BY <1>1, <1>4, <1>6, <1>9 DEF ServerTypes, TypeInv, PerGroup
<1> QED
  BY <1>5, <1>6, <1>7, <1>8, <1>10 DEF ServerTyped

\* A sync message (InterHcclGroupSync) that is launched keeps the types.
LEMMA GroupSyncTypes == ASSUME TypeInv, NEW g \in Groups, GroupSync(g) PROVE ServerTyped
<1> DEFINE m == SlotNow(g)
           e == SyncWait(m)
<1>1. /\ Process(g, "sync") /\ HandleSeen(m)
      /\ buffered' = [buffered EXCEPT ![g] = Append(@, e)]
      /\ retryCnt' = [retryCnt EXCEPT ![g] = 0]
      /\ msgPos' = [msgPos EXCEPT ![g] = (@ + 1) % MsgCnt]
      /\ UNCHANGED <<server, visit, finalizeFlag, expectSeqNum, handleToMsgPos, handleToRepeat,
                     stream, tasks>>
  BY DEF GroupSync, Proceed
<1>2. m \in Msg /\ msgPos[g] \in Pos
  BY SlotNowType
<1>3. /\ m.dep \in Groups /\ m.handle \in Handles
      /\ MsgCnt \in Nat \ {0} /\ \A q \in Pos : (q + 1) % MsgCnt \in Pos
  BY <1>2, ConstantsHold DEF Msg, Constants, Pos
<1>4. e \in Sqe /\ e.type = "waitFinish" /\ ~e.last
  <2>1. handleToMsgPos[m.dep][m.handle] \in Pos /\ handleToRepeat[m.dep][m.handle] \in Nat
    BY <1>1, <1>3 DEF HandleSeen, TypeInv, ServerTypes
  <2> QED
    BY <1>3, <2>1 DEF SyncWait, Sqe, SqeTypes
<1> HIDE DEF m, e
<1>5. BufferOK'
  <2>1. /\ buffered \in [Groups -> Seq(Sqe)] /\ buffered[g] \in Seq(Sqe)
        /\ \A gg \in Groups : \A j \in 1 .. Len(buffered[gg]) :
              buffered[gg][j].type = "waitFinish" /\ ~buffered[gg][j].last
    BY DEF TypeInv, BufferOK
  <2>2. /\ Append(buffered[g], e) \in Seq(Sqe) /\ Len(Append(buffered[g], e)) = Len(buffered[g]) + 1
        /\ \A j \in 1 .. Len(buffered[g]) + 1 :
              Append(buffered[g], e)[j] = IF j <= Len(buffered[g]) THEN buffered[g][j] ELSE e
    BY <1>4, <2>1
  <2>3. buffered' \in [Groups -> Seq(Sqe)]
    BY <1>1, <2>1, <2>2
  <2>4. ASSUME NEW gg \in Groups, NEW j \in 1 .. Len(buffered'[gg])
        PROVE  buffered'[gg][j].type = "waitFinish" /\ ~buffered'[gg][j].last
    <3>1. CASE gg = g
      <4>1. buffered'[gg] = Append(buffered[g], e)
        BY <3>1, <1>1, <2>1
      <4>2. j \in 1 .. Len(buffered[g]) \/ buffered'[gg][j] = e
        BY <2>2, <4>1
      <4> QED
        BY <1>4, <2>1, <2>2, <4>1, <4>2
    <3>2. CASE gg # g
      <4>1. buffered'[gg] = buffered[gg]
        BY <3>2, <1>1, <2>1
      <4> QED
        BY <2>1, <4>1
    <3> QED
      BY <3>1, <3>2
  <2> QED
    BY <2>3, <2>4 DEF BufferOK
<1>6. /\ AreaTypes' /\ UNCHANGED <<finishFlag, timeout, serverLaunch>>
      /\ rcvMsg' \in [Groups -> Msg]
      /\ \A gg \in Groups, q \in Pos : TaskOf(sendMsgs[gg][q])'
      /\ \A gg \in Groups : TaskOf(rcvMsg[gg])'
  BY <1>1, ProcessTypes
<1>7. Links'
  BY <1>1, <1>6 DEF Links, TypeInv
<1>8. msgPos' \in [Groups -> Pos] /\ retryCnt' \in [Groups -> {0, 1}]
  BY <1>1, <1>2, <1>3 DEF TypeInv, ServerTypes
<1>9. ServerTypes'
  BY <1>1, <1>6, <1>8 DEF ServerTypes, TypeInv, PerGroup
<1> QED
  BY <1>1, <1>5, <1>6, <1>7, <1>9 DEF ServerTyped, TypeInv

\* A FINALIZE message keeps the types.
LEMMA FinalizeMsgTypes == ASSUME TypeInv, NEW g \in Groups, FinalizeMsg(g) PROVE ServerTyped
<1> DEFINE sqes == ResetCommitTask(g)
<1>1. /\ Process(g, "finalize") /\ LaunchTask(g, sqes)
      /\ finalizeFlag' = [finalizeFlag EXCEPT ![g] = TRUE]
      /\ expectSeqNum' = 0
      /\ UNCHANGED <<server, visit, msgPos, retryCnt, handleToMsgPos, handleToRepeat, tasks>>
  BY DEF FinalizeMsg
<1>2. sqes \in Seq(Sqe) /\ KernelTasks(sqes)
  BY ResetSqesType DEF KernelTasks
<1> HIDE DEF sqes
<1>3. /\ AreaTypes' /\ UNCHANGED <<finishFlag, timeout, serverLaunch>>
      /\ rcvMsg' \in [Groups -> Msg]
      /\ \A gg \in Groups, q \in Pos : TaskOf(sendMsgs[gg][q])'
      /\ \A gg \in Groups : TaskOf(rcvMsg[gg])'
  BY <1>1, ProcessTypes
<1>4. /\ stream' \in [Groups -> Seq(Sqe)] /\ BufferOK'
      /\ \A gg \in Groups : KernelTasks(stream'[gg])
  BY <1>1, <1>2, LaunchTaskTypes, LaunchTaskLinks
<1>5. Links'
  BY <1>1, <1>3, <1>4 DEF Links, KernelTasks, TypeInv
<1>6. ServerTypes'
  BY <1>1, <1>3 DEF ServerTypes, TypeInv, PerGroup
<1> QED
  BY <1>1, <1>3, <1>4, <1>5, <1>6 DEF ServerTyped, TypeInv

\* The steps that process a message again, or fail at it.
LEMMA RejectedTypes ==
    ASSUME TypeInv, NEW g \in Groups, PrepareAhead(g) \/ PrepareBehind(g) \/ GroupSyncAgain(g)
    PROVE  ServerTyped
<1>1. /\ \E type : Process(g, type)
      /\ \/ /\ server' = server /\ visit' \in Groups
            /\ retryCnt' = [retryCnt EXCEPT ![g] = 1]
         \/ server' = "fail" /\ UNCHANGED <<visit, retryCnt>>
      /\ UNCHANGED <<expectSeqNum, msgPos, finalizeFlag, handleToMsgPos, handleToRepeat, stream,
                     buffered, tasks>>
  BY NextVisit DEF PrepareAhead, PrepareBehind, GroupSyncAgain, ProcessAgain, Fail
<1>2. /\ AreaTypes' /\ UNCHANGED <<finishFlag, timeout, serverLaunch>>
      /\ rcvMsg' \in [Groups -> Msg]
      /\ \A gg \in Groups, q \in Pos : TaskOf(sendMsgs[gg][q])'
      /\ \A gg \in Groups : TaskOf(rcvMsg[gg])'
  BY <1>1, ProcessTypes
<1>3. Links' /\ BufferOK'
  BY <1>1, <1>2, BufferKept DEF Links, TypeInv
<1>4. retryCnt' \in [Groups -> {0, 1}] /\ visit' \in Groups /\ server' \in {"run", "exit", "fail"}
  BY <1>1 DEF TypeInv, ServerTypes
<1>5. ServerTypes'
  BY <1>1, <1>2, <1>4 DEF ServerTypes, TypeInv, PerGroup
<1> QED
  BY <1>1, <1>2, <1>3, <1>5 DEF ServerTyped, TypeInv

\* The mark at the end of a group keeps the types.
LEMMA GroupDoneTypes == ASSUME TypeInv, NEW g \in Groups, GroupDone(g) PROVE ServerTyped
<1>1. /\ finishedTurnCnt' = [finishedTurnCnt EXCEPT ![g][msgPos[g]] = FinalizeCnt]
      /\ finishFlag' = [finishFlag EXCEPT ![g] = TRUE]
      /\ visit' \in Groups
      /\ UNCHANGED <<sendMsgs, paramExt, commitTurnCnt, server, expectSeqNum, rcvMsg, msgPos,
                     retryCnt, finalizeFlag, handleToMsgPos, handleToRepeat, stream, buffered,
                     tasks, serverLaunch, timeout>>
  BY NextVisit DEF GroupDone, At
<1>2. FinalizeCnt \in Nat /\ msgPos[g] \in Pos
  BY ConstantsHold DEF Constants, TypeInv, ServerTypes
<1>3. AreaTypes'
  BY <1>1, <1>2 DEF AreaTypes, TypeInv
<1>4. Links' /\ BufferOK'
  BY <1>1, BufferKept DEF Links, TypeInv, TaskOf
<1>5. ServerTypes'
  BY <1>1 DEF ServerTypes, TypeInv, PerGroup
<1> QED
  BY <1>1, <1>3, <1>4, <1>5 DEF ServerTyped, TypeInv

\* The steps that touch neither an area nor a stream.
LEMMA IdleTypes ==
    ASSUME TypeInv,
           \/ \E g \in Groups : NothingRead(g) \/ SkipGroup(g)
           \/ LoopEnds \/ KernelTimedOut \/ Relaunch
    PROVE  ServerTyped
<1>1. /\ UNCHANGED <<sendMsgs, paramExt, commitTurnCnt, finishedTurnCnt>>
      /\ UNCHANGED <<expectSeqNum, rcvMsg, retryCnt, handleToRepeat, timeout,
                     stream, buffered, tasks>>
      /\ visit' \in Groups
      /\ server' \in {"run", "exit", "fail"}
      /\ serverLaunch' \in 1 .. Launches
      /\ \/ UNCHANGED <<msgPos, finalizeFlag, handleToMsgPos, finishFlag>>
         \/ ResetServers /\ finishFlag' = PerGroup(FALSE)
  <2>1. server \in {"run", "exit", "fail"} /\ visit \in Groups /\ serverLaunch \in 1 .. Launches
        /\ Launches \in Nat /\ 0 \in Groups
    BY ConstantsHold DEF TypeInv, ServerTypes, Constants, Groups
  <2>2. CASE \E g \in Groups : NothingRead(g) \/ SkipGroup(g)
    BY <2>1, <2>2, NextVisit DEF NothingRead, SkipGroup, At, Unmoved, areaVars
  <2>3. CASE LoopEnds \/ KernelTimedOut
    BY <2>1, <2>3 DEF LoopEnds, KernelTimedOut, Unmoved, areaVars
  <2>4. CASE Relaunch
    BY <2>1, <2>4 DEF Relaunch, areaVars
  <2> QED
    BY <2>2, <2>3, <2>4
<1>2. AreaTypes' /\ Links' /\ BufferOK'
  BY <1>1, BufferKept DEF AreaTypes, Links, TypeInv, TaskOf
<1>3. ServerTypes'
  <2>1. msgPos' \in [Groups -> Pos] /\ finalizeFlag' \in [Groups -> BOOLEAN]
        /\ handleToMsgPos' \in [Groups -> [Handles -> Pos \cup {NotSeen}]]
        /\ finishFlag' \in [Groups -> BOOLEAN]
    <3>1. 0 \in Pos
      BY ConstantsHold DEF Constants, Pos
    <3>2. CASE UNCHANGED <<msgPos, finalizeFlag, handleToMsgPos, finishFlag>>
      BY <3>2 DEF TypeInv, ServerTypes
    <3>3. CASE ResetServers /\ finishFlag' = PerGroup(FALSE)
      BY <3>1, <3>3 DEF ResetServers, PerGroup
    <3> QED
      BY <1>1, <3>2, <3>3
  <2> QED
    BY <1>1, <2>1 DEF ServerTypes, TypeInv, PerGroup
<1> QED
  BY <1>1, <1>2, <1>3 DEF ServerTyped, TypeInv

\* A server's step keeps every variable in its type.
LEMMA ServerStepTypes == ASSUME TypeInv, ServerStep PROVE TypeInv'
<1>1. UNCHANGED clientVars /\ UNCHANGED careful
  BY DEF ServerStep, ServerNext, KernelTimedOut
<1>2. ServerTyped
  BY PrepareTaskTypes, GroupSyncTypes, FinalizeMsgTypes, RejectedTypes, GroupDoneTypes, IdleTypes
     DEF ServerStep, ServerNext, LoopProcess
<1>3. ClientTypes'
  BY <1>1, <1>2, Shared DEF ServerTyped
<1> QED
  BY <1>1, <1>2, <1>3 DEF ServerTyped, TypeInv

\* The first state is in its types.
LEMMA TypeInit == Init => TypeInv
<1> SUFFICES ASSUME Init PROVE TypeInv
  OBVIOUS
<1> USE DEF Init, InitArea, InitClient, InitServer, InitStream, Api!Init, PerGroup, PerPos
<1>0. /\ 0 \in Groups /\ 0 \in Pos /\ 0 \in Handles /\ NoMsg \in Msg /\ NoCall \in Call
      /\ Constants
  BY ConstantsHold DEF Constants, Groups, Pos, Handles, NoMsg, Msg, MsgTypes, NoCall, ApiCall, Call
<1>1. AreaTypes
  BY <1>0 DEF AreaTypes
<1>2. ClientTypes
  <2>1. NoCall \in C!Call
    BY <1>0, SameData DEF C!Call, Call
  <2>2. curHandleId \in [Groups -> -1 .. MaxHandle] /\ curMsgPosition \in [Groups -> 0 .. MsgCnt]
        /\ primitiveId \in 0 .. SeqMod - 1 /\ launch \in 1 .. Launches
        /\ handles \in [Groups -> Seq(Handle)]
    BY <1>0 DEF Constants
  <2>3. C!ClientTypeOK
    BY <1>0, <2>1, <2>2, SameData DEF C!ClientTypeOK, C!PcStates
  <2>4. C!CallOK
    BY <1>0, SameData DEF C!CallOK, C!Preparing, Constants
  <2>5. C!HandlesOK
    BY <1>0, SameData DEF C!HandlesOK, C!Preparing
  <2> QED
    BY <2>3, <2>4, <2>5 DEF ClientTypes
<1>3. ServerTypes
  BY <1>0 DEF ServerTypes, Constants
<1>4. stream \in [Groups -> Seq(Sqe)] /\ tasks \in Seq(Task) /\ BufferOK
  BY DEF BufferOK
<1>5. Links
  BY <1>0 DEF Links, TaskOf, NoMsg, Constants
<1> QED
  BY <1>1, <1>2, <1>3, <1>4, <1>5 DEF TypeInv

\* Every variable stays in its type.
LEMMA TypeStep == TypeInv /\ [Next]_varsV2 => TypeInv'
<1> SUFFICES ASSUME TypeInv, [Next]_varsV2 PROVE TypeInv'
  OBVIOUS
<1>1. CASE UNCHANGED varsV2
  BY <1>1 DEF varsV2, vars, areaVars, clientVars, serverVars, TypeInv, AreaTypes, ServerTypes,
     Links, TaskOf, BufferOK, ClientTypes, C!ClientTypeOK, C!CallOK, C!HandlesOK, C!Preparing
<1> QED
  BY <1>1, ClientStepTypes, ServerStepTypes, StreamStepTypes DEF Next, Terminated

----------------------------------------------------------------------------
(* The invariant.                                                           *)

\* The message of a position: the server may hold it to process it again.
Message(g, p) == IF retryCnt[g] = 1 /\ p = msgPos[g] THEN rcvMsg[g] ELSE sendMsgs[g][p]
Waits(g, p) == Message(g, p).type = "prepare"

Finalizing(g) == pc = "finDone" /\ call.group = g
Marked(g) == launch < serverLaunch \/ (launch = serverLaunch /\ finishFlag[g])
Over(g) == launch < serverLaunch \/ (launch = serverLaunch /\ finalizeFlag[g])
Idle(g) == stream[g] = <<>> /\ buffered[g] = <<>> /\ retryCnt[g] = 0

\* Client and server are at most one launch apart, and the server does not fail.
RoundInv ==
    /\ launch <= serverLaunch + 1 /\ serverLaunch <= launch + 1
    /\ launch < serverLaunch => \A g \in Groups :
         (finalized[g] \/ Finalizing(g)) /\ msgPos[g] = 0 /\ ~finalizeFlag[g]
    /\ launch > serverLaunch \/ server = "exit" => \A g \in Groups : finishFlag[g]
    /\ server # "fail"

\* The server's flags of a group, its position and what the client has ended.
GroupInv ==
    \A g \in Groups :
        /\ finishFlag[g] => finalizeFlag[g]
        /\ finalizeFlag[g] => buffered[g] = <<>> /\ retryCnt[g] = 0
        /\ finishFlag[g] \/ launch < serverLaunch => Idle(g)
        /\ Over(g) => finalized[g] \/ Finalizing(g)
        /\ finalized[g] => Marked(g)
        /\ launch = serverLaunch => msgPos[g] <= curMsgPosition[g]
        /\ launch = serverLaunch /\ finalizeFlag[g] /\ Finalizing(g)
             => msgPos[g] = curMsgPosition[g]

\* A position the server is past, or the client has not reached, holds no message;
\* FINALIZE is at the current one, and only there.
SlotOK(g, p) ==
    /\ Over(g) \/ (launch = serverLaunch /\ p < msgPos[g]) \/ p > curMsgPosition[g]
         => Message(g, p) = NoMsg
    /\ Message(g, p).type = "finalize" => Finalizing(g)
    /\ p = curMsgPosition[g] => Message(g, p) = NoMsg \/ Message(g, p).type = "finalize"
    /\ p # curMsgPosition[g] => Message(g, p).type # "finalize"

\* A message is held to be processed again: its slot is clear meanwhile.
HandOK(g) ==
    retryCnt[g] = 1 => /\ launch = serverLaunch /\ sendMsgs[g][msgPos[g]] = NoMsg
                       /\ rcvMsg[g].type \in {"prepare", "sync"}
SlotInv == \A g \in Groups : HandOK(g) /\ \A p \in Pos : SlotOK(g, p)

\* The rows of a group are of positions used, in the order of their tasks.
RowInv ==
    \A g \in Groups : \A i \in 1 .. Len(handles[g]) :
        /\ handles[g][i].pos < curMsgPosition[g] /\ handles[g][i].repeat > 0
        /\ \A j \in 1 .. Len(handles[g]) : i < j => handles[g][i].task < handles[g][j].task

\* A row is committed no more often than it repeats, and repeats fit a byte.
BoundInv ==
    \A g \in Groups : \A i \in 1 .. Len(handles[g]) :
        handles[g][i].commit <= handles[g][i].repeat /\ handles[g][i].repeat <= 255

\* A message that waits is the only one of its task, which is not launched.
MessageOK(g, p) ==
    LET m == Message(g, p) IN
    /\ ~tasks[m.task].launched
    /\ \A i \in 1 .. Len(handles[g]) : handles[g][i].pos = p => handles[g][i].task = m.task
    /\ \A g2 \in Groups, q \in Pos :
          Waits(g2, q) /\ Message(g2, q).task = m.task => g2 = g /\ q = p
MessageInv == \A g \in Groups, p \in Pos : Waits(g, p) => MessageOK(g, p)

RowsLaunched(g, p) ==
    \A i \in 1 .. Len(handles[g]) :
        handles[g][i].pos = p => tasks[handles[g][i].task].launched

\* A finished turn is of a launched row, or the mark a Finalize waits for.
FinishOK(g, p) ==
    finishedTurnCnt[g][p] # 0 =>
        /\ ~finalized[g] /\ RowsLaunched(g, p)
        /\ p < curMsgPosition[g] \/ (p = curMsgPosition[g] /\ Finalizing(g) /\ Marked(g))
FinishInv == \A g \in Groups, p \in Pos : FinishOK(g, p)

\* A post in a stream is of a launched row of its own group.
EntryOK(g, e) ==
    /\ e.type = "post" =>
         e.group = g /\ e.pos < curMsgPosition[g] /\ RowsLaunched(g, e.pos)
    /\ e.type = "waitCommit" /\ e.last => e.group = g
EntryInv == \A g \in Groups : \A j \in 1 .. Len(stream[g]) : EntryOK(g, stream[g][j])

Clears(e, p) == e.type = "waitCommit" /\ e.last /\ e.pos = p

\* A count of commits of a group that is over has an entry that clears it.
CommitOK(g, p) ==
    commitTurnCnt[g][p] # 0 =>
        /\ p < curMsgPosition[g] /\ commitTurnCnt[g][p] < Half
        /\ Over(g) => \E j \in 1 .. Len(stream[g]) : Clears(stream[g][j], p)
CommitInv == \A g \in Groups, p \in Pos : CommitOK(g, p)

InWait(g, i) == pc = "wait" /\ call.group = g /\ call.handle + 1 = i

\* A row that has been waited for is launched.
WaitOK(g, i) ==
    handles[g][i].wait > (IF InWait(g, i) THEN 1 ELSE 0) => tasks[handles[g][i].task].launched
WaitInv == \A g \in Groups : \A i \in 1 .. Len(handles[g]) : WaitOK(g, i)

FinalizeCall == pc \in {"finQuery", "send", "finDone"} /\ call.msg.type = "finalize"
AllLaunched(g) == \A i \in 1 .. Len(handles[g]) : tasks[handles[g][i].task].launched

\* A Finalize under way waits for the server, and finds every task launched.
DoneInv ==
    FinalizeCall =>
        /\ call.flag
        /\ \A g \in Groups \ {call.group} : AllLaunched(g)
        /\ pc # "finQuery" => \A t \in 1 .. Len(tasks) : tasks[t].launched

\* The numbers of messages count the tasks after b; the server has launched the first n,
\* and expects the next; a tasks were there before the tables of this launch.
Numbering(a, b, n) ==
    /\ C!TableNumbers(a) /\ C!LaunchedTo(n) /\ Len(tasks) - a <= SeqMod
    /\ primitiveId = (Len(tasks) - b) % SeqMod
    /\ \A g \in Groups, p \in Pos :
          Waits(g, p) => Message(g, p).seq = Message(g, p).task - 1 - b
    /\ expectSeqNum = (n - b) % SeqMod \/ (pc = "finDone" /\ ~Over(call.group))
    /\ pc = "finDone" \/ (\A g \in Groups : finalized[g]) => b = Len(tasks)
NumberInv ==
    \E a \in 0 .. Len(tasks) : \E b \in a .. Len(tasks) : \E n \in b .. Len(tasks) :
        Numbering(a, b, n)

Places == RoundInv /\ GroupInv /\ SlotInv
Counts == RowInv /\ MessageInv /\ FinishInv /\ EntryInv /\ CommitInv
Calls == BoundInv /\ WaitInv /\ DoneInv /\ C!ExtInv /\ NumberInv /\ C!RoomInv

\* The invariant, to a careful author.
CarefulInv == Places /\ Counts /\ Calls

\* What the types say of the variables the proofs read most.
LEMMA Facts ==
    ASSUME TypeInv
    PROVE  /\ Len(tasks) \in Nat /\ launch \in Nat /\ serverLaunch \in Nat /\ MsgCnt \in Nat
           /\ \A t \in 1 .. Len(tasks) : tasks[t] \in Task /\ tasks[t].launched \in BOOLEAN
           /\ call.group \in Groups /\ call.msg \in Msg /\ call.handle \in Nat
           /\ \A g \in Groups :
                /\ curMsgPosition[g] \in Nat /\ curMsgPosition[g] <= MsgCnt
                /\ ~finalized[g] => curMsgPosition[g] \in Pos
                /\ msgPos[g] \in Pos /\ retryCnt[g] \in {0, 1} /\ rcvMsg[g] \in Msg
                /\ \A p \in Pos : sendMsgs[g][p] \in Msg /\ Message(g, p) \in Msg
           /\ \A p \in Pos : p \in Nat /\ p < MsgCnt
           /\ NoMsg \in Msg /\ NoMsg.type = "none"
<1>0. Constants /\ C!TypeInv
  BY ConstantsHold, TypesThere
<1>1. Len(tasks) \in Nat /\ \A t \in 1 .. Len(tasks) : tasks[t] \in Task /\ tasks[t].launched \in BOOLEAN
  <2>1. tasks \in Seq(Task)
    BY DEF TypeInv
  <2>2. Len(tasks) \in Nat /\ \A t \in 1 .. Len(tasks) : tasks[t] \in Task
    BY <2>1
  <2> QED
    BY <2>2 DEF Task
<1>2. call.group \in Groups /\ call.msg \in Msg /\ call.handle \in Nat
  <2>1. call \in C!Call
    BY DEF TypeInv, ClientTypes, C!ClientTypeOK
  <2> QED
    BY <1>0, <2>1, SameData DEF C!Call, Handles
<1>3. launch \in Nat /\ serverLaunch \in Nat /\ MsgCnt \in Nat
  BY <1>0 DEF TypeInv, ClientTypes, C!ClientTypeOK, ServerTypes, Constants
<1>4. ASSUME NEW g \in Groups
      PROVE  /\ curMsgPosition[g] \in Nat /\ curMsgPosition[g] <= MsgCnt
             /\ ~finalized[g] => curMsgPosition[g] \in Pos
             /\ msgPos[g] \in Pos /\ retryCnt[g] \in {0, 1} /\ rcvMsg[g] \in Msg
             /\ \A p \in Pos : sendMsgs[g][p] \in Msg /\ Message(g, p) \in Msg
  <2>1. curMsgPosition[g] \in 0 .. MsgCnt /\ (~finalized[g] => curMsgPosition[g] < MsgCnt)
    BY SameData DEF TypeInv, ClientTypes, C!ClientTypeOK, C!CallOK
  <2>2. msgPos[g] \in Pos /\ retryCnt[g] \in {0, 1} /\ rcvMsg[g] \in Msg
        /\ \A p \in Pos : sendMsgs[g][p] \in Msg
    BY DEF TypeInv, ServerTypes, AreaTypes
  <2> QED
    BY <1>0, <2>1, <2>2 DEF Pos, Constants, Message
<1>5. \A p \in Pos : p \in Nat /\ p < MsgCnt
  BY <1>0 DEF Pos, Constants
<1>6. NoMsg \in Msg /\ NoMsg.type = "none"
  <2>1. 0 \in Groups /\ 0 \in Handles
    BY <1>0 DEF Constants, Groups, Handles
  <2> QED
    BY <2>1 DEF NoMsg, Msg, MsgTypes
<1> QED
  BY <1>1, <1>2, <1>3, <1>4, <1>5, <1>6

\* What the types say of the rows of the client's table (handleId to position).
LEMMA Rows ==
    ASSUME TypeInv, NEW g \in Groups
    PROVE  /\ Len(handles[g]) \in Nat
           /\ \A i \in 1 .. Len(handles[g]) :
                /\ handles[g][i].task \in 1 .. Len(tasks) /\ handles[g][i].pos \in Pos
                /\ handles[g][i].repeat \in Nat /\ handles[g][i].wait \in Nat
                /\ handles[g][i] \in Handle
<1>1. /\ Len(handles[g]) \in Nat
      /\ \A i \in 1 .. Len(handles[g]) :
            handles[g][i] \in Handle /\ handles[g][i].task \in 1 .. Len(tasks)
  BY TypesThere, ConstantsHold, SameData, C!RowFacts DEF C!RowFacts, Constants
<1> QED
  BY <1>1 DEF Handle

\* What the types say of the entries of a stream.
LEMMA Entries ==
    ASSUME TypeInv, NEW g \in Groups
    PROVE  /\ Len(stream[g]) \in Nat /\ stream[g] \in Seq(Sqe)
           /\ \A j \in 1 .. Len(stream[g]) : stream[g][j] \in Sqe /\ stream[g][j].pos \in Pos
<1>1. stream[g] \in Seq(Sqe)
  BY DEF TypeInv
<1>2. Len(stream[g]) \in Nat /\ \A j \in 1 .. Len(stream[g]) : stream[g][j] \in Sqe
  BY <1>1
<1> QED
  BY <1>1, <1>2 DEF Sqe

----------------------------------------------------------------------------
(* The client's steps.                                                      *)

RowsSame ==
    \A g \in Groups :
        /\ Len(handles'[g]) = Len(handles[g])
        /\ \A i \in 1 .. Len(handles[g]) :
            /\ handles'[g][i].pos = handles[g][i].pos
            /\ handles'[g][i].repeat = handles[g][i].repeat
            /\ handles'[g][i].task = handles[g][i].task

TasksSame ==
    /\ Len(tasks') = Len(tasks)
    /\ \A t \in 1 .. Len(tasks) : tasks'[t].launched = tasks[t].launched

TasksGrow ==
    /\ Len(tasks) <= Len(tasks')
    /\ \A t \in 1 .. Len(tasks) : tasks[t].launched => tasks'[t].launched

OtherSide == UNCHANGED <<serverVars, stream, buffered>>

\* A step that sends nothing and ends nothing.
Minor ==
    /\ OtherSide /\ RowsSame /\ TasksSame
    /\ UNCHANGED <<sendMsgs, finishedTurnCnt, primitiveId, curMsgPosition, finalized, launch>>
    /\ pc # "finDone" /\ pc' # "finDone"

\* A Prepare or a sync message is put at the current position.
Put(g, p, m) ==
    /\ OtherSide
    /\ g \in Groups /\ p \in Pos /\ p = curMsgPosition[g] /\ m \in Msg /\ ~finalized[g]
    /\ pc = "send" /\ pc' \in {"ready", "commit"} /\ sendMsgs[g][p] = NoMsg
    /\ sendMsgs' = [sendMsgs EXCEPT ![g][p] = m]
    /\ curMsgPosition' = [curMsgPosition EXCEPT ![g] = @ + 1]
    /\ UNCHANGED <<commitTurnCnt, finishedTurnCnt, finalized, launch>>

PutTask(g, p, m) ==
    /\ Put(g, p, m) /\ m.type = "prepare" /\ call.msg.type = "prepare"
    /\ \E hd \in Handle :
        /\ handles' = [handles EXCEPT ![g] = Append(@, hd)]
        /\ hd.task = Len(tasks) + 1 /\ hd.pos = p /\ hd.repeat > 0 /\ hd.wait = 0
        /\ hd.commit <= hd.repeat /\ hd.repeat <= 255
        /\ m.task = Len(tasks) + 1 /\ m.seq = primitiveId /\ m.handle = Len(handles[g])
    /\ primitiveId' = (primitiveId + 1) % SeqMod
    /\ Len(tasks') = Len(tasks) + 1 /\ ~tasks'[Len(tasks) + 1].launched
    /\ \A t \in 1 .. Len(tasks) : tasks'[t] = tasks[t]

PutSync(g, p, m) ==
    /\ Put(g, p, m) /\ m.type = "sync" /\ pc' = "ready"
    /\ UNCHANGED <<primitiveId, handles, tasks>>

\* A call that begins sends nothing yet.
LEMMA CallMinor ==
    ASSUME TypeInv, OtherSide,
           \E g \in Groups :
              \/ \E r \in Repeats, ext \in Exts, commit \in BOOLEAN : Prepare(g, r, ext, commit)
              \/ PrepareRefused(g)
              \/ \E g2 \in Groups, h \in Handles : InterHcclGroupSync(g, g2, h)
              \/ \E sync \in SyncModes : Finalize(g, sync)
    PROVE  Minor /\ pc = "ready" /\ UNCHANGED <<handles, tasks, commitTurnCnt>>
BY DEF Prepare, PrepareRefused, InterHcclGroupSync, Finalize, areaVars, FirstStep, RowsSame,
   TasksSame, Minor

\* Commit and Wait, when they begin, send nothing and keep what a row is of.
LEMMA RowMinor ==
    ASSUME TypeInv, OtherSide, NEW g \in Groups, NEW h \in Handles, Commit(g, h) \/ Wait(g, h)
    PROVE  Minor /\ pc = "ready" /\ UNCHANGED <<tasks, commitTurnCnt>>
<1>1. C!Commit(g, h) \/ C!Wait(g, h)
  BY SameData, SameCalls DEF Commit, C!Commit, Wait, C!Wait, areaVars, C!areaVars
<1>2. RowsSame
  BY <1>1, TypesThere, ConstantsHold, SameData, C!RowMarked DEF C!RowMarked, Constants, RowsSame
<1> QED
  BY <1>2 DEF Commit, Wait, areaVars, TasksSame, Minor

\* The steps of a call before its message, and the return of Wait, send nothing.
LEMMA ContinueMinor ==
    ASSUME TypeInv, OtherSide, SendExt \/ FinalizeQueried \/ CommitWrite \/ WaitReturn
    PROVE  Minor /\ UNCHANGED handles
<1>1. CASE SendExt \/ FinalizeQueried
  BY <1>1 DEF SendExt, FinalizeQueried, GoOn, areaVars, RowsSame, TasksSame, Minor
<1>2. CASE CommitWrite \/ WaitReturn
  <2>1. PICK k \in 1 .. Len(tasks) : \E e :
            /\ tasks' = [tasks EXCEPT ![k] = e] /\ e.launched = tasks[k].launched
    <3>1. /\ handles[call.group][call.handle + 1].task \in 1 .. Len(tasks)
          /\ tasks[handles[call.group][call.handle + 1].task] \in Task
      <4>1. pc \in {"commit", "wait"}
        BY <1>2 DEF CommitWrite, WaitReturn
      <4>2. handles[call.group][call.handle + 1].task \in 1 .. Len(tasks)
        BY <4>1, TypesThere, ConstantsHold, SameData, C!CallTask DEF C!CallTask, Constants
      <4> QED
        BY <4>2, Facts
    <3>2. CASE CommitWrite
      <4>1. tasks' = [tasks EXCEPT ![handles[call.group][call.handle + 1].task] =
                         [@ EXCEPT !.committed = handles[call.group][call.handle + 1].commit]]
        BY <3>2 DEF CommitWrite
      <4>2. \A x : [tasks[handles[call.group][call.handle + 1].task] EXCEPT !.committed = x].launched
                     = tasks[handles[call.group][call.handle + 1].task].launched
        BY <3>1 DEF Task
      <4> QED
        BY <3>1, <4>1, <4>2
    <3>3. CASE WaitReturn
      <4>1. tasks' = [tasks EXCEPT ![handles[call.group][call.handle + 1].task] =
                         [@ EXCEPT !.observed = handles[call.group][call.handle + 1].wait]]
        BY <3>3 DEF WaitReturn
      <4>2. \A x : [tasks[handles[call.group][call.handle + 1].task] EXCEPT !.observed = x].launched
                     = tasks[handles[call.group][call.handle + 1].task].launched
        BY <3>1 DEF Task
      <4> QED
        BY <3>1, <4>1, <4>2
    <3> QED
      BY <1>2, <3>2, <3>3
  <2>2. TasksSame
    <3>1. tasks \in Seq(Task)
      BY DEF TypeInv
    <3> QED
      BY <2>1, <3>1 DEF TasksSame
  <2>3. UNCHANGED handles
    BY <1>2 DEF CommitWrite, WaitReturn
  <2> QED
    BY <1>2, <2>2, <2>3 DEF CommitWrite, WaitReturn, Return, areaVars, RowsSame, Minor
<1> QED
  BY <1>1, <1>2

\* SendMsg of a Prepare or a sync puts one message at the current position.
LEMMA SendPuts ==
    ASSUME TypeInv, OtherSide
    PROVE  /\ SendPrepare => \E g, p, m : PutTask(g, p, m)
           /\ SendSync => \E g, p, m : PutSync(g, p, m)
<1>1. ASSUME SendPrepare PROVE \E g, p, m : PutTask(g, p, m)
  <2>1. C!SendPrepare /\ UNCHANGED <<C!serverVars, stream>>
    BY <1>1, SameData DEF SendPrepare, C!SendPrepare, PutMsg, C!PutMsg, NextSeq, C!NextSeq,
       Return, C!Return, AdvancePosition, C!AdvancePosition, areaVars, C!areaVars, OtherSide,
       serverVars, C!serverVars
  <2>2. PICK g, p, m, u, hd : C!Prepared(g, p, m, u, hd)
    BY <2>1, TypesThere, ConstantsHold, SameData, C!SendPrepared DEF C!SendPrepared, Constants
  <2>2a. hd.commit <= hd.repeat /\ hd.repeat <= 255
    <3>1. tasks'[u].repeat = hd.repeat /\ hd.repeat \in Nat /\ hd.commit \in {0, hd.repeat} /\ u = Len(tasks')
      BY <2>2 DEF C!Prepared
    <3>2. C!TypeInv'
      <4>1. C!ClientNext
        BY <2>1 DEF C!ClientNext, C!ContinueCall
      <4> QED
        BY <4>1, TypesThere, ConstantsHold, C!ClientType DEF C!ClientType, Constants
    <3>3. tasks' \in Seq(Task) /\ Len(tasks') \in Nat /\ Len(tasks') > 0
      <4>1. tasks' \in Seq(Task)
        BY <3>2, SameData DEF C!TypeInv, C!TypeOK, C!Task, Task
      <4> QED
        BY <2>2, <4>1, Facts DEF C!Prepared
    <3>4. tasks'[u] \in Task
      BY <3>1, <3>3
    <3>5. hd.repeat \in Repeats
      BY <3>1, <3>4 DEF Task
    <3>6. \A r \in Repeats : r <= 255
      BY ConstantsHold DEF Constants
    <3>7. hd.repeat <= 255
      BY <3>5, <3>6
    <3> QED
      BY <3>1, <3>7
  <2>3. /\ Put(g, p, m) /\ m.type = "prepare" /\ call.msg.type = "prepare"
    BY <2>2, SameData, <1>1 DEF C!Prepared, C!Issued, Put, OtherSide, SendPrepare, PutMsg
  <2>4. /\ hd \in Handle /\ handles' = [handles EXCEPT ![g] = Append(@, hd)]
        /\ hd.task = Len(tasks) + 1 /\ hd.pos = p /\ hd.repeat > 0 /\ hd.wait = 0
        /\ m.task = Len(tasks) + 1 /\ m.seq = primitiveId /\ m.handle = Len(handles[g])
        /\ primitiveId' = (primitiveId + 1) % SeqMod
        /\ Len(tasks') = Len(tasks) + 1 /\ ~tasks'[Len(tasks) + 1].launched
        /\ \A t \in 1 .. Len(tasks) : tasks'[t] = tasks[t]
    BY <2>2, SameData DEF C!Prepared, C!Issued, C!NextSeq
  <2> QED
    BY <2>2a, <2>3, <2>4 DEF PutTask
<1>2. ASSUME SendSync PROVE \E g, p, m : PutSync(g, p, m)
  <2> DEFINE g == call.group
             p == curMsgPosition[g]
             m == call.msg
  <2>1. /\ pc = "send" /\ m.type = "sync" /\ sendMsgs[g][p] = NoMsg
        /\ sendMsgs' = [sendMsgs EXCEPT ![g][p] = m]
        /\ curMsgPosition' = [curMsgPosition EXCEPT ![g] = @ + 1]
        /\ pc' = "ready"
        /\ UNCHANGED <<commitTurnCnt, finishedTurnCnt, finalized, launch, primitiveId, handles, tasks>>
    BY <1>2 DEF SendSync, PutMsg, Return, AdvancePosition
  <2>2. ~finalized[g]
    BY <2>1 DEF TypeInv, ClientTypes, C!CallOK
  <2>3. g \in Groups /\ p \in Pos /\ m \in Msg
    BY <2>2, Facts
  <2>4. PutSync(g, p, m)
    BY <2>1, <2>2, <2>3 DEF PutSync, Put
  <2> QED
    BY <2>4
<1> QED
  BY <1>1, <1>2

----------------------------------------------------------------------------
(* The steps that leave places and counts as they are.                      *)

SameMessages == \A g \in Groups, p \in Pos : Message(g, p)' = Message(g, p)
SameServer == UNCHANGED serverVars /\ buffered' = buffered

\* Messages stay when neither the area nor the server changes.
LEMMA MessagesSame == ASSUME UNCHANGED <<sendMsgs, serverVars>> PROVE SameMessages
BY DEF SameMessages, Message, serverVars

\* Places are kept by a step that sends nothing.
LEMMA MinorPlaces == ASSUME TypeInv, Places, Minor PROVE Places'
<1>1. SameMessages
  BY MessagesSame DEF Minor, OtherSide
<1>2. \A g \in Groups : /\ Finalizing(g)' = Finalizing(g) /\ Over(g)' = Over(g)
                        /\ Marked(g)' = Marked(g) /\ Idle(g)' = Idle(g)
  BY DEF Minor, OtherSide, serverVars, Finalizing, Over, Marked, Idle
<1>3. RoundInv' /\ GroupInv'
  BY <1>2 DEF Places, RoundInv, GroupInv, Minor, OtherSide, serverVars
<1>4. SlotInv'
  BY <1>1, <1>2 DEF Places, SlotInv, SlotOK, HandOK, SameMessages, Minor, OtherSide, serverVars
<1> QED
  BY <1>3, <1>4 DEF Places

\* Rows that were launched stay launched when rows stay and tasks are only launched.
LEMMA RowsKept ==
    ASSUME TypeInv, RowsSame, TasksGrow
    PROVE  /\ \A g \in Groups : Len(handles'[g]) = Len(handles[g]) /\ Len(handles[g]) \in Nat
           /\ \A g \in Groups : \A p : RowsLaunched(g, p) => RowsLaunched(g, p)'
           /\ \A g \in Groups : AllLaunched(g) => AllLaunched(g)'
BY Rows DEF RowsSame, TasksGrow, RowsLaunched, AllLaunched

\* Tasks that stay are, all the more, only launched.
LEMMA SameGrow == TypeInv /\ TasksSame => TasksGrow
BY Facts DEF TasksSame, TasksGrow

\* The rows of a group stay before the current position, in the order of their tasks.
LEMMA RowKept ==
    ASSUME TypeInv, RowInv, RowsSame, UNCHANGED curMsgPosition PROVE RowInv'
BY Rows DEF RowInv, RowsSame

\* A message that waits is of a task of the table.
LEMMA MessageTask ==
    ASSUME TypeInv, NEW g \in Groups, NEW p \in Pos, Waits(g, p)
    PROVE  Message(g, p).task \in 1 .. Len(tasks)
BY DEF TypeInv, Links, TaskOf, Waits, Message

\* Each message stays the only one of its task, and the task unlaunched.
LEMMA MessageKept ==
    ASSUME TypeInv, MessageInv, RowsSame, TasksSame, SameMessages PROVE MessageInv'
<1> SUFFICES ASSUME NEW g \in Groups, NEW p \in Pos, Waits(g, p)' PROVE MessageOK(g, p)'
  BY DEF MessageInv
<1>1. \A g2 \in Groups, q \in Pos : /\ Message(g2, q)' = Message(g2, q)
                                    /\ Waits(g2, q)' = Waits(g2, q)
  BY DEF SameMessages, Waits
<1>2. MessageOK(g, p) /\ Message(g, p).task \in 1 .. Len(tasks)
  BY <1>1, MessageTask DEF MessageInv
<1>3. ~tasks'[Message(g, p)'.task].launched
  BY <1>1, <1>2 DEF MessageOK, TasksSame
<1>4. \A i \in 1 .. Len(handles'[g]) : handles'[g][i].pos = p => handles'[g][i].task = Message(g, p)'.task
  BY <1>1, <1>2, Rows DEF MessageOK, RowsSame
<1> QED
  BY <1>1, <1>2, <1>3, <1>4 DEF MessageOK

\* Finished turns stay those of launched rows.
LEMMA FinishKept ==
    ASSUME TypeInv, FinishInv, RowsSame, TasksGrow,
           UNCHANGED <<finishedTurnCnt, curMsgPosition, finalized>>,
           \A g \in Groups : Finalizing(g) /\ Marked(g) => (Finalizing(g) /\ Marked(g))'
    PROVE  FinishInv'
BY RowsKept DEF FinishInv, FinishOK

\* The posts in a stream stay those of launched rows.
LEMMA EntryKept ==
    ASSUME TypeInv, EntryInv, RowsSame, TasksGrow, UNCHANGED <<stream, curMsgPosition>>
    PROVE  EntryInv'
<1> SUFFICES ASSUME NEW g \in Groups, NEW j \in 1 .. Len(stream[g]) PROVE EntryOK(g, stream[g][j])'
  BY DEF EntryInv
<1>1. EntryOK(g, stream[g][j])
  BY DEF EntryInv
<1> QED
  BY <1>1, RowsKept DEF EntryOK

\* A count of commits left behind stays one that an entry clears.
LEMMA CommitKept ==
    ASSUME CommitInv, UNCHANGED <<commitTurnCnt, curMsgPosition, stream>>,
           \A g \in Groups : Over(g)' => Over(g)
    PROVE  CommitInv'
BY DEF CommitInv, CommitOK

\* Counts are kept by a step that sends nothing.
LEMMA MinorCounts ==
    ASSUME TypeInv, Counts, Minor
    PROVE  /\ RowInv' /\ MessageInv' /\ FinishInv' /\ EntryInv'
           /\ UNCHANGED commitTurnCnt => CommitInv'
<1>1. /\ TasksGrow /\ RowsSame /\ TasksSame
      /\ UNCHANGED <<finishedTurnCnt, curMsgPosition, finalized, stream, sendMsgs, serverVars>>
  BY SameGrow DEF Minor, OtherSide
<1>2. \A g \in Groups : /\ Finalizing(g)' = Finalizing(g) /\ Over(g)' = Over(g)
                        /\ Marked(g)' = Marked(g)
  BY DEF Minor, OtherSide, serverVars, Finalizing, Over, Marked
<1>3. MessageInv'
  BY <1>1, MessagesSame, MessageKept DEF Counts
<1> QED
  BY <1>1, <1>2, <1>3, RowKept, FinishKept, EntryKept, CommitKept DEF Counts

\* Commit adds to the count at the position of a task, below the half that FINALIZE
\* uses, and never after its group is over.
LEMMA CommitWriteCounts ==
    ASSUME TypeInv, Places, Counts, BoundInv, OtherSide, CommitWrite
    PROVE  CommitInv'
<1> DEFINE gg == call.group
           hd == handles[gg][call.handle + 1]
<1>1. /\ gg \in Groups /\ hd \in Handle /\ hd.pos \in Pos
      /\ hd.commit < Half /\ hd.pos < curMsgPosition[gg]
  <2>1. pc = "commit"
    BY DEF CommitWrite
  <2>2. gg \in Groups /\ call.handle + 1 \in 1 .. Len(handles[gg])
    BY <2>1, TypesThere, ConstantsHold, SameData, C!CallTask DEF C!CallTask, Constants
  <2>3. hd \in Handle /\ hd.pos < curMsgPosition[gg] /\ hd.commit <= hd.repeat /\ hd.repeat <= 255
    BY <2>2, Rows DEF Counts, RowInv, BoundInv
  <2> QED
    BY <2>2, <2>3 DEF Handle, Half
<1>2. /\ commitTurnCnt' = [commitTurnCnt EXCEPT ![gg][hd.pos] = hd.commit]
      /\ UNCHANGED <<curMsgPosition, stream, launch, serverVars>> /\ pc = "commit"
  BY DEF CommitWrite, OtherSide
<1>3. ~Over(gg)
  BY <1>1, <1>2 DEF Places, GroupInv, Finalizing, TypeInv, ClientTypes, C!CallOK
<1> HIDE DEF gg, hd
<1> SUFFICES ASSUME NEW g \in Groups, NEW p \in Pos PROVE CommitOK(g, p)'
  BY DEF CommitInv
<1>4. Over(g)' = Over(g) /\ CommitOK(g, p)
  BY <1>2 DEF Over, serverVars, Counts, CommitInv
<1>5. CASE g = gg /\ p = hd.pos
  <2>1. commitTurnCnt'[g][p] = hd.commit
    BY <1>1, <1>2, <1>5 DEF TypeInv, AreaTypes
  <2> QED
    BY <1>1, <1>2, <1>3, <1>4, <1>5, <2>1 DEF CommitOK
<1>6. CASE ~(g = gg /\ p = hd.pos)
  <2>1. commitTurnCnt'[g][p] = commitTurnCnt[g][p]
    BY <1>1, <1>2, <1>6 DEF TypeInv, AreaTypes
  <2> QED
    BY <1>2, <1>4, <2>1 DEF CommitOK
<1> QED
  BY <1>5, <1>6

----------------------------------------------------------------------------
(* The client sends a message.                                              *)

\* What a message put at the current position changes: that position, and no other.
LEMMA PutMessages ==
    ASSUME TypeInv, Places, NEW g, NEW p, NEW m, Put(g, p, m), m.type \in {"prepare", "sync"}
    PROVE  /\ g \in Groups /\ p \in Pos /\ p \in Nat /\ p = curMsgPosition[g]
           /\ \A g2 \in Groups, q \in Pos :
                Message(g2, q)' = IF g2 = g /\ q = p THEN m ELSE Message(g2, q)
           /\ curMsgPosition'[g] = p + 1
           /\ \A g2 \in Groups : g2 # g => curMsgPosition'[g2] = curMsgPosition[g2]
           /\ \A g2 \in Groups : /\ ~Finalizing(g2) /\ ~Finalizing(g2)'
                                 /\ Over(g2)' = Over(g2) /\ Marked(g2)' = Marked(g2)
                                 /\ Idle(g2)' = Idle(g2)
           /\ ~Over(g)
<1>1. /\ g \in Groups /\ p \in Pos /\ p \in Nat /\ p = curMsgPosition[g]
      /\ sendMsgs' = [sendMsgs EXCEPT ![g][p] = m] /\ ~finalized[g]
      /\ curMsgPosition' = [curMsgPosition EXCEPT ![g] = @ + 1]
      /\ UNCHANGED <<serverVars, stream, buffered, launch>>
      /\ pc # "finDone" /\ pc' # "finDone" /\ sendMsgs[g][p] = NoMsg
  BY Facts DEF Put, OtherSide
<1>2. \A g2 \in Groups : /\ ~Finalizing(g2) /\ ~Finalizing(g2)'
                         /\ Over(g2)' = Over(g2) /\ Marked(g2)' = Marked(g2)
                         /\ Idle(g2)' = Idle(g2)
  BY <1>1 DEF Finalizing, Over, Marked, Idle, serverVars
<1>3. ~Over(g)
  BY <1>1, <1>2 DEF Places, GroupInv
<1>4. /\ curMsgPosition'[g] = p + 1
      /\ \A g2 \in Groups : g2 # g => curMsgPosition'[g2] = curMsgPosition[g2]
  BY <1>1, SameData DEF TypeInv, ClientTypes, C!ClientTypeOK
<1>5. ~(retryCnt[g] = 1 /\ p = msgPos[g])
  <2> SUFFICES ASSUME retryCnt[g] = 1, p = msgPos[g] PROVE FALSE
    OBVIOUS
  <2>1. Message(g, p) = rcvMsg[g] /\ rcvMsg[g].type \in {"prepare", "sync"}
    BY <1>1 DEF Message, Places, SlotInv, HandOK
  <2>2. Message(g, p) = NoMsg \/ Message(g, p).type = "finalize"
    BY <1>1 DEF Places, SlotInv, SlotOK
  <2> QED
    BY <2>1, <2>2, Facts
<1>6. ASSUME NEW g2 \in Groups, NEW q \in Pos
      PROVE  Message(g2, q)' = IF g2 = g /\ q = p THEN m ELSE Message(g2, q)
  <2>1. sendMsgs'[g2][q] = IF g2 = g /\ q = p THEN m ELSE sendMsgs[g2][q]
    BY <1>1 DEF TypeInv, AreaTypes
  <2> QED
    BY <1>1, <1>5, <2>1 DEF Message, serverVars
<1> QED
  BY <1>1, <1>2, <1>3, <1>4, <1>6

\* Places are kept when a message is put: the server is not past that position.
LEMMA PutPlaces ==
    ASSUME TypeInv, Places, NEW g, NEW p, NEW m, Put(g, p, m), m.type \in {"prepare", "sync"}
    PROVE  Places'
<1>1. /\ g \in Groups /\ p \in Pos /\ p \in Nat /\ p = curMsgPosition[g]
      /\ \A g2 \in Groups, q \in Pos :
            Message(g2, q)' = IF g2 = g /\ q = p THEN m ELSE Message(g2, q)
      /\ curMsgPosition'[g] = p + 1
      /\ \A g2 \in Groups : g2 # g => curMsgPosition'[g2] = curMsgPosition[g2]
      /\ \A g2 \in Groups : /\ ~Finalizing(g2) /\ ~Finalizing(g2)'
                            /\ Over(g2)' = Over(g2) /\ Marked(g2)' = Marked(g2)
                            /\ Idle(g2)' = Idle(g2)
      /\ ~Over(g)
  BY PutMessages
<1>2. /\ UNCHANGED <<serverVars, stream, buffered, launch, finalized>>
      /\ sendMsgs' = [sendMsgs EXCEPT ![g][p] = m] /\ sendMsgs[g][p] = NoMsg
  BY DEF Put, OtherSide
<1>3. RoundInv' /\ GroupInv'
  <2>1. \A g2 \in Groups : msgPos[g2] <= curMsgPosition[g2] => msgPos[g2] <= curMsgPosition'[g2]
    <3>1. \A g2 \in Groups : msgPos[g2] \in Nat /\ curMsgPosition[g2] \in Nat
      BY Facts
    <3> QED
      BY <1>1, <3>1
  <2>2. RoundInv'
    BY <1>1, <1>2 DEF Places, RoundInv, serverVars
  <2>3. GroupInv'
    BY <1>1, <1>2, <2>1 DEF Places, GroupInv, serverVars
  <2> QED
    BY <2>2, <2>3
<1>4. ASSUME NEW g2 \in Groups, NEW q \in Pos PROVE SlotOK(g2, q)'
  <2>1. SlotOK(g2, q) /\ q \in Nat /\ curMsgPosition[g2] \in Nat /\ msgPos[g2] \in Nat
    BY Facts DEF Places, SlotInv
  <2>2. CASE g2 = g /\ q = p
    <3>1. Message(g2, q)' = m /\ ~Over(g2)' /\ curMsgPosition'[g2] = q + 1
      BY <1>1, <2>2
    <3>2. launch = serverLaunch => msgPos[g2] <= q
      BY <1>1, <2>2 DEF Places, GroupInv
    <3> QED
      BY <1>2, <2>1, <3>1, <3>2 DEF SlotOK, serverVars
  <2>3. CASE g2 # g
    BY <1>1, <1>2, <2>1, <2>3 DEF SlotOK, serverVars
  <2>4. CASE g2 = g /\ q # p
    <3>1. Message(g2, q)' = Message(g2, q) /\ curMsgPosition[g2] = p /\ curMsgPosition'[g2] = p + 1
      BY <1>1, <2>4
    <3>2. q > p + 1 => q > p
      BY <1>1, <2>1
    <3>3. q = p + 1 => Message(g2, q) = NoMsg
      BY <1>1, <2>1, <3>1 DEF SlotOK
    <3> QED
      BY <1>1, <1>2, <2>1, <2>4, <3>1, <3>2, <3>3, Facts DEF SlotOK, serverVars
  <2> QED
    BY <2>2, <2>3, <2>4
<1>5. ASSUME NEW g2 \in Groups PROVE HandOK(g2)'
  <2>1. HandOK(g2) /\ msgPos[g2] \in Pos
    BY Facts DEF Places, SlotInv
  <2>2. SUFFICES ASSUME retryCnt[g2] = 1, g2 = g /\ msgPos[g2] = p PROVE FALSE
    <3>1. ~(g2 = g /\ msgPos[g2] = p) => sendMsgs'[g2][msgPos[g2]] = sendMsgs[g2][msgPos[g2]]
      BY <1>1, <1>2, <2>1 DEF TypeInv, AreaTypes
    <3> QED
      BY <1>2, <2>1, <2>2, <3>1 DEF HandOK, serverVars
  <2>3. Message(g, p) = rcvMsg[g] /\ Message(g, p)' = rcvMsg[g]
    BY <1>2, <2>2 DEF Message, serverVars
  <2>4. Message(g, p) = NoMsg \/ Message(g, p).type = "finalize"
    BY <1>1 DEF Places, SlotInv, SlotOK
  <2> QED
    BY <1>1, <2>3, <2>4, Facts
<1> QED
  BY <1>3, <1>4, <1>5 DEF Places, SlotInv

\* The rows after a Prepare message is sent.
NewRow(g, hd) ==
    /\ hd \in Handle /\ hd.task = Len(tasks) + 1 /\ hd.pos = curMsgPosition[g] /\ hd.repeat > 0
    /\ hd.wait = 0 /\ hd.commit <= hd.repeat /\ hd.repeat <= 255
    /\ Len(handles[g]) \in Nat /\ Len(handles'[g]) = Len(handles[g]) + 1
    /\ handles'[g][Len(handles[g]) + 1] = hd
    /\ \A i \in 1 .. Len(handles[g]) : handles'[g][i] = handles[g][i]
    /\ \A g2 \in Groups \ {g} : handles'[g2] = handles[g2]

\* A Prepare adds one row to the table of its group, of a task not yet launched.
LEMMA PutRow ==
    ASSUME TypeInv, NEW g, NEW p, NEW m, PutTask(g, p, m)
    PROVE  /\ \E hd : NewRow(g, hd)
           /\ m.task = Len(tasks) + 1 /\ Len(tasks') = Len(tasks) + 1
           /\ ~tasks'[Len(tasks) + 1].launched
           /\ \A t \in 1 .. Len(tasks) : tasks'[t] = tasks[t]
           /\ TasksGrow
<1>1. PICK hd \in Handle :
        /\ handles' = [handles EXCEPT ![g] = Append(@, hd)]
        /\ hd.task = Len(tasks) + 1 /\ hd.pos = p /\ hd.repeat > 0 /\ hd.wait = 0
        /\ hd.commit <= hd.repeat /\ hd.repeat <= 255
  BY DEF PutTask
<1>2. g \in Groups /\ p = curMsgPosition[g]
  BY DEF PutTask, Put
<1>3. /\ Len(handles'[g]) = Len(handles[g]) + 1
      /\ handles'[g][Len(handles[g]) + 1] = hd
      /\ \A i \in 1 .. Len(handles[g]) : handles'[g][i] = handles[g][i]
      /\ \A g2 \in Groups \ {g} : handles'[g2] = handles[g2]
  <2>1. C!TypeInv /\ g \in C!Groups /\ hd \in C!Handle
    BY <1>1, <1>2, TypesThere, SameData
  <2>2. handles' = [handles EXCEPT ![g] = Append(@, hd)]
    BY <1>1
  <2> QED
    BY <2>1, <2>2, ConstantsHold, SameData, C!RowAdded DEF C!RowAdded, Constants
<1>4. NewRow(g, hd)
  BY <1>1, <1>2, <1>3, Rows DEF NewRow
<1> QED
  BY <1>4, Facts DEF PutTask, TasksGrow

\* The row of a new message takes nothing from positions before it or other groups.
LEMMA RowsAdded ==
    ASSUME TypeInv, RowInv, NEW g \in Groups, NEW hd, NewRow(g, hd), TasksGrow
    PROVE  /\ \A g2 \in Groups, p \in Pos :
                p < curMsgPosition[g2] \/ g2 # g => (RowsLaunched(g2, p) => RowsLaunched(g2, p)')
           /\ \A g2 \in Groups \ {g} : AllLaunched(g2) => AllLaunched(g2)'
<1>1. ASSUME NEW g2 \in Groups \ {g}
      PROVE  /\ AllLaunched(g2) => AllLaunched(g2)'
             /\ \A p : RowsLaunched(g2, p) => RowsLaunched(g2, p)'
  <2>1. handles'[g2] = handles[g2] /\ \A i \in 1 .. Len(handles[g2]) : handles[g2][i].task \in 1 .. Len(tasks)
    BY Rows DEF NewRow
  <2> QED
    BY <2>1 DEF AllLaunched, RowsLaunched, TasksGrow
<1>2. ASSUME NEW p \in Pos, p < curMsgPosition[g], RowsLaunched(g, p)
      PROVE  RowsLaunched(g, p)'
  <2> SUFFICES ASSUME NEW i \in 1 .. Len(handles'[g]), handles'[g][i].pos = p
               PROVE  tasks'[handles'[g][i].task].launched
    BY DEF RowsLaunched
  <2>1. i \in 1 .. Len(handles[g]) /\ handles'[g][i] = handles[g][i]
    <3>1. i = Len(handles[g]) + 1 => handles'[g][i].pos = curMsgPosition[g]
      BY DEF NewRow
    <3>2. p \in Nat /\ curMsgPosition[g] \in Nat
      BY Facts
    <3> QED
      BY <1>2, <3>1, <3>2 DEF NewRow
  <2> QED
    BY <1>2, <2>1, Rows DEF RowsLaunched, TasksGrow
<1> QED
  BY <1>1, <1>2

\* Rows stay in the order of positions and tasks when a Prepare adds one.
LEMMA PutRows ==
    ASSUME TypeInv, Places, RowInv, NEW g, NEW p, NEW m, PutTask(g, p, m) PROVE RowInv'
<1>1. Put(g, p, m) /\ m.type = "prepare"
  BY DEF PutTask
<1>2. PICK hd : NewRow(g, hd)
  BY PutRow
<1>3. /\ g \in Groups /\ p \in Nat /\ p = curMsgPosition[g] /\ curMsgPosition'[g] = p + 1
      /\ \A g2 \in Groups : g2 # g => curMsgPosition'[g2] = curMsgPosition[g2]
  BY <1>1, PutMessages
<1> SUFFICES ASSUME NEW g2 \in Groups, NEW i \in 1 .. Len(handles'[g2])
             PROVE  /\ handles'[g2][i].pos < curMsgPosition'[g2] /\ handles'[g2][i].repeat > 0
                    /\ \A j \in 1 .. Len(handles'[g2]) :
                          i < j => handles'[g2][i].task < handles'[g2][j].task
  BY DEF RowInv
<1>4. CASE g2 # g
  <2>1. handles'[g2] = handles[g2] /\ curMsgPosition'[g2] = curMsgPosition[g2]
    BY <1>2, <1>3, <1>4 DEF NewRow
  <2> QED
    BY <2>1 DEF RowInv
<1>5. CASE g2 = g
  <2>1. \A j \in 1 .. Len(handles'[g]) :
            \/ j \in 1 .. Len(handles[g]) /\ handles'[g][j] = handles[g][j]
            \/ j = Len(handles[g]) + 1 /\ handles'[g][j] = hd
    BY <1>2 DEF NewRow
  <2>2. \A j \in 1 .. Len(handles[g]) :
          /\ handles[g][j].pos < p /\ handles[g][j].repeat > 0 /\ handles[g][j].pos \in Nat
          /\ handles[g][j].task \in Nat /\ handles[g][j].task < Len(tasks) + 1
    BY <1>3, Rows, Facts DEF RowInv
  <2>3. hd.pos = p /\ hd.repeat > 0 /\ hd.task = Len(tasks) + 1 /\ Len(handles[g]) \in Nat
    BY <1>2, <1>3 DEF NewRow
  <2>4. handles'[g][i].pos < p + 1 /\ handles'[g][i].repeat > 0
    <3>1. CASE i \in 1 .. Len(handles[g]) /\ handles'[g][i] = handles[g][i]
      BY <1>3, <2>2, <3>1
    <3>2. CASE handles'[g][i] = hd
      BY <1>3, <2>3, <3>2
    <3> QED
      BY <1>5, <2>1, <3>1, <3>2
  <2>5. ASSUME NEW j \in 1 .. Len(handles'[g]), i < j
        PROVE  handles'[g][i].task < handles'[g][j].task
    <3>1. i \in 1 .. Len(handles[g]) /\ handles'[g][i] = handles[g][i]
      BY <1>2, <1>5, <2>1, <2>3, <2>5 DEF NewRow
    <3>2. CASE j \in 1 .. Len(handles[g]) /\ handles'[g][j] = handles[g][j]
      BY <1>3, <2>5, <3>1, <3>2 DEF RowInv
    <3>3. CASE j = Len(handles[g]) + 1 /\ handles'[g][j] = hd
      BY <2>2, <2>3, <3>1, <3>3
    <3> QED
      BY <2>1, <3>2, <3>3
  <2> QED
    BY <1>3, <1>5, <2>4, <2>5
<1> QED
  BY <1>4, <1>5

\* A new message is the only one of its task.
LEMMA PutMessage ==
    ASSUME TypeInv, Places, RowInv, MessageInv, NEW g, NEW p, NEW m,
           PutTask(g, p, m) \/ PutSync(g, p, m)
    PROVE  MessageInv'
<1>1. Put(g, p, m) /\ m.type \in {"prepare", "sync"}
  BY DEF PutTask, PutSync
<1>2. /\ g \in Groups /\ p \in Pos /\ p = curMsgPosition[g] /\ p \in Nat
      /\ \A g2 \in Groups, q \in Pos :
            Message(g2, q)' = IF g2 = g /\ q = p THEN m ELSE Message(g2, q)
  BY <1>1, PutMessages
<1>3. \A g2 \in Groups, q \in Pos :
          Waits(g2, q)' <=> IF g2 = g /\ q = p THEN m.type = "prepare" ELSE Waits(g2, q)
  BY <1>2 DEF Waits
<1>4. \A g2 \in Groups, q \in Pos : Waits(g2, q) =>
          MessageOK(g2, q) /\ Message(g2, q).task \in 1 .. Len(tasks)
  BY MessageTask DEF MessageInv
<1>5. CASE PutSync(g, p, m)
  <2>1. UNCHANGED <<handles, tasks>> /\ m.type # "prepare"
    BY <1>5 DEF PutSync
  <2> SUFFICES ASSUME NEW g2 \in Groups, NEW q \in Pos, Waits(g2, q)' PROVE MessageOK(g2, q)'
    BY DEF MessageInv
  <2>2. ~(g2 = g /\ q = p) /\ Waits(g2, q) /\ Message(g2, q)' = Message(g2, q)
    BY <1>2, <1>3, <2>1
  <2>3. MessageOK(g2, q)
    BY <1>4, <2>2
  <2> QED
    BY <1>2, <1>3, <2>1, <2>2, <2>3 DEF MessageOK
<1>6. CASE PutTask(g, p, m)
  <2>1. PICK hd : NewRow(g, hd)
    BY <1>6, PutRow
  <2>2. /\ m.task = Len(tasks) + 1 /\ ~tasks'[Len(tasks) + 1].launched
        /\ \A t \in 1 .. Len(tasks) : tasks'[t] = tasks[t]
    BY <1>6, PutRow
  <2>3. Len(tasks) \in Nat /\ \A q \in Pos : q \in Nat
    BY Facts
  <2>4. \A j \in 1 .. Len(handles'[g]) :
            \/ j \in 1 .. Len(handles[g]) /\ handles'[g][j] = handles[g][j]
            \/ j = Len(handles[g]) + 1 /\ handles'[g][j] = hd
    BY <2>1 DEF NewRow
  <2>5. hd.pos = p /\ hd.task = m.task
    BY <1>2, <2>1, <2>2 DEF NewRow
  <2>6. ASSUME Waits(g, p)' PROVE MessageOK(g, p)'
    <3>1. Message(g, p)' = m
      BY <1>2
    <3>2. ASSUME NEW j \in 1 .. Len(handles'[g]), handles'[g][j].pos = p
          PROVE  handles'[g][j].task = m.task
      <4>1. j \in 1 .. Len(handles[g]) => handles[g][j].pos < p /\ handles[g][j].pos \in Nat
        BY <1>2, Rows DEF RowInv, Pos
      <4> QED
        BY <1>2, <2>3, <2>4, <2>5, <3>2, <4>1
    <3>3. ASSUME NEW g3 \in Groups, NEW r \in Pos, Waits(g3, r)', Message(g3, r)'.task = m.task
          PROVE  g3 = g /\ r = p
      BY <1>2, <1>3, <1>4, <2>2, <2>3, <3>3
    <3> QED
      BY <2>2, <3>1, <3>2, <3>3 DEF MessageOK
  <2>7. ASSUME NEW g2 \in Groups, NEW q \in Pos, Waits(g2, q)', ~(g2 = g /\ q = p)
        PROVE  MessageOK(g2, q)'
    <3>1. /\ Waits(g2, q) /\ Message(g2, q)' = Message(g2, q) /\ MessageOK(g2, q)
          /\ Message(g2, q).task \in 1 .. Len(tasks)
      BY <1>2, <1>3, <1>4, <2>7
    <3>2. ~tasks'[Message(g2, q)'.task].launched
      BY <2>2, <3>1 DEF MessageOK
    <3>3. ASSUME NEW j \in 1 .. Len(handles'[g2]), handles'[g2][j].pos = q
          PROVE  handles'[g2][j].task = Message(g2, q).task
      <4>1. CASE g2 # g
        BY <2>1, <3>1, <3>3, <4>1 DEF NewRow, MessageOK
      <4>2. CASE g2 = g
        BY <2>4, <2>5, <2>7, <3>1, <3>3, <4>2 DEF MessageOK
      <4> QED
        BY <4>1, <4>2
    <3>4. ASSUME NEW g3 \in Groups, NEW r \in Pos, Waits(g3, r)', Message(g3, r)'.task = Message(g2, q).task
          PROVE  g3 = g2 /\ r = q
      <4>1. ~(g3 = g /\ r = p)
        BY <1>2, <2>2, <2>3, <3>1, <3>4
      <4> QED
        BY <1>2, <1>3, <3>1, <3>4, <4>1 DEF MessageOK
    <3> QED
      BY <3>1, <3>2, <3>3, <3>4 DEF MessageOK
  <2> QED
    BY <2>6, <2>7 DEF MessageInv
<1> QED
  BY <1>5, <1>6

\* Counts are kept when a message is put: its position was unused.
LEMMA PutCounts ==
    ASSUME TypeInv, Places, Counts, NEW g, NEW p, NEW m, PutTask(g, p, m) \/ PutSync(g, p, m)
    PROVE  Counts'
<1>1. Put(g, p, m) /\ m.type \in {"prepare", "sync"}
  BY DEF PutTask, PutSync
<1>2. /\ g \in Groups /\ p \in Pos /\ p = curMsgPosition[g] /\ p \in Nat
      /\ curMsgPosition'[g] = p + 1
      /\ \A g2 \in Groups : g2 # g => curMsgPosition'[g2] = curMsgPosition[g2]
      /\ \A g2 \in Groups : ~Finalizing(g2) /\ Over(g2)' = Over(g2)
      /\ UNCHANGED <<commitTurnCnt, finishedTurnCnt, finalized, stream>>
  BY <1>1, PutMessages DEF Put, OtherSide
<1>3. RowInv'
  <2>1. CASE PutSync(g, p, m)
    <3>1. UNCHANGED handles /\ \A g2 \in Groups : curMsgPosition[g2] \in Nat
      BY <2>1, Facts DEF PutSync
    <3>2. ASSUME NEW g2 \in Groups, NEW i \in 1 .. Len(handles[g2])
          PROVE  handles[g2][i].pos < curMsgPosition'[g2]
      <4>1. handles[g2][i].pos < curMsgPosition[g2] /\ handles[g2][i].pos \in Nat
        BY Rows DEF Counts, RowInv, Pos
      <4> QED
        BY <1>2, <3>1, <4>1
    <3> QED
      BY <3>1, <3>2 DEF Counts, RowInv
  <2> QED
    BY <2>1, PutRows DEF Counts
<1>4. MessageInv'
  BY PutMessage DEF Counts
<1>5. \A g2 \in Groups, q \in Pos : q < curMsgPosition[g2] =>
          (RowsLaunched(g2, q) => RowsLaunched(g2, q)') /\ q < curMsgPosition'[g2]
  <2>1. \A g2 \in Groups, q \in Pos : q < curMsgPosition[g2] => q < curMsgPosition'[g2]
    BY <1>2, Facts
  <2>2. CASE PutSync(g, p, m)
    BY <2>1, <2>2 DEF PutSync, RowsLaunched
  <2>3. CASE PutTask(g, p, m)
    <3>1. PICK hd : NewRow(g, hd)
      BY <2>3, PutRow
    <3> QED
      BY <1>2, <2>1, <2>3, <3>1, PutRow, RowsAdded DEF Counts
  <2> QED
    BY <2>2, <2>3
<1>6. FinishInv'
  <2> SUFFICES ASSUME NEW g2 \in Groups, NEW q \in Pos PROVE FinishOK(g2, q)'
    BY DEF FinishInv
  <2>1. FinishOK(g2, q)
    BY DEF Counts, FinishInv
  <2> QED
    BY <1>2, <1>5, <2>1 DEF FinishOK
<1>7. EntryInv'
  <2> SUFFICES ASSUME NEW g2 \in Groups, NEW j \in 1 .. Len(stream[g2])
               PROVE  EntryOK(g2, stream[g2][j])'
    BY <1>2 DEF EntryInv
  <2>1. EntryOK(g2, stream[g2][j]) /\ stream[g2][j].pos \in Pos
    BY Entries DEF Counts, EntryInv
  <2> QED
    BY <1>2, <1>5, <2>1 DEF EntryOK
<1>8. CommitInv'
  <2> SUFFICES ASSUME NEW g2 \in Groups, NEW q \in Pos PROVE CommitOK(g2, q)'
    BY DEF CommitInv
  <2>1. CommitOK(g2, q)
    BY DEF Counts, CommitInv
  <2> QED
    BY <1>2, <1>5, <2>1 DEF CommitOK
<1> QED
  BY <1>3, <1>4, <1>6, <1>7, <1>8 DEF Counts

----------------------------------------------------------------------------
(* The client ends a group, or begins a launch.                             *)

FinalizeSent(g, p) ==
    /\ OtherSide
    /\ g \in Groups /\ p \in Pos /\ p = curMsgPosition[g] /\ g = call.group /\ ~finalized[g]
    /\ pc = "send" /\ pc' = "finDone" /\ call' = call /\ call.msg.type = "finalize"
    /\ sendMsgs[g][p] = NoMsg /\ sendMsgs' = [sendMsgs EXCEPT ![g][p] = call.msg]
    /\ primitiveId' = 0
    /\ UNCHANGED <<commitTurnCnt, finishedTurnCnt, curMsgPosition, finalized, launch, handles, tasks>>

\* SendMsg of FINALIZE leaves the position where it is, and starts numbers again.
LEMMA SendsFinalize ==
    ASSUME TypeInv, DoneInv, OtherSide, SendFinalize PROVE \E g, p : FinalizeSent(g, p)
<1>1. pc = "send" /\ call.msg.type = "finalize" /\ call.flag
  BY DEF SendFinalize, PutMsg, DoneInv, FinalizeCall
<1>2. ~finalized[call.group]
  BY <1>1 DEF TypeInv, ClientTypes, C!CallOK
<1>3. call.group \in Groups /\ curMsgPosition[call.group] \in Pos
  BY <1>2, Facts
<1>4. FinalizeSent(call.group, curMsgPosition[call.group])
  BY <1>1, <1>2, <1>3 DEF SendFinalize, PutMsg, GoOn, FinalizeSent
<1> QED
  BY <1>4

\* What the FINALIZE message changes: its position, and the group that is ending.
LEMMA FinalizeMessages ==
    ASSUME TypeInv, Places, NEW g, NEW p, FinalizeSent(g, p)
    PROVE  /\ \A g2 \in Groups, q \in Pos :
                Message(g2, q)' = IF g2 = g /\ q = p THEN call.msg ELSE Message(g2, q)
           /\ \A g2 \in Groups : /\ ~Finalizing(g2) /\ (Finalizing(g2)' <=> g2 = g)
                                 /\ Over(g2)' = Over(g2) /\ Marked(g2)' = Marked(g2)
                                 /\ Idle(g2)' = Idle(g2)
           /\ ~Over(g)
           /\ ~(retryCnt[g] = 1 /\ p = msgPos[g])
<1>1. \A g2 \in Groups : /\ ~Finalizing(g2) /\ (Finalizing(g2)' <=> g2 = g)
                         /\ Over(g2)' = Over(g2) /\ Marked(g2)' = Marked(g2)
                         /\ Idle(g2)' = Idle(g2)
  BY DEF FinalizeSent, OtherSide, Finalizing, Over, Marked, Idle, serverVars
<1>2. ~Over(g)
  BY <1>1 DEF Places, GroupInv, FinalizeSent
<1>3. ~(retryCnt[g] = 1 /\ p = msgPos[g])
  <2> SUFFICES ASSUME retryCnt[g] = 1, p = msgPos[g] PROVE FALSE
    OBVIOUS
  <2>1. Message(g, p) = rcvMsg[g] /\ rcvMsg[g].type \in {"prepare", "sync"}
    BY DEF Message, Places, SlotInv, HandOK, FinalizeSent
  <2>2. Message(g, p) = NoMsg \/ Message(g, p).type = "finalize"
    BY DEF Places, SlotInv, SlotOK, FinalizeSent
  <2> QED
    BY <2>1, <2>2, Facts
<1>4. ASSUME NEW g2 \in Groups, NEW q \in Pos
      PROVE  Message(g2, q)' = IF g2 = g /\ q = p THEN call.msg ELSE Message(g2, q)
  <2>1. sendMsgs'[g2][q] = IF g2 = g /\ q = p THEN call.msg ELSE sendMsgs[g2][q]
    BY DEF TypeInv, AreaTypes, FinalizeSent
  <2> QED
    BY <1>3, <2>1 DEF Message, serverVars, FinalizeSent, OtherSide
<1> QED
  BY <1>1, <1>2, <1>3, <1>4

\* Places and counts are kept when FINALIZE is sent.
LEMMA FinalizeSentKeeps ==
    ASSUME TypeInv, Places, Counts, NEW g, NEW p, FinalizeSent(g, p) PROVE Places' /\ Counts'
<1>1. /\ \A g2 \in Groups, q \in Pos :
            Message(g2, q)' = IF g2 = g /\ q = p THEN call.msg ELSE Message(g2, q)
      /\ \A g2 \in Groups : /\ ~Finalizing(g2) /\ (Finalizing(g2)' <=> g2 = g)
                            /\ Over(g2)' = Over(g2) /\ Marked(g2)' = Marked(g2)
                            /\ Idle(g2)' = Idle(g2)
      /\ ~Over(g)
      /\ ~(retryCnt[g] = 1 /\ p = msgPos[g])
  BY FinalizeMessages
<1>2. /\ g \in Groups /\ p \in Pos /\ p = curMsgPosition[g] /\ call.msg.type = "finalize"
      /\ sendMsgs' = [sendMsgs EXCEPT ![g][p] = call.msg]
      /\ UNCHANGED <<serverVars, stream, buffered, commitTurnCnt, finishedTurnCnt, curMsgPosition,
                     finalized, launch, handles, tasks>>
  BY DEF FinalizeSent, OtherSide
<1>3. RoundInv' /\ GroupInv'
  BY <1>1, <1>2 DEF Places, RoundInv, GroupInv, Over, serverVars
<1>4. ASSUME NEW g2 \in Groups, NEW q \in Pos PROVE SlotOK(g2, q)'
  <2>1. SlotOK(g2, q) /\ q \in Nat /\ curMsgPosition[g2] \in Nat /\ msgPos[g2] \in Nat
    BY Facts DEF Places, SlotInv
  <2>2. CASE g2 = g /\ q = p
    <3>1. launch = serverLaunch => msgPos[g2] <= q
      BY <1>2, <2>2 DEF Places, GroupInv
    <3> QED
      BY <1>1, <1>2, <2>1, <2>2, <3>1 DEF SlotOK, serverVars
  <2>3. CASE ~(g2 = g /\ q = p)
    BY <1>1, <1>2, <2>1, <2>3 DEF SlotOK, serverVars
  <2> QED
    BY <2>2, <2>3
<1>5. ASSUME NEW g2 \in Groups PROVE HandOK(g2)'
  <2>1. HandOK(g2) /\ msgPos[g2] \in Pos
    BY Facts DEF Places, SlotInv
  <2>2. retryCnt[g2] = 1 => sendMsgs'[g2][msgPos[g2]] = sendMsgs[g2][msgPos[g2]]
    BY <1>1, <1>2, <2>1 DEF TypeInv, AreaTypes
  <2> QED
    BY <1>2, <2>1, <2>2 DEF HandOK, serverVars
<1>6. Places'
  BY <1>3, <1>4, <1>5 DEF Places, SlotInv
<1>7. RowInv' /\ EntryInv' /\ CommitInv'
  BY <1>1, <1>2 DEF Counts, RowInv, EntryInv, EntryOK, RowsLaunched, CommitInv, CommitOK
<1>8. FinishInv'
  BY <1>1, <1>2 DEF Counts, FinishInv, FinishOK, RowsLaunched
<1>9. MessageInv'
  <2>1. \A g2 \in Groups, q \in Pos :
          Waits(g2, q)' => Waits(g2, q) /\ Message(g2, q)' = Message(g2, q)
    BY <1>1, <1>2 DEF Waits
  <2> SUFFICES ASSUME NEW g2 \in Groups, NEW q \in Pos, Waits(g2, q)' PROVE MessageOK(g2, q)'
    BY DEF MessageInv
  <2>2. MessageOK(g2, q) /\ Message(g2, q)' = Message(g2, q)
    BY <2>1 DEF Counts, MessageInv
  <2> QED
    BY <1>2, <2>1, <2>2 DEF MessageOK
<1> QED
  BY <1>6, <1>7, <1>8, <1>9 DEF Counts

\* FinalizeDone finds the marker of its group.
LEMMA DoneMarked ==
    ASSUME TypeInv, Counts, FinalizeDone, NEW g, g = call.group
    PROVE  /\ g \in Groups /\ ~finalized[g] /\ Marked(g) /\ Finalizing(g)
           /\ curMsgPosition[g] \in Pos
           /\ curMsgPosition'[g] = curMsgPosition[g] + 1 /\ finalized'[g]
           /\ \A p \in Pos : finishedTurnCnt'[g][p] = 0
           /\ \A g2 \in Groups : /\ ~Finalizing(g2)' /\ (Finalizing(g2) => g2 = g)
                                 /\ g2 # g => /\ curMsgPosition'[g2] = curMsgPosition[g2]
                                              /\ finalized'[g2] = finalized[g2]
                                              /\ finishedTurnCnt'[g2] = finishedTurnCnt[g2]
<1>1. /\ pc = "finDone" /\ g \in Groups /\ ~finalized[g] /\ curMsgPosition[g] \in Pos
      /\ pc' = "ready" /\ Finalizing(g)
  <2>1. pc = "finDone" /\ pc' = "ready"
    BY DEF FinalizeDone, Return
  <2>2. ~finalized[g]
    BY <2>1 DEF TypeInv, ClientTypes, C!CallOK
  <2> QED
    BY <2>1, <2>2, Facts DEF Finalizing
<1>2. finishedTurnCnt[g][curMsgPosition[g]] # 0
  BY ConstantsHold DEF FinalizeDone, Constants
<1>3. Marked(g)
  <2>1. FinishOK(g, curMsgPosition[g]) /\ curMsgPosition[g] \in Nat
    BY <1>1, Facts DEF Counts, FinishInv
  <2> QED
    BY <1>2, <2>1 DEF FinishOK
<1>4. /\ curMsgPosition'[g] = curMsgPosition[g] + 1 /\ finalized'[g]
      /\ \A g2 \in Groups : g2 # g => /\ curMsgPosition'[g2] = curMsgPosition[g2]
                                      /\ finalized'[g2] = finalized[g2]
  BY <1>1, SameData DEF FinalizeDone, AdvancePosition, TypeInv, ClientTypes, C!ClientTypeOK
<1>5. /\ \A p \in Pos : finishedTurnCnt'[g][p] =
            IF p <= curMsgPosition[g] THEN 0 ELSE finishedTurnCnt[g][p]
      /\ \A g2 \in Groups : g2 # g => finishedTurnCnt'[g2] = finishedTurnCnt[g2]
  BY <1>1 DEF FinalizeDone, ResetFinishedTurnCnt, TypeInv, AreaTypes
<1>6. ASSUME NEW p \in Pos PROVE finishedTurnCnt'[g][p] = 0
  <2>1. FinishOK(g, p) /\ p \in Nat /\ curMsgPosition[g] \in Nat
    BY <1>1, Facts DEF Counts, FinishInv
  <2> QED
    BY <1>5, <2>1 DEF FinishOK
<1> QED
  BY <1>1, <1>3, <1>4, <1>5, <1>6 DEF Finalizing

\* Places and counts are kept when Finalize<true> clears what its group used.
LEMMA FinalizeDoneKeeps ==
    ASSUME TypeInv, Places, Counts, OtherSide, FinalizeDone PROVE Places' /\ Counts'
<1> DEFINE g == call.group
<1>1. /\ g \in Groups /\ ~finalized[g] /\ Marked(g) /\ Finalizing(g)
      /\ curMsgPosition[g] \in Pos
      /\ curMsgPosition'[g] = curMsgPosition[g] + 1 /\ finalized'[g]
      /\ \A p \in Pos : finishedTurnCnt'[g][p] = 0
      /\ \A g2 \in Groups : /\ ~Finalizing(g2)' /\ (Finalizing(g2) => g2 = g)
                            /\ g2 # g => /\ curMsgPosition'[g2] = curMsgPosition[g2]
                                         /\ finalized'[g2] = finalized[g2]
                                         /\ finishedTurnCnt'[g2] = finishedTurnCnt[g2]
  BY DoneMarked
<1>2. /\ UNCHANGED <<sendMsgs, serverVars, stream, buffered, commitTurnCnt, launch, handles, tasks>>
      /\ SameMessages
  BY MessagesSame DEF FinalizeDone, OtherSide
<1> HIDE DEF g
<1>3. /\ Over(g)
      /\ \A g2 \in Groups : /\ Over(g2)' = Over(g2) /\ Marked(g2)' = Marked(g2)
                            /\ Idle(g2)' = Idle(g2)
  BY <1>1, <1>2 DEF Over, Marked, Idle, serverVars, Places, GroupInv
<1>4. \A g2 \in Groups : /\ curMsgPosition[g2] \in Nat /\ curMsgPosition'[g2] \in Nat
                         /\ curMsgPosition[g2] <= curMsgPosition'[g2] /\ msgPos[g2] \in Nat
  BY <1>1, Facts
<1>5. RoundInv'
  BY <1>1, <1>2 DEF Places, RoundInv, serverVars
<1>6. GroupInv'
  <2> SUFFICES ASSUME NEW g2 \in Groups
               PROVE  (/\ finishFlag[g2] => finalizeFlag[g2]
                       /\ finalizeFlag[g2] => buffered[g2] = <<>> /\ retryCnt[g2] = 0
                       /\ finishFlag[g2] \/ launch < serverLaunch => Idle(g2)
                       /\ Over(g2) => finalized[g2] \/ Finalizing(g2)
                       /\ finalized[g2] => Marked(g2)
                       /\ launch = serverLaunch => msgPos[g2] <= curMsgPosition[g2]
                       /\ launch = serverLaunch /\ finalizeFlag[g2] /\ Finalizing(g2)
                            => msgPos[g2] = curMsgPosition[g2])'
    BY DEF GroupInv
  <2>1. /\ finishFlag[g2] => finalizeFlag[g2]
        /\ finalizeFlag[g2] => buffered[g2] = <<>> /\ retryCnt[g2] = 0
        /\ finishFlag[g2] \/ launch < serverLaunch => Idle(g2)
        /\ Over(g2) => finalized[g2] \/ Finalizing(g2)
        /\ finalized[g2] => Marked(g2)
        /\ launch = serverLaunch => msgPos[g2] <= curMsgPosition[g2]
    BY DEF Places, GroupInv
  <2> QED
    BY <1>1, <1>2, <1>3, <1>4, <2>1 DEF serverVars
<1>7. ASSUME NEW g2 \in Groups, NEW q \in Pos PROVE SlotOK(g2, q)'
  <2>1. SlotOK(g2, q) /\ Message(g2, q)' = Message(g2, q) /\ NoMsg.type # "finalize"
    BY <1>2, Facts DEF Places, SlotInv, SameMessages
  <2>2. CASE g2 = g
    <3>1. Message(g2, q) = NoMsg
      BY <1>3, <2>1, <2>2 DEF SlotOK
    <3> QED
      BY <2>1, <3>1 DEF SlotOK
  <2>3. CASE g2 # g
    BY <1>1, <1>2, <1>3, <2>1, <2>3 DEF SlotOK, serverVars
  <2> QED
    BY <2>2, <2>3
<1>8. \A g2 \in Groups : HandOK(g2)'
  BY <1>2 DEF Places, SlotInv, HandOK, serverVars
<1>9. RowInv'
  <2> SUFFICES ASSUME NEW g2 \in Groups, NEW i \in 1 .. Len(handles[g2])
               PROVE  handles[g2][i].pos < curMsgPosition'[g2]
    BY <1>2 DEF Counts, RowInv
  <2>1. handles[g2][i].pos < curMsgPosition[g2] /\ handles[g2][i].pos \in Nat
    BY Rows DEF Counts, RowInv, Pos
  <2> QED
    BY <1>4, <2>1
<1>10. MessageInv'
  <2>1. RowsSame /\ TasksSame
    BY <1>2, Facts DEF RowsSame, TasksSame
  <2> QED
    BY <1>2, <2>1, MessageKept DEF Counts
<1>11. FinishInv'
  <2> SUFFICES ASSUME NEW g2 \in Groups, NEW q \in Pos PROVE FinishOK(g2, q)'
    BY DEF FinishInv
  <2>1. FinishOK(g2, q)
    BY DEF Counts, FinishInv
  <2> QED
    BY <1>1, <1>2, <2>1 DEF FinishOK, RowsLaunched
<1>12. EntryInv'
  <2> SUFFICES ASSUME NEW g2 \in Groups, NEW j \in 1 .. Len(stream[g2])
               PROVE  EntryOK(g2, stream[g2][j])'
    BY <1>2 DEF EntryInv
  <2>1. EntryOK(g2, stream[g2][j]) /\ stream[g2][j].pos \in Nat
    BY Entries, Facts DEF Counts, EntryInv
  <2> QED
    BY <1>2, <1>4, <2>1 DEF EntryOK, RowsLaunched
<1>13. CommitInv'
  <2> SUFFICES ASSUME NEW g2 \in Groups, NEW q \in Pos PROVE CommitOK(g2, q)'
    BY DEF CommitInv
  <2>1. CommitOK(g2, q) /\ q \in Nat
    BY Facts DEF Counts, CommitInv
  <2> QED
    BY <1>2, <1>3, <1>4, <2>1 DEF CommitOK
<1> QED
  BY <1>5, <1>6, <1>7, <1>8, <1>9, <1>10, <1>11, <1>12, <1>13 DEF Places, SlotInv, Counts

\* Places and counts are kept when the next launch of the client starts with new
\* tables: the server has ended every group of the one before.
LEMMA NextLaunchKeeps ==
    ASSUME TypeInv, Places, Counts, OtherSide, NextLaunch PROVE Places' /\ Counts'
<1>1. /\ UNCHANGED <<sendMsgs, serverVars, stream, buffered, commitTurnCnt, finishedTurnCnt, tasks>>
      /\ pc = "ready" /\ pc' = "ready" /\ launch' = launch + 1
      /\ \A g \in Groups : /\ finalized[g] /\ ~finalized'[g] /\ curMsgPosition'[g] = 0
                           /\ handles'[g] = <<>> /\ ~Finalizing(g) /\ ~Finalizing(g)'
      /\ SameMessages
  BY MessagesSame DEF NextLaunch, OtherSide, areaVars, PerGroup, Finalizing
<1>2. \A g \in Groups : Marked(g) /\ Over(g) /\ Idle(g)
  BY <1>1 DEF Places, GroupInv, Marked, Over
<1>3. /\ launch \in Nat /\ serverLaunch \in Nat /\ launch <= serverLaunch
      /\ \A g \in Groups : ~Over(g)'
      /\ launch' = serverLaunch => \A g \in Groups : msgPos[g] = 0
      /\ launch' > serverLaunch => \A g \in Groups : finishFlag[g]
      /\ launch' <= serverLaunch + 1 /\ serverLaunch <= launch' + 1 /\ ~(launch' < serverLaunch)
  <2>1. launch \in Nat /\ serverLaunch \in Nat /\ 0 \in Groups
    BY Facts, ConstantsHold DEF Groups, Constants
  <2>2. CASE launch < serverLaunch
    <3>1. launch' = serverLaunch /\ serverLaunch = launch + 1
      BY <1>1, <2>1, <2>2 DEF Places, RoundInv
    <3>2. \A g \in Groups : msgPos[g] = 0 /\ ~finalizeFlag[g]
      BY <2>2 DEF Places, RoundInv
    <3>3. \A g \in Groups : ~Over(g)'
      BY <1>1, <2>1, <3>1, <3>2 DEF Over, serverVars
    <3> QED
      BY <1>1, <2>1, <2>2, <3>1, <3>2, <3>3
  <2>3. CASE ~(launch < serverLaunch)
    <3>1. launch = serverLaunch /\ \A g \in Groups : finishFlag[g]
      BY <1>2, <2>1, <2>3 DEF Marked
    <3>2. \A g \in Groups : ~Over(g)'
      BY <1>1, <2>1, <3>1 DEF Over, serverVars
    <3> QED
      BY <1>1, <2>1, <3>1, <3>2
  <2> QED
    BY <2>2, <2>3
<1>4. \A g \in Groups, p \in Pos : Message(g, p)' = NoMsg
  BY <1>1, <1>2 DEF SameMessages, Places, SlotInv, SlotOK
<1>5. RoundInv'
  BY <1>1, <1>3 DEF Places, RoundInv, serverVars
<1>6. GroupInv'
  BY <1>1, <1>2, <1>3 DEF Places, GroupInv, Idle, serverVars
<1>7. SlotInv'
  <2>1. \A g \in Groups : HandOK(g)'
    BY <1>1, <1>2 DEF HandOK, Idle, serverVars
  <2>2. \A g \in Groups, p \in Pos : SlotOK(g, p)'
    BY <1>4, Facts DEF SlotOK
  <2> QED
    BY <2>1, <2>2 DEF SlotInv
<1>8. RowInv' /\ MessageInv' /\ EntryInv'
  <2>1. \A g \in Groups : Len(handles'[g]) = 0 /\ Len(stream'[g]) = 0
    BY <1>1, <1>2 DEF Idle
  <2>2. \A g \in Groups, p \in Pos : ~Waits(g, p)'
    BY <1>4, Facts DEF Waits
  <2> QED
    BY <2>1, <2>2 DEF RowInv, MessageInv, EntryInv
<1>9. FinishInv'
  BY <1>1 DEF Counts, FinishInv, FinishOK
<1>10. CommitInv'
  <2>1. \A g \in Groups : Len(stream[g]) = 0
    BY <1>2 DEF Idle
  <2> QED
    BY <1>1, <1>2, <2>1 DEF Counts, CommitInv, CommitOK
<1> QED
  BY <1>5, <1>6, <1>7, <1>8, <1>9, <1>10 DEF Places, Counts

----------------------------------------------------------------------------
(* The server's steps.                                                      *)

\* The server is at a message of its own launch.
LEMMA ProcessFacts ==
    ASSUME TypeInv, Places, NEW g \in Groups, NEW type, Process(g, type)
    PROVE  /\ server = "run" /\ launch = serverLaunch /\ ~finalized[g] /\ ~finalizeFlag[g]
           /\ ~finishFlag[g] /\ ~Over(g) /\ ~Marked(g) /\ msgPos[g] \in Pos /\ msgPos[g] \in Nat
           /\ SlotNow(g) = Message(g, msgPos[g]) /\ SlotNow(g) # NoMsg
           /\ sendMsgs'[g][msgPos[g]] = NoMsg
           /\ \A g2 \in Groups, q \in Pos :
                g2 # g \/ q # msgPos[g] => sendMsgs'[g2][q] = sendMsgs[g2][q]
           /\ rcvMsg'[g] = SlotNow(g)
           /\ \A g2 \in Groups : g2 # g => rcvMsg'[g2] = rcvMsg[g2]
           /\ type # "finalize" => /\ msgPos[g] < curMsgPosition[g]
                                   /\ (msgPos[g] + 1) % MsgCnt = msgPos[g] + 1
           /\ type = "finalize" => /\ Finalizing(g) /\ msgPos[g] = curMsgPosition[g]
                                   /\ retryCnt[g] = 0
<1> DEFINE p == msgPos[g]
<1>1. /\ server = "run" /\ ~finishFlag[g] /\ ~finalizeFlag[g] /\ Readable(g)
      /\ SlotNow(g).type = type /\ GiveBack(g)
      /\ rcvMsg' = [rcvMsg EXCEPT ![g] = SlotNow(g)]
  BY DEF Process, At
<1>2. /\ p \in Pos /\ p \in Nat /\ p < MsgCnt /\ curMsgPosition[g] \in Nat /\ MsgCnt \in Nat
      /\ retryCnt[g] \in {0, 1} /\ NoMsg.type = "none" /\ launch \in Nat /\ serverLaunch \in Nat
  BY Facts
<1>3. HandOK(g) /\ SlotOK(g, p)
  BY <1>2 DEF Places, SlotInv
<1>4. /\ SlotNow(g) = Message(g, p) /\ SlotNow(g) # NoMsg
      /\ retryCnt[g] = 1 => launch = serverLaunch /\ sendMsgs[g][p] = NoMsg
      /\ retryCnt[g] = 1 => type \in {"prepare", "sync"}
  BY <1>1, <1>2, <1>3 DEF HandOK, SlotNow, Message, Readable
<1>5. launch = serverLaunch
  <2>1. ~(launch > serverLaunch)
    BY <1>1 DEF Places, RoundInv
  <2>2. ~(launch < serverLaunch)
    BY <1>3, <1>4 DEF SlotOK, Over
  <2> QED
    BY <1>2, <2>1, <2>2
<1>6. ~finalized[g] /\ ~Over(g) /\ ~Marked(g)
  BY <1>1, <1>2, <1>5 DEF Places, GroupInv, Marked, Over
<1>7. /\ sendMsgs'[g][p] = NoMsg
      /\ \A g2 \in Groups, q \in Pos : g2 # g \/ q # p => sendMsgs'[g2][q] = sendMsgs[g2][q]
  <2>1. CASE retryCnt[g] = 1
    BY <1>1, <1>4, <2>1 DEF GiveBack
  <2>2. CASE retryCnt[g] # 1
    <3>1. sendMsgs' = [sendMsgs EXCEPT ![g][p] = NoMsg]
      BY <1>1, <2>2 DEF GiveBack
    <3> QED
      BY <1>2, <3>1 DEF TypeInv, AreaTypes
  <2> QED
    BY <2>1, <2>2
<1>8. rcvMsg'[g] = SlotNow(g) /\ \A g2 \in Groups : g2 # g => rcvMsg'[g2] = rcvMsg[g2]
  BY <1>1 DEF TypeInv, ServerTypes
<1>9. type # "finalize" => p < curMsgPosition[g] /\ (p + 1) % MsgCnt = p + 1
  <2> SUFFICES ASSUME type # "finalize" PROVE p < curMsgPosition[g] /\ (p + 1) % MsgCnt = p + 1
    OBVIOUS
  <2>1. p < curMsgPosition[g]
    BY <1>1, <1>2, <1>3, <1>4 DEF SlotOK
  <2>2. curMsgPosition[g] < MsgCnt
    BY <1>6, Facts
  <2> QED
    BY <1>2, <2>1, <2>2
<1>10. type = "finalize" => Finalizing(g) /\ p = curMsgPosition[g] /\ retryCnt[g] = 0
  BY <1>1, <1>2, <1>3, <1>4 DEF SlotOK
<1> HIDE DEF p
<1> QED
  BY <1>1, <1>2, <1>4, <1>5, <1>6, <1>7, <1>8, <1>9, <1>10 DEF p

ServerSide == UNCHANGED <<clientVars, commitTurnCnt>>

\* A message is taken: the position moves on.
Taken(g, type) ==
    /\ ServerSide /\ Process(g, type) /\ type \in {"prepare", "sync"} /\ Proceed(g)
    /\ \A g2 \in Groups : g2 # g => stream'[g2] = stream[g2] /\ buffered'[g2] = buffered[g2]

\* What a message that is taken changes: it is gone, and the position moves on.
LEMMA TakenMessages ==
    ASSUME TypeInv, Places, NEW g \in Groups, NEW type, Taken(g, type)
    PROVE  /\ msgPos'[g] = msgPos[g] + 1 /\ retryCnt'[g] = 0
           /\ \A g2 \in Groups : g2 # g => msgPos'[g2] = msgPos[g2] /\ retryCnt'[g2] = retryCnt[g2]
           /\ \A g2 \in Groups, q \in Pos :
                Message(g2, q)' = IF g2 = g /\ q = msgPos[g] THEN NoMsg ELSE Message(g2, q)
           /\ \A g2 \in Groups : /\ Finalizing(g2)' = Finalizing(g2) /\ Over(g2)' = Over(g2)
                                 /\ Marked(g2)' = Marked(g2)
           /\ UNCHANGED <<server, launch, serverLaunch, finishFlag, finalizeFlag,
                          finalized, curMsgPosition, handles, finishedTurnCnt>>
<1>1. /\ Process(g, type) /\ Proceed(g) /\ UNCHANGED clientVars /\ type # "finalize"
  BY DEF Taken, ServerSide
<1>2. /\ (msgPos[g] + 1) % MsgCnt = msgPos[g] + 1
      /\ sendMsgs'[g][msgPos[g]] = NoMsg
      /\ \A g2 \in Groups, q \in Pos :
            g2 # g \/ q # msgPos[g] => sendMsgs'[g2][q] = sendMsgs[g2][q]
      /\ \A g2 \in Groups : g2 # g => rcvMsg'[g2] = rcvMsg[g2]
  BY <1>1, ProcessFacts
<1>3. /\ UNCHANGED <<server, launch, serverLaunch, finishFlag, finalizeFlag, pc, call, finalized,
                     curMsgPosition, handles, finishedTurnCnt>>
  BY <1>1 DEF Process, At, Proceed, clientVars
<1>4. /\ msgPos'[g] = msgPos[g] + 1 /\ retryCnt'[g] = 0
      /\ \A g2 \in Groups : g2 # g => msgPos'[g2] = msgPos[g2] /\ retryCnt'[g2] = retryCnt[g2]
  BY <1>1, <1>2 DEF Proceed, TypeInv, ServerTypes
<1>5. ASSUME NEW g2 \in Groups, NEW q \in Pos
      PROVE  Message(g2, q)' = IF g2 = g /\ q = msgPos[g] THEN NoMsg ELSE Message(g2, q)
  BY <1>2, <1>4 DEF Message
<1>6. \A g2 \in Groups : /\ Finalizing(g2)' = Finalizing(g2) /\ Over(g2)' = Over(g2)
                         /\ Marked(g2)' = Marked(g2)
  BY <1>3 DEF Finalizing, Over, Marked
<1> QED
  BY <1>3, <1>4, <1>5, <1>6

\* Places are kept when a message is taken.
LEMMA TakenPlaces ==
    ASSUME TypeInv, Places, NEW g \in Groups, NEW type, Taken(g, type) PROVE Places'
<1>1. /\ msgPos'[g] = msgPos[g] + 1 /\ retryCnt'[g] = 0
      /\ \A g2 \in Groups : g2 # g => msgPos'[g2] = msgPos[g2] /\ retryCnt'[g2] = retryCnt[g2]
      /\ \A g2 \in Groups, q \in Pos :
           Message(g2, q)' = IF g2 = g /\ q = msgPos[g] THEN NoMsg ELSE Message(g2, q)
      /\ \A g2 \in Groups : /\ Finalizing(g2)' = Finalizing(g2) /\ Over(g2)' = Over(g2)
                            /\ Marked(g2)' = Marked(g2)
      /\ UNCHANGED <<server, launch, serverLaunch, finishFlag, finalizeFlag,
                     finalized, curMsgPosition, handles>>
  BY TakenMessages
<1>2. /\ launch = serverLaunch /\ ~finalized[g] /\ ~finalizeFlag[g] /\ ~finishFlag[g]
      /\ ~Over(g) /\ ~Marked(g)
      /\ msgPos[g] < curMsgPosition[g] /\ msgPos[g] \in Nat /\ curMsgPosition[g] \in Nat
      /\ \A g2 \in Groups, q \in Pos :
            g2 # g \/ q # msgPos[g] => sendMsgs'[g2][q] = sendMsgs[g2][q]
      /\ \A g2 \in Groups : g2 # g => rcvMsg'[g2] = rcvMsg[g2]
      /\ serverLaunch \in Nat
  BY ProcessFacts, Facts DEF Taken
<1>3. RoundInv'
  BY <1>1, <1>2 DEF Places, RoundInv
<1>4. GroupInv'
  <2> SUFFICES ASSUME NEW g2 \in Groups
               PROVE  (/\ finishFlag[g2] => finalizeFlag[g2]
                       /\ finalizeFlag[g2] => buffered[g2] = <<>> /\ retryCnt[g2] = 0
                       /\ finishFlag[g2] \/ launch < serverLaunch => Idle(g2)
                       /\ Over(g2) => finalized[g2] \/ Finalizing(g2)
                       /\ finalized[g2] => Marked(g2)
                       /\ launch = serverLaunch => msgPos[g2] <= curMsgPosition[g2]
                       /\ launch = serverLaunch /\ finalizeFlag[g2] /\ Finalizing(g2)
                            => msgPos[g2] = curMsgPosition[g2])'
    BY DEF GroupInv
  <2>1. CASE g2 = g
    BY <1>1, <1>2, <2>1
  <2>2. CASE g2 # g
    <3>1. stream'[g2] = stream[g2] /\ buffered'[g2] = buffered[g2]
      BY <2>2 DEF Taken
    <3>2. Idle(g2)' = Idle(g2)
      BY <1>1, <2>2, <3>1 DEF Idle
    <3>3. /\ finishFlag[g2] => finalizeFlag[g2]
          /\ finalizeFlag[g2] => buffered[g2] = <<>> /\ retryCnt[g2] = 0
          /\ finishFlag[g2] \/ launch < serverLaunch => Idle(g2)
          /\ Over(g2) => finalized[g2] \/ Finalizing(g2)
          /\ finalized[g2] => Marked(g2)
          /\ launch = serverLaunch => msgPos[g2] <= curMsgPosition[g2]
          /\ launch = serverLaunch /\ finalizeFlag[g2] /\ Finalizing(g2)
               => msgPos[g2] = curMsgPosition[g2]
      BY DEF Places, GroupInv
    <3> QED
      BY <1>1, <2>2, <3>1, <3>2, <3>3
  <2> QED
    BY <2>1, <2>2
<1>5. ASSUME NEW g2 \in Groups, NEW q \in Pos PROVE SlotOK(g2, q)'
  <2>1. SlotOK(g2, q) /\ q \in Nat /\ NoMsg.type = "none"
    BY Facts DEF Places, SlotInv
  <2>2. CASE g2 = g /\ q = msgPos[g]
    BY <1>1, <2>1, <2>2 DEF SlotOK
  <2>3. CASE g2 = g /\ q # msgPos[g]
    BY <1>1, <1>2, <2>1, <2>3 DEF SlotOK
  <2>4. CASE g2 # g
    BY <1>1, <2>1, <2>4 DEF SlotOK
  <2> QED
    BY <2>2, <2>3, <2>4
<1>6. ASSUME NEW g2 \in Groups PROVE HandOK(g2)'
  <2>1. HandOK(g2) /\ msgPos[g2] \in Pos
    BY Facts DEF Places, SlotInv
  <2> QED
    BY <1>1, <1>2, <2>1 DEF HandOK
<1> QED
  BY <1>3, <1>4, <1>5, <1>6 DEF Places, SlotInv

\* A message is to be processed again.
Again(g) ==
    /\ ServerSide /\ \E type \in {"prepare", "sync"} : Process(g, type)
    /\ ProcessAgain(g)

\* A message to be processed again is held by the server: it stays the message of its
\* position though its slot is cleared.
LEMMA AgainSame ==
    ASSUME TypeInv, Places, NEW g \in Groups, Again(g)
    PROVE  /\ retryCnt'[g] = 1 /\ rcvMsg'[g] = Message(g, msgPos[g])
           /\ rcvMsg'[g].type \in {"prepare", "sync"} /\ sendMsgs'[g][msgPos[g]] = NoMsg
           /\ \A g2 \in Groups : g2 # g => /\ retryCnt'[g2] = retryCnt[g2]
                                           /\ rcvMsg'[g2] = rcvMsg[g2]
                                           /\ sendMsgs'[g2] = sendMsgs[g2]
           /\ SameMessages
           /\ UNCHANGED <<server, launch, serverLaunch, finishFlag, finalizeFlag, msgPos, pc, call,
                          finalized, curMsgPosition, handles, finishedTurnCnt, expectSeqNum,
                          stream, buffered, tasks>>
<1>1. PICK type \in {"prepare", "sync"} : Process(g, type)
  BY DEF Again
<1>2. /\ retryCnt' = [retryCnt EXCEPT ![g] = 1]
      /\ UNCHANGED <<server, launch, serverLaunch, finishFlag, finalizeFlag, msgPos, pc, call,
                     finalized, curMsgPosition, handles, finishedTurnCnt, expectSeqNum,
                     stream, buffered, tasks>>
      /\ SlotNow(g).type = type
  BY <1>1 DEF Again, ProcessAgain, Process, At, ServerSide, clientVars
<1>3. /\ SlotNow(g) = Message(g, msgPos[g]) /\ msgPos[g] \in Pos
      /\ sendMsgs'[g][msgPos[g]] = NoMsg
      /\ \A g2 \in Groups, q \in Pos :
            g2 # g \/ q # msgPos[g] => sendMsgs'[g2][q] = sendMsgs[g2][q]
      /\ rcvMsg'[g] = SlotNow(g)
      /\ \A g2 \in Groups : g2 # g => rcvMsg'[g2] = rcvMsg[g2]
  BY <1>1, ProcessFacts
<1>4. \A g2 \in Groups : g2 # g => sendMsgs'[g2] = sendMsgs[g2]
  BY <1>1 DEF Process, GiveBack, TypeInv, AreaTypes
<1>5. /\ retryCnt'[g] = 1
      /\ \A g2 \in Groups : g2 # g => retryCnt'[g2] = retryCnt[g2]
  BY <1>2 DEF TypeInv, ServerTypes
<1>6. SameMessages
  <2> SUFFICES ASSUME NEW g2 \in Groups, NEW q \in Pos PROVE Message(g2, q)' = Message(g2, q)
    BY DEF SameMessages
  <2>1. CASE g2 = g /\ q = msgPos[g]
    <3>1. Message(g2, q)' = rcvMsg'[g]
      BY <1>2, <1>5, <2>1 DEF Message
    <3> QED
      BY <1>3, <2>1, <3>1
  <2>2. CASE ~(g2 = g /\ q = msgPos[g])
    <3>1. sendMsgs'[g2][q] = sendMsgs[g2][q]
      BY <1>3, <2>2
    <3>2. CASE g2 = g
      BY <1>2, <2>2, <3>1, <3>2 DEF Message
    <3>3. CASE g2 # g
      BY <1>2, <1>3, <1>5, <3>1, <3>3 DEF Message
    <3> QED
      BY <3>2, <3>3
  <2> QED
    BY <2>1, <2>2
<1> QED
  BY <1>2, <1>3, <1>4, <1>5, <1>6

\* Places and counts are kept when a message is to be processed again.
LEMMA AgainKeeps ==
    ASSUME TypeInv, Places, Counts, NEW g \in Groups, Again(g) PROVE Places' /\ Counts'
<1>1. /\ retryCnt'[g] = 1 /\ rcvMsg'[g] = Message(g, msgPos[g])
      /\ rcvMsg'[g].type \in {"prepare", "sync"} /\ sendMsgs'[g][msgPos[g]] = NoMsg
      /\ \A g2 \in Groups : g2 # g => /\ retryCnt'[g2] = retryCnt[g2]
                                      /\ rcvMsg'[g2] = rcvMsg[g2]
                                      /\ sendMsgs'[g2] = sendMsgs[g2]
      /\ SameMessages
      /\ UNCHANGED <<server, launch, serverLaunch, finishFlag, finalizeFlag, msgPos, pc, call,
                     finalized, curMsgPosition, handles, finishedTurnCnt, stream, buffered, tasks>>
  BY AgainSame
<1>2. launch = serverLaunch /\ ~finalized[g] /\ ~finalizeFlag[g] /\ ~finishFlag[g]
      /\ serverLaunch \in Nat
  BY ProcessFacts, Facts DEF Again
<1>3. UNCHANGED commitTurnCnt
  BY DEF Again, ServerSide
<1>4. \A g2 \in Groups : /\ Finalizing(g2)' = Finalizing(g2) /\ Over(g2)' = Over(g2)
                         /\ Marked(g2)' = Marked(g2)
                         /\ g2 # g => Idle(g2)' = Idle(g2)
  BY <1>1 DEF Finalizing, Over, Marked, Idle
<1>5. RoundInv'
  BY <1>1, <1>2, <1>4 DEF Places, RoundInv
<1>6. GroupInv'
  <2> SUFFICES ASSUME NEW g2 \in Groups
               PROVE  (/\ finishFlag[g2] => finalizeFlag[g2]
                       /\ finalizeFlag[g2] => buffered[g2] = <<>> /\ retryCnt[g2] = 0
                       /\ finishFlag[g2] \/ launch < serverLaunch => Idle(g2)
                       /\ Over(g2) => finalized[g2] \/ Finalizing(g2)
                       /\ finalized[g2] => Marked(g2)
                       /\ launch = serverLaunch => msgPos[g2] <= curMsgPosition[g2]
                       /\ launch = serverLaunch /\ finalizeFlag[g2] /\ Finalizing(g2)
                            => msgPos[g2] = curMsgPosition[g2])'
    BY DEF GroupInv
  <2>1. /\ finishFlag[g2] => finalizeFlag[g2]
        /\ finalizeFlag[g2] => buffered[g2] = <<>> /\ retryCnt[g2] = 0
        /\ finishFlag[g2] \/ launch < serverLaunch => Idle(g2)
        /\ Over(g2) => finalized[g2] \/ Finalizing(g2)
        /\ finalized[g2] => Marked(g2)
        /\ launch = serverLaunch => msgPos[g2] <= curMsgPosition[g2]
        /\ launch = serverLaunch /\ finalizeFlag[g2] /\ Finalizing(g2)
             => msgPos[g2] = curMsgPosition[g2]
    BY DEF Places, GroupInv
  <2>2. CASE g2 = g
    BY <1>1, <1>2, <1>4, <2>1, <2>2
  <2>3. CASE g2 # g
    BY <1>1, <1>4, <2>1, <2>3
  <2> QED
    BY <2>2, <2>3
<1>7. \A g2 \in Groups, q \in Pos : SlotOK(g2, q)'
  BY <1>1, <1>4 DEF Places, SlotInv, SlotOK, SameMessages
<1>8. ASSUME NEW g2 \in Groups PROVE HandOK(g2)'
  <2>1. HandOK(g2)
    BY DEF Places, SlotInv
  <2> QED
    BY <1>1, <1>2, <2>1 DEF HandOK
<1>9. RowsSame /\ TasksSame /\ TasksGrow
  BY <1>1, Facts DEF RowsSame, TasksSame, TasksGrow
<1>10. RowInv' /\ MessageInv' /\ FinishInv' /\ EntryInv' /\ CommitInv'
  BY <1>1, <1>3, <1>4, <1>9, RowKept, MessageKept, FinishKept, EntryKept, CommitKept DEF Counts
<1> QED
  BY <1>5, <1>6, <1>7, <1>8, <1>10 DEF Places, SlotInv, Counts

----------------------------------------------------------------------------
(* FINALIZE of a group, and its end.                                        *)
FinalizeTaken(g) == ServerSide /\ FinalizeMsg(g)

\* FINALIZE is read of the group whose Finalize waits, when nothing else is left.
LEMMA FinalizeTakenFacts ==
    ASSUME TypeInv, Places, NEW g \in Groups, FinalizeTaken(g)
    PROVE  /\ finalizeFlag'[g] /\ buffered'[g] = <<>> /\ retryCnt[g] = 0
           /\ launch = serverLaunch /\ Finalizing(g) /\ ~finalized[g] /\ ~finishFlag[g]
           /\ msgPos[g] = curMsgPosition[g] /\ Over(g)'
           /\ \A g2 \in Groups : g2 # g => /\ finalizeFlag'[g2] = finalizeFlag[g2]
                                           /\ stream'[g2] = stream[g2]
                                           /\ buffered'[g2] = buffered[g2]
                                           /\ Over(g2)' = Over(g2)
                                           /\ rcvMsg'[g2] = rcvMsg[g2]
                                           /\ sendMsgs'[g2] = sendMsgs[g2]
           /\ \A g2 \in Groups, q \in Pos :
                Message(g2, q)' = IF g2 = g THEN NoMsg ELSE Message(g2, q)
           /\ \A g2 \in Groups : Finalizing(g2)' = Finalizing(g2) /\ Marked(g2)' = Marked(g2)
           /\ UNCHANGED <<server, launch, serverLaunch, finishFlag, msgPos, retryCnt, pc, call,
                          finalized, curMsgPosition, handles, commitTurnCnt, finishedTurnCnt, tasks>>
<1>1. /\ Process(g, "finalize") /\ finalizeFlag' = [finalizeFlag EXCEPT ![g] = TRUE]
      /\ LaunchTask(g, ResetCommitTask(g))
      /\ UNCHANGED <<server, visit, msgPos, retryCnt, handleToMsgPos, handleToRepeat, tasks>>
      /\ UNCHANGED clientVars /\ UNCHANGED commitTurnCnt
  BY DEF FinalizeTaken, FinalizeMsg, ServerSide
<1>2. UNCHANGED <<server, launch, serverLaunch, finishFlag, msgPos, retryCnt, pc, call,
                  finalized, curMsgPosition, handles, commitTurnCnt, finishedTurnCnt, tasks>>
  BY <1>1 DEF Process, At, clientVars
<1>3. /\ launch = serverLaunch /\ ~finalized[g] /\ ~finishFlag[g] /\ msgPos[g] \in Pos
      /\ Finalizing(g) /\ msgPos[g] = curMsgPosition[g] /\ retryCnt[g] = 0
      /\ sendMsgs'[g][msgPos[g]] = NoMsg
      /\ \A g2 \in Groups, q \in Pos :
            g2 # g \/ q # msgPos[g] => sendMsgs'[g2][q] = sendMsgs[g2][q]
      /\ \A g2 \in Groups : g2 # g => rcvMsg'[g2] = rcvMsg[g2]
  BY <1>1, ProcessFacts
<1>4. /\ finalizeFlag'[g] /\ \A g2 \in Groups : g2 # g => finalizeFlag'[g2] = finalizeFlag[g2]
  BY <1>1 DEF TypeInv, ServerTypes
<1>5. /\ buffered'[g] = <<>>
      /\ \A g2 \in Groups : g2 # g => stream'[g2] = stream[g2] /\ buffered'[g2] = buffered[g2]
  BY <1>1 DEF LaunchTask, TypeInv, BufferOK
<1>6. /\ Over(g)' /\ \A g2 \in Groups : g2 # g => Over(g2)' = Over(g2)
      /\ \A g2 \in Groups : Finalizing(g2)' = Finalizing(g2) /\ Marked(g2)' = Marked(g2)
  BY <1>2, <1>3, <1>4 DEF Over, Finalizing, Marked
<1>7. \A g2 \in Groups : g2 # g => sendMsgs'[g2] = sendMsgs[g2]
  BY <1>1 DEF Process, GiveBack, TypeInv, AreaTypes
<1>8. ASSUME NEW g2 \in Groups, NEW q \in Pos
      PROVE  Message(g2, q)' = IF g2 = g THEN NoMsg ELSE Message(g2, q)
  <2>1. CASE g2 # g
    BY <1>2, <1>3, <1>7, <2>1 DEF Message
  <2>2. CASE g2 = g /\ q = msgPos[g]
    BY <1>2, <1>3, <2>2 DEF Message
  <2>3. CASE g2 = g /\ q # msgPos[g]
    <3>1. Message(g, q) = NoMsg
      <4>1. SlotOK(g, q) /\ q \in Nat /\ msgPos[g] \in Nat
        BY Facts DEF Places, SlotInv
      <4>2. q < msgPos[g] \/ q > curMsgPosition[g]
        BY <1>3, <2>3, <4>1
      <4> QED
        BY <1>3, <4>1, <4>2 DEF SlotOK
    <3> QED
      BY <1>2, <1>3, <2>3, <3>1 DEF Message
  <2> QED
    BY <2>1, <2>2, <2>3
<1> QED
  BY <1>2, <1>3, <1>4, <1>5, <1>6, <1>7, <1>8

\* Places are kept when FINALIZE is read.
LEMMA FinalizeTakenPlaces ==
    ASSUME TypeInv, Places, NEW g \in Groups, FinalizeTaken(g) PROVE Places'
<1>1. /\ finalizeFlag'[g] /\ buffered'[g] = <<>> /\ retryCnt[g] = 0
      /\ launch = serverLaunch /\ Finalizing(g) /\ ~finalized[g] /\ ~finishFlag[g]
      /\ msgPos[g] = curMsgPosition[g] /\ Over(g)'
      /\ \A g2 \in Groups : g2 # g => /\ finalizeFlag'[g2] = finalizeFlag[g2]
                                      /\ stream'[g2] = stream[g2]
                                      /\ buffered'[g2] = buffered[g2]
                                      /\ Over(g2)' = Over(g2)
                                      /\ rcvMsg'[g2] = rcvMsg[g2]
                                      /\ sendMsgs'[g2] = sendMsgs[g2]
      /\ \A g2 \in Groups, q \in Pos :
           Message(g2, q)' = IF g2 = g THEN NoMsg ELSE Message(g2, q)
      /\ \A g2 \in Groups : Finalizing(g2)' = Finalizing(g2) /\ Marked(g2)' = Marked(g2)
      /\ UNCHANGED <<server, launch, serverLaunch, finishFlag, msgPos, retryCnt, pc, call,
                     finalized, curMsgPosition, handles, commitTurnCnt, finishedTurnCnt, tasks>>
  BY FinalizeTakenFacts
<1>2. \A g2 \in Groups : g2 # g => Idle(g2)' = Idle(g2)
  BY <1>1 DEF Idle
<1>3. serverLaunch \in Nat /\ curMsgPosition[g] \in Nat /\ NoMsg.type = "none"
  BY Facts
<1>4. RoundInv'
  BY <1>1, <1>3 DEF Places, RoundInv
<1>5. GroupInv'
  <2> SUFFICES ASSUME NEW g2 \in Groups
               PROVE  (/\ finishFlag[g2] => finalizeFlag[g2]
                       /\ finalizeFlag[g2] => buffered[g2] = <<>> /\ retryCnt[g2] = 0
                       /\ finishFlag[g2] \/ launch < serverLaunch => Idle(g2)
                       /\ Over(g2) => finalized[g2] \/ Finalizing(g2)
                       /\ finalized[g2] => Marked(g2)
                       /\ launch = serverLaunch => msgPos[g2] <= curMsgPosition[g2]
                       /\ launch = serverLaunch /\ finalizeFlag[g2] /\ Finalizing(g2)
                            => msgPos[g2] = curMsgPosition[g2])'
    BY DEF GroupInv
  <2>1. /\ finishFlag[g2] => finalizeFlag[g2]
        /\ finalizeFlag[g2] => buffered[g2] = <<>> /\ retryCnt[g2] = 0
        /\ finishFlag[g2] \/ launch < serverLaunch => Idle(g2)
        /\ Over(g2) => finalized[g2] \/ Finalizing(g2)
        /\ finalized[g2] => Marked(g2)
        /\ launch = serverLaunch => msgPos[g2] <= curMsgPosition[g2]
        /\ launch = serverLaunch /\ finalizeFlag[g2] /\ Finalizing(g2)
             => msgPos[g2] = curMsgPosition[g2]
    BY DEF Places, GroupInv
  <2>2. CASE g2 = g
    BY <1>1, <1>3, <2>1, <2>2
  <2>3. CASE g2 # g
    BY <1>1, <1>2, <2>1, <2>3
  <2> QED
    BY <2>2, <2>3
<1>6. ASSUME NEW g2 \in Groups, NEW q \in Pos PROVE SlotOK(g2, q)'
  <2>1. SlotOK(g2, q)
    BY DEF Places, SlotInv
  <2>2. CASE g2 = g
    BY <1>1, <1>3, <2>2 DEF SlotOK
  <2>3. CASE g2 # g
    BY <1>1, <2>1, <2>3 DEF SlotOK
  <2> QED
    BY <2>2, <2>3
<1>7. ASSUME NEW g2 \in Groups PROVE HandOK(g2)'
  <2>1. HandOK(g2)
    BY DEF Places, SlotInv
  <2> QED
    BY <1>1, <2>1 DEF HandOK
<1> QED
  BY <1>4, <1>5, <1>6, <1>7 DEF Places, SlotInv

----------------------------------------------------------------------------
(* The counts, when the server takes a message.                             *)

\* Entries are put at the end of the stream of a group.
Grown(g, s) == s \in Seq(Sqe) /\ stream' = [stream EXCEPT ![g] = @ \o s]

EntryAfter(g, e) ==
    /\ e.type = "post" =>
         /\ e.group = g /\ e.pos < curMsgPosition[g]
         /\ \A i \in 1 .. Len(handles[g]) :
              handles[g][i].pos = e.pos => tasks'[handles[g][i].task].launched
    /\ e.type = "waitCommit" /\ e.last => e.group = g

\* Entries put behind others keep what is known of those that were there.
LEMMA EntriesGrown ==
    ASSUME TypeInv, EntryInv, NEW g \in Groups, NEW s, Grown(g, s),
           TasksGrow, UNCHANGED <<handles, curMsgPosition>>,
           \A i \in 1 .. Len(s) : EntryAfter(g, s[i])
    PROVE  /\ EntryInv'
           /\ \A g2 \in Groups, p \in Pos :
                (\E j \in 1 .. Len(stream[g2]) : Clears(stream[g2][j], p))
                    => \E j \in 1 .. Len(stream'[g2]) : Clears(stream'[g2][j], p)
<1>1. /\ s \in Seq(Sqe) /\ stream'[g] = stream[g] \o s /\ stream[g] \in Seq(Sqe)
      /\ \A g2 \in Groups : g2 # g => stream'[g2] = stream[g2]
  BY DEF Grown, TypeInv
<1>2. /\ Len(stream'[g]) = Len(stream[g]) + Len(s) /\ Len(stream[g]) \in Nat /\ Len(s) \in Nat
      /\ \A i \in 1 .. Len(stream[g]) : stream'[g][i] = stream[g][i]
      /\ \A i \in 1 .. Len(s) : stream'[g][Len(stream[g]) + i] = s[i]
      /\ \A i \in 1 .. Len(stream'[g]) : i \in 1 .. Len(stream[g]) \/ i - Len(stream[g]) \in 1 .. Len(s)
  BY <1>1, Concat
<1>3. RowsSame
  BY DEF RowsSame
<1>4. ASSUME NEW g2 \in Groups, NEW e, EntryOK(g2, e)
      PROVE  /\ e.type = "post" =>
                  /\ e.group = g2 /\ e.pos < curMsgPosition'[g2] /\ RowsLaunched(g2, e.pos)'
             /\ e.type = "waitCommit" /\ e.last => e.group = g2
  BY <1>3, <1>4, RowsKept DEF EntryOK
<1>5. ASSUME NEW g2 \in Groups, NEW j \in 1 .. Len(stream'[g2])
      PROVE  EntryOK(g2, stream[g2][j])'
  <2>1. CASE g2 # g
    <3>1. stream'[g2] = stream[g2] /\ EntryOK(g2, stream[g2][j])
      BY <1>1, <2>1 DEF EntryInv
    <3> QED
      BY <1>4, <3>1 DEF EntryOK
  <2>2. CASE g2 = g /\ j \in 1 .. Len(stream[g])
    <3>1. stream'[g2][j] = stream[g2][j] /\ EntryOK(g2, stream[g2][j])
      BY <1>2, <2>2 DEF EntryInv
    <3> QED
      BY <1>4, <3>1 DEF EntryOK
  <2>3. CASE g2 = g /\ j \notin 1 .. Len(stream[g])
    <3>1. PICK i \in 1 .. Len(s) : stream'[g][j] = s[i]
      <4>1. j - Len(stream[g]) \in 1 .. Len(s) /\ j = Len(stream[g]) + (j - Len(stream[g]))
        BY <1>2, <2>3
      <4> QED
        BY <1>2, <4>1
    <3>2. EntryAfter(g, s[i])
      OBVIOUS
    <3> QED
      BY <2>3, <3>1, <3>2 DEF EntryOK, EntryAfter, RowsLaunched
  <2> QED
    BY <2>1, <2>2, <2>3
<1>6. EntryInv'
  BY <1>5 DEF EntryInv
<1>7. ASSUME NEW g2 \in Groups, NEW p \in Pos,
             NEW j \in 1 .. Len(stream[g2]), Clears(stream[g2][j], p)
      PROVE  \E k \in 1 .. Len(stream'[g2]) : Clears(stream'[g2][k], p)
  <2>1. CASE g2 # g
    BY <1>1, <1>7, <2>1
  <2>2. CASE g2 = g
    <3>1. j \in 1 .. Len(stream'[g]) /\ stream'[g][j] = stream[g][j]
      BY <1>2, <2>2
    <3> QED
      BY <1>7, <2>2, <3>1
  <2> QED
    BY <2>1, <2>2
<1> QED
  BY <1>6, <1>7

\* What PREPARE launches: its task, with the turns of its own position.
LEMMA PrepareTaken ==
    ASSUME TypeInv, Places, NEW g \in Groups, ServerSide, PrepareTask(g),
           NEW m, m = Message(g, msgPos[g])
    PROVE  /\ Taken(g, "prepare") /\ Waits(g, msgPos[g]) /\ m.task \in 1 .. Len(tasks)
           /\ Len(tasks') = Len(tasks) /\ tasks'[m.task].launched
           /\ \A t \in 1 .. Len(tasks) :
                t # m.task => tasks'[t].launched = tasks[t].launched
           /\ TasksGrow
           /\ m = SlotNow(g) /\ NotAhead(m) /\ ~Behind(m)
           /\ expectSeqNum' = (m.seq + 1) % SeqMod
           /\ \E s : /\ Grown(g, s)
                     /\ \A i \in 1 .. Len(s) :
                          /\ s[i].type = "post" => s[i].group = g /\ s[i].pos = msgPos[g]
                          /\ s[i].type = "waitCommit" => ~s[i].last
<1>1. /\ Process(g, "prepare") /\ Proceed(g) /\ LaunchTask(g, TurnSqes(g, msgPos[g], SlotNow(g)))
      /\ expectSeqNum' = (SlotNow(g).seq + 1) % SeqMod
      /\ NotAhead(SlotNow(g)) /\ ~Behind(SlotNow(g))
      /\ tasks' = [tasks EXCEPT ![SlotNow(g).task].launched = TRUE]
  BY DEF PrepareTask
<1>2. /\ m = SlotNow(g) /\ m \in Msg /\ m.type = "prepare" /\ msgPos[g] \in Pos
      /\ TaskOf(m)
  <2>1. SlotNow(g).type = "prepare"
    BY <1>1 DEF Process
  <2> QED
    BY <1>1, <2>1, ProcessFacts, SlotNowType
<1>3. m.task \in 1 .. Len(tasks) /\ Waits(g, msgPos[g])
  BY <1>2 DEF TaskOf, Waits
<1> DEFINE p == msgPos[g]
           t == TurnSqes(g, p, m)
<1>4. /\ t \in Seq(Sqe) /\ Len(t) = 3 * m.repeat
      /\ \A i \in 1 .. Len(t) : t[i].group = g /\ t[i].pos = p /\ ~t[i].last
  <2>1. t \in Seq(Sqe) /\ Len(t) = 3 * m.repeat
    BY <1>2, TurnSqesType
  <2> DEFINE sqe(i) ==
        [type |-> CASE i % 3 = 1 -> "waitCommit" [] i % 3 = 2 -> "kernel" [] OTHER -> "post",
         group |-> g, pos |-> p, val |-> (i + 2) \div 3, last |-> FALSE, task |-> m.task]
  <2>2. \A i \in 1 .. 3 * m.repeat : t[i] = sqe(i)
    BY <1>2, TurnSqesType
  <2>2a. \A i : sqe(i).group = g /\ sqe(i).pos = p /\ ~sqe(i).last
    OBVIOUS
  <2> HIDE DEF t, sqe
  <2>3. ASSUME NEW i \in 1 .. 3 * m.repeat PROVE t[i].group = g /\ t[i].pos = p /\ ~t[i].last
    BY <2>2, <2>2a
  <2> QED
    BY <2>1, <2>3
<1>5. LaunchTask(g, t)
  BY <1>1, <1>2
<1> HIDE DEF t
<1>6. /\ Grown(g, buffered[g] \o t) /\ buffered'[g] = <<>>
      /\ \A g2 \in Groups : g2 # g => stream'[g2] = stream[g2] /\ buffered'[g2] = buffered[g2]
  BY <1>4, <1>5, LaunchTaskTypes DEF Grown, TypeInv, BufferOK
<1>7. ASSUME NEW i \in 1 .. Len(buffered[g] \o t)
      PROVE  LET e == (buffered[g] \o t)[i] IN
             /\ e.type = "post" => e.group = g /\ e.pos = p
             /\ e.type = "waitCommit" => ~e.last
  <2>1. /\ buffered[g] \in Seq(Sqe)
        /\ \A j \in 1 .. Len(buffered[g]) :
              buffered[g][j].type = "waitFinish" /\ ~buffered[g][j].last
    BY DEF TypeInv, BufferOK
  <2> DEFINE e == (buffered[g] \o t)[i]
  <2>2. \/ i \in 1 .. Len(buffered[g]) /\ e = buffered[g][i]
        \/ i - Len(buffered[g]) \in 1 .. Len(t) /\ e = t[i - Len(buffered[g])]
    <3>1. /\ i \in 1 .. Len(buffered[g]) \/ i - Len(buffered[g]) \in 1 .. Len(t)
          /\ Len(buffered[g]) \in Nat /\ Len(t) \in Nat
          /\ e = IF i <= Len(buffered[g]) THEN buffered[g][i] ELSE t[i - Len(buffered[g])]
      BY <1>4, <2>1, Concat
    <3> HIDE DEF e
    <3> QED
      BY <3>1
  <2> HIDE DEF e
  <2>3. /\ e.type = "post" => e.group = g /\ e.pos = p
        /\ e.type = "waitCommit" => ~e.last
    BY <1>4, <2>1, <2>2
  <2> QED
    BY <2>3 DEF e
<1>8. /\ Len(tasks') = Len(tasks) /\ tasks'[m.task].launched
      /\ \A k \in 1 .. Len(tasks) : k # m.task => tasks'[k] = tasks[k]
  <2>1. tasks \in Seq(Task) /\ tasks[m.task] \in Task
    BY <1>3, Facts DEF TypeInv
  <2>2. [tasks[m.task] EXCEPT !.launched = TRUE].launched
    BY <2>1 DEF Task
  <2>3. tasks' = [tasks EXCEPT ![m.task] = [tasks[m.task] EXCEPT !.launched = TRUE]]
    BY <1>1, <1>2
  <2> DEFINE e == [tasks[m.task] EXCEPT !.launched = TRUE]
  <2>4. tasks' = [tasks EXCEPT ![m.task] = e] /\ e.launched
    BY <2>2, <2>3
  <2> HIDE DEF e
  <2> QED
    BY <1>3, <2>1, <2>4
<1>9. TasksGrow
  BY <1>3, <1>8, Facts DEF TasksGrow
<1>10. Taken(g, "prepare")
  BY <1>1, <1>6 DEF Taken
<1>11. \E s : /\ Grown(g, s)
              /\ \A i \in 1 .. Len(s) :
                   /\ s[i].type = "post" => s[i].group = g /\ s[i].pos = msgPos[g]
                   /\ s[i].type = "waitCommit" => ~s[i].last
  BY <1>6, <1>7
<1> QED
  BY <1>1, <1>2, <1>3, <1>8, <1>9, <1>10, <1>11

\* Places and counts are kept when PREPARE is launched.
LEMMA PrepareTakenKeeps ==
    ASSUME TypeInv, Places, Counts, NEW g \in Groups, ServerSide, PrepareTask(g)
    PROVE  Places' /\ Counts'
<1> DEFINE p == msgPos[g]
<1>0. PICK m : m = Message(g, p)
  OBVIOUS
<1>1. /\ Taken(g, "prepare") /\ Waits(g, p) /\ m.task \in 1 .. Len(tasks)
      /\ Len(tasks') = Len(tasks) /\ tasks'[m.task].launched
      /\ \A t \in 1 .. Len(tasks) : t # m.task => tasks'[t].launched = tasks[t].launched
      /\ TasksGrow
  BY <1>0, PrepareTaken
<1>2. PICK s : /\ Grown(g, s)
               /\ \A i \in 1 .. Len(s) :
                    /\ s[i].type = "post" => s[i].group = g /\ s[i].pos = p
                    /\ s[i].type = "waitCommit" => ~s[i].last
  BY <1>0, PrepareTaken
<1>3. /\ \A g2 \in Groups, q \in Pos :
           Message(g2, q)' = IF g2 = g /\ q = msgPos[g] THEN NoMsg ELSE Message(g2, q)
      /\ \A g2 \in Groups : /\ Finalizing(g2)' = Finalizing(g2) /\ Over(g2)' = Over(g2)
                            /\ Marked(g2)' = Marked(g2)
      /\ UNCHANGED <<finalized, curMsgPosition, handles, finishedTurnCnt>>
      /\ p < curMsgPosition[g] /\ p \in Pos /\ NoMsg.type = "none" /\ UNCHANGED commitTurnCnt
      /\ ~Over(g)
  BY <1>1, TakenMessages, ProcessFacts, Facts DEF Taken, ServerSide
<1> HIDE DEF p
<1>4. RowsSame /\ MessageOK(g, p)
  BY <1>1, <1>3 DEF RowsSame, Counts, MessageInv
<1>5. RowInv' /\ FinishInv'
  BY <1>1, <1>3, <1>4, RowKept, FinishKept DEF Counts
<1>6. MessageInv'
  <2> SUFFICES ASSUME NEW g2 \in Groups, NEW q \in Pos, Waits(g2, q)' PROVE MessageOK(g2, q)'
    BY DEF MessageInv
  <2>1. \A g3 \in Groups, r \in Pos :
          Waits(g3, r)' => Waits(g3, r) /\ Message(g3, r)' = Message(g3, r) /\ ~(g3 = g /\ r = p)
    BY <1>3 DEF Waits, p
  <2>2. /\ MessageOK(g2, q) /\ Message(g2, q)' = Message(g2, q) /\ Waits(g2, q)
        /\ ~(g2 = g /\ q = p) /\ Message(g2, q).task \in 1 .. Len(tasks)
    BY <2>1, MessageTask DEF Counts, MessageInv
  <2>3. Message(g2, q).task # m.task
    BY <1>0, <1>1, <1>3, <2>2 DEF MessageOK
  <2>4. ~tasks'[Message(g2, q).task].launched
    BY <1>1, <2>2, <2>3 DEF MessageOK
  <2> QED
    BY <1>3, <2>1, <2>2, <2>4 DEF MessageOK
<1>7. \A i \in 1 .. Len(s) : EntryAfter(g, s[i])
  BY <1>0, <1>1, <1>2, <1>3, <1>4 DEF EntryAfter, MessageOK
<1>8. /\ EntryInv'
      /\ \A g2 \in Groups, q \in Pos :
           (\E j \in 1 .. Len(stream[g2]) : Clears(stream[g2][j], q))
               => \E j \in 1 .. Len(stream'[g2]) : Clears(stream'[g2][j], q)
  BY <1>1, <1>2, <1>3, <1>7, EntriesGrown DEF Counts
<1>9. CommitInv'
  <2> SUFFICES ASSUME NEW g2 \in Groups, NEW q \in Pos PROVE CommitOK(g2, q)'
    BY DEF CommitInv
  <2>1. CommitOK(g2, q)
    BY DEF Counts, CommitInv
  <2> QED
    BY <1>3, <1>8, <2>1 DEF CommitOK
<1> QED
  BY <1>1, <1>5, <1>6, <1>8, <1>9, TakenPlaces DEF Counts

\* Places and counts are kept when a sync is launched.
LEMMA SyncTakenKeeps ==
    ASSUME TypeInv, Places, Counts, NEW g \in Groups, ServerSide, GroupSync(g)
    PROVE  Places' /\ Counts'
<1>1. Taken(g, "sync") /\ UNCHANGED <<stream, tasks>>
  BY DEF GroupSync, Taken, TypeInv, BufferOK
<1>2. /\ \A g2 \in Groups, q \in Pos :
           Message(g2, q)' = IF g2 = g /\ q = msgPos[g] THEN NoMsg ELSE Message(g2, q)
      /\ \A g2 \in Groups : /\ Finalizing(g2)' = Finalizing(g2) /\ Over(g2)' = Over(g2)
                            /\ Marked(g2)' = Marked(g2)
      /\ UNCHANGED <<finalized, curMsgPosition, handles, finishedTurnCnt, commitTurnCnt>>
      /\ NoMsg.type = "none"
  BY <1>1, TakenMessages, Facts DEF ServerSide
<1>3. RowsSame /\ TasksGrow
  BY <1>1, <1>2, Facts DEF RowsSame, TasksGrow
<1>4. RowInv' /\ FinishInv' /\ EntryInv' /\ CommitInv'
  BY <1>1, <1>2, <1>3, RowKept, FinishKept, EntryKept, CommitKept DEF Counts
<1>5. MessageInv'
  <2> SUFFICES ASSUME NEW g2 \in Groups, NEW q \in Pos, Waits(g2, q)' PROVE MessageOK(g2, q)'
    BY DEF MessageInv
  <2>1. \A g3 \in Groups, r \in Pos :
          Waits(g3, r)' => Waits(g3, r) /\ Message(g3, r)' = Message(g3, r)
    BY <1>2 DEF Waits
  <2>2. MessageOK(g2, q) /\ Message(g2, q)' = Message(g2, q)
    BY <2>1 DEF Counts, MessageInv
  <2> QED
    BY <1>1, <1>2, <2>1, <2>2 DEF MessageOK
<1> QED
  BY <1>1, <1>4, <1>5, TakenPlaces DEF Counts

\* Places and counts are kept when FINALIZE is read: each count of commits gets the
\* entry that clears it.
LEMMA FinalizeTakenKeeps ==
    ASSUME TypeInv, Places, Counts, NEW g \in Groups, FinalizeTaken(g) PROVE Places' /\ Counts'
<1>1. /\ Over(g)' /\ Finalizing(g) /\ msgPos[g] = curMsgPosition[g]
      /\ \A g2 \in Groups : g2 # g => stream'[g2] = stream[g2] /\ Over(g2)' = Over(g2)
      /\ \A g2 \in Groups, q \in Pos :
           Message(g2, q)' = IF g2 = g THEN NoMsg ELSE Message(g2, q)
      /\ \A g2 \in Groups : Finalizing(g2)' = Finalizing(g2) /\ Marked(g2)' = Marked(g2)
      /\ UNCHANGED <<finalized, curMsgPosition, handles, commitTurnCnt, finishedTurnCnt, tasks>>
  BY FinalizeTakenFacts
<1>2. RowsSame /\ TasksGrow /\ NoMsg.type = "none"
  BY <1>1, Facts DEF RowsSame, TasksGrow
<1>3. RowInv' /\ FinishInv'
  BY <1>1, <1>2, RowKept, FinishKept DEF Counts
<1>4. MessageInv'
  <2> SUFFICES ASSUME NEW g2 \in Groups, NEW q \in Pos, Waits(g2, q)' PROVE MessageOK(g2, q)'
    BY DEF MessageInv
  <2>1. \A g3 \in Groups, r \in Pos :
          Waits(g3, r)' => Waits(g3, r) /\ Message(g3, r)' = Message(g3, r)
    BY <1>1, <1>2 DEF Waits
  <2>2. MessageOK(g2, q) /\ Message(g2, q)' = Message(g2, q)
    BY <2>1 DEF Counts, MessageInv
  <2> QED
    BY <1>1, <2>1, <2>2 DEF MessageOK
<1> DEFINE b == buffered[g]
           t == ResetCommitTask(g)
<1>5. /\ t \in Seq(Sqe) /\ Len(t) = msgPos[g] /\ msgPos[g] \in Nat
      /\ \A i \in 1 .. msgPos[g] :
            t[i] = [type |-> "waitCommit", group |-> g, pos |-> i - 1, val |-> 0, last |-> TRUE,
                    task |-> 0]
  BY ResetSqesType
<1>6. LaunchTask(g, t)
  BY DEF FinalizeTaken, FinalizeMsg
<1> HIDE DEF t
<1>7. \A i \in 1 .. Len(t) : /\ t[i].type = "waitCommit" /\ t[i].last
                             /\ t[i].group = g /\ t[i].pos = i - 1
  <2> SUFFICES ASSUME NEW i \in 1 .. Len(t)
               PROVE  /\ t[i].type = "waitCommit" /\ t[i].last
                      /\ t[i].group = g /\ t[i].pos = i - 1
    OBVIOUS
  <2>1. t[i] = [type |-> "waitCommit", group |-> g, pos |-> i - 1, val |-> 0, last |-> TRUE,
                task |-> 0]
    BY <1>5
  <2> QED
    BY <2>1
<1>8. /\ Grown(g, b \o t) /\ b \in Seq(Sqe) /\ stream[g] \in Seq(Sqe)
      /\ \A j \in 1 .. Len(b) : b[j].type = "waitFinish" /\ ~b[j].last
      /\ stream'[g] = stream[g] \o (b \o t)
  <2>1. Grown(g, b \o t)
    BY <1>5, <1>6, LaunchTaskTypes DEF Grown
  <2>2. /\ b \in Seq(Sqe) /\ stream[g] \in Seq(Sqe)
        /\ \A j \in 1 .. Len(b) : b[j].type = "waitFinish" /\ ~b[j].last
    BY DEF TypeInv, BufferOK
  <2> HIDE DEF b
  <2>3. stream'[g] = stream[g] \o (b \o t)
    BY <2>1 DEF Grown, TypeInv
  <2> QED
    BY <2>1, <2>2, <2>3
<1> HIDE DEF b
<1>9. /\ \A i \in 1 .. Len(b \o t) : EntryAfter(g, (b \o t)[i])
      /\ Len(b \o t) = Len(b) + Len(t) /\ Len(b) \in Nat /\ Len(t) \in Nat
      /\ \A i \in 1 .. Len(t) : (b \o t)[Len(b) + i] = t[i]
      /\ b \o t \in Seq(Sqe)
  <2>1. /\ Len(b \o t) = Len(b) + Len(t) /\ Len(b) \in Nat /\ Len(t) \in Nat
        /\ \A i \in 1 .. Len(b) : (b \o t)[i] = b[i]
        /\ \A i \in 1 .. Len(t) : (b \o t)[Len(b) + i] = t[i]
        /\ \A i \in 1 .. Len(b \o t) :
              (b \o t)[i] = IF i <= Len(b) THEN b[i] ELSE t[i - Len(b)]
        /\ \A i \in 1 .. Len(b \o t) : i \in 1 .. Len(b) \/ i - Len(b) \in 1 .. Len(t)
        /\ b \o t \in Seq(Sqe)
    BY <1>5, <1>8, Concat
  <2>2. ASSUME NEW i \in 1 .. Len(b \o t) PROVE EntryAfter(g, (b \o t)[i])
    <3>1. \/ \E j \in 1 .. Len(b) : (b \o t)[i] = b[j]
          \/ \E j \in 1 .. Len(t) : (b \o t)[i] = t[j]
      BY <2>1
    <3> QED
      BY <1>7, <1>8, <3>1 DEF EntryAfter
  <2> QED
    BY <2>1, <2>2
<1>10. /\ EntryInv'
       /\ \A g2 \in Groups, q \in Pos :
            (\E j \in 1 .. Len(stream[g2]) : Clears(stream[g2][j], q))
                => \E j \in 1 .. Len(stream'[g2]) : Clears(stream'[g2][j], q)
  BY <1>1, <1>2, <1>8, <1>9, EntriesGrown DEF Counts
<1>11. ASSUME NEW q \in Pos, q < curMsgPosition[g]
       PROVE  \E j \in 1 .. Len(stream'[g]) : Clears(stream'[g][j], q)
  <2>1. q \in Nat /\ q + 1 \in 1 .. Len(t)
    BY <1>1, <1>5, <1>11, Facts
  <2>2. /\ Len(b) + (q + 1) \in 1 .. Len(b \o t) /\ (b \o t)[Len(b) + (q + 1)] = t[q + 1]
        /\ Clears(t[q + 1], q)
    BY <1>7, <1>9, <2>1 DEF Clears
  <2> DEFINE bt == b \o t
             k == Len(b) + (q + 1)
  <2>3. bt \in Seq(Sqe) /\ k \in 1 .. Len(bt) /\ Clears(bt[k], q) /\ stream'[g] = stream[g] \o bt
    BY <1>8, <1>9, <2>2
  <2> HIDE DEF bt, k
  <2>4. Len(stream[g]) + k \in 1 .. Len(stream'[g]) /\ stream'[g][Len(stream[g]) + k] = bt[k]
    BY <1>8, <2>3, Concat
  <2> QED
    BY <2>3, <2>4
<1>12. CommitInv'
  <2> SUFFICES ASSUME NEW g2 \in Groups, NEW q \in Pos PROVE CommitOK(g2, q)'
    BY DEF CommitInv
  <2>1. CommitOK(g2, q)
    BY DEF Counts, CommitInv
  <2>2. CASE g2 = g
    BY <1>1, <1>11, <2>1, <2>2 DEF CommitOK
  <2>3. CASE g2 # g
    BY <1>1, <1>10, <2>1, <2>3 DEF CommitOK
  <2> QED
    BY <2>2, <2>3
<1> QED
  BY <1>3, <1>4, <1>10, <1>12, FinalizeTakenPlaces DEF Counts

----------------------------------------------------------------------------
(* The end of a group, of the loop, and of a launch of the server.          *)

\* The group whose end is posted is the one its Finalize waits for.
LEMMA GroupDoneFacts ==
    ASSUME TypeInv, Places, NEW g \in Groups, GroupDone(g)
    PROVE  /\ server = "run" /\ launch = serverLaunch /\ Finalizing(g) /\ ~finalized[g] /\ Over(g)
           /\ msgPos[g] = curMsgPosition[g] /\ msgPos[g] \in Pos /\ Idle(g) /\ ~Marked(g)
           /\ finishFlag'[g]
           /\ \A g2 \in Groups : g2 # g => finishFlag'[g2] = finishFlag[g2]
           /\ \A g2 \in Groups, q \in Pos : g2 # g \/ q # msgPos[g] =>
                finishedTurnCnt'[g2][q] = finishedTurnCnt[g2][q]
           /\ UNCHANGED <<sendMsgs, commitTurnCnt, server, expectSeqNum, rcvMsg, msgPos, retryCnt,
                          finalizeFlag, stream, buffered, tasks, serverLaunch>>
<1>1. /\ server = "run" /\ ~finishFlag[g] /\ finalizeFlag[g] /\ stream[g] = <<>>
      /\ finishedTurnCnt' = [finishedTurnCnt EXCEPT ![g][msgPos[g]] = FinalizeCnt]
      /\ finishFlag' = [finishFlag EXCEPT ![g] = TRUE]
      /\ UNCHANGED <<sendMsgs, commitTurnCnt, server, expectSeqNum, rcvMsg, msgPos, retryCnt,
                     finalizeFlag, stream, buffered, tasks, serverLaunch>>
  BY DEF GroupDone, At, StreamDone
<1>2. launch = serverLaunch
  <2>1. ~(launch > serverLaunch) /\ ~(launch < serverLaunch)
    BY <1>1 DEF Places, RoundInv
  <2> QED
    BY <2>1, Facts
<1>3. ~Marked(g) /\ Over(g)
  BY <1>1, <1>2, Facts DEF Marked, Over
<1>4. ~finalized[g] /\ Finalizing(g) /\ buffered[g] = <<>> /\ retryCnt[g] = 0
  BY <1>1, <1>3 DEF Places, GroupInv
<1>5. msgPos[g] = curMsgPosition[g]
  BY <1>1, <1>2, <1>4 DEF Places, GroupInv
<1>6. /\ finishFlag'[g]
      /\ \A g2 \in Groups : g2 # g => finishFlag'[g2] = finishFlag[g2]
      /\ \A g2 \in Groups, q \in Pos : g2 # g \/ q # msgPos[g] =>
            finishedTurnCnt'[g2][q] = finishedTurnCnt[g2][q]
  BY <1>1, Facts DEF TypeInv, AreaTypes, ServerTypes
<1> QED
  BY <1>1, <1>2, <1>3, <1>4, <1>5, <1>6, Facts DEF Idle

\* Places and counts are kept when the end of a group is posted.
LEMMA GroupDoneKeeps ==
    ASSUME TypeInv, Places, Counts, NEW g \in Groups, ServerSide, GroupDone(g)
    PROVE  Places' /\ Counts'
<1>1. /\ server = "run" /\ launch = serverLaunch /\ Finalizing(g) /\ ~finalized[g] /\ Over(g)
      /\ msgPos[g] = curMsgPosition[g] /\ msgPos[g] \in Pos /\ Idle(g) /\ ~Marked(g)
      /\ finishFlag'[g]
      /\ \A g2 \in Groups : g2 # g => finishFlag'[g2] = finishFlag[g2]
      /\ \A g2 \in Groups, q \in Pos : g2 # g \/ q # msgPos[g] =>
           finishedTurnCnt'[g2][q] = finishedTurnCnt[g2][q]
      /\ UNCHANGED <<sendMsgs, commitTurnCnt, server, rcvMsg, msgPos, retryCnt, finalizeFlag,
                     stream, buffered, tasks, serverLaunch>>
  BY GroupDoneFacts
<1>2. UNCHANGED <<pc, call, launch, finalized, curMsgPosition, handles>>
  BY DEF ServerSide, clientVars
<1>3. /\ \A g2 \in Groups : /\ Finalizing(g2)' = Finalizing(g2) /\ Over(g2)' = Over(g2)
                            /\ Idle(g2)' = Idle(g2) /\ (Marked(g2) => Marked(g2)')
                            /\ g2 # g => Marked(g2)' = Marked(g2)
      /\ Marked(g)' /\ SameMessages
  BY <1>1, <1>2 DEF Finalizing, Over, Idle, Marked, SameMessages, Message
<1>4. RowsSame /\ TasksSame /\ TasksGrow /\ serverLaunch \in Nat
  BY <1>1, <1>2, Facts DEF RowsSame, TasksSame, TasksGrow
<1>5. RoundInv'
  BY <1>1, <1>2, <1>3, <1>4 DEF Places, RoundInv
<1>6. GroupInv'
  <2> SUFFICES ASSUME NEW g2 \in Groups
               PROVE  (/\ finishFlag[g2] => finalizeFlag[g2]
                       /\ finalizeFlag[g2] => buffered[g2] = <<>> /\ retryCnt[g2] = 0
                       /\ finishFlag[g2] \/ launch < serverLaunch => Idle(g2)
                       /\ Over(g2) => finalized[g2] \/ Finalizing(g2)
                       /\ finalized[g2] => Marked(g2)
                       /\ launch = serverLaunch => msgPos[g2] <= curMsgPosition[g2]
                       /\ launch = serverLaunch /\ finalizeFlag[g2] /\ Finalizing(g2)
                            => msgPos[g2] = curMsgPosition[g2])'
    BY DEF GroupInv
  <2>1. /\ finishFlag[g2] => finalizeFlag[g2]
        /\ finalizeFlag[g2] => buffered[g2] = <<>> /\ retryCnt[g2] = 0
        /\ finishFlag[g2] \/ launch < serverLaunch => Idle(g2)
        /\ Over(g2) => finalized[g2] \/ Finalizing(g2)
        /\ finalized[g2] => Marked(g2)
        /\ launch = serverLaunch => msgPos[g2] <= curMsgPosition[g2]
        /\ launch = serverLaunch /\ finalizeFlag[g2] /\ Finalizing(g2)
             => msgPos[g2] = curMsgPosition[g2]
    BY DEF Places, GroupInv
  <2>2. g2 = g => finalizeFlag[g2]
    BY <1>1, <1>4 DEF Over
  <2> QED
    BY <1>1, <1>2, <1>3, <2>1, <2>2
<1>7. SlotInv'
  BY <1>1, <1>2, <1>3 DEF Places, SlotInv, SlotOK, HandOK, SameMessages
<1>8. RowInv' /\ MessageInv' /\ EntryInv' /\ CommitInv'
  BY <1>1, <1>2, <1>3, <1>4, RowKept, MessageKept, EntryKept, CommitKept DEF Counts
<1>9. FinishInv'
  <2> SUFFICES ASSUME NEW g2 \in Groups, NEW q \in Pos PROVE FinishOK(g2, q)'
    BY DEF FinishInv
  <2>1. FinishOK(g2, q) /\ q \in Nat
    BY Facts DEF Counts, FinishInv
  <2>2. RowsLaunched(g2, q) => RowsLaunched(g2, q)'
    BY <1>4, RowsKept
  <2>3. CASE g2 = g /\ q = msgPos[g]
    <3>1. RowsLaunched(g2, q)
      <4>1. \A i \in 1 .. Len(handles[g]) : handles[g][i].pos < q
        BY <1>1, <2>3 DEF Counts, RowInv
      <4> QED
        BY <2>1, <2>3, <4>1 DEF RowsLaunched
    <3> QED
      BY <1>1, <1>2, <1>3, <2>2, <2>3, <3>1 DEF FinishOK
  <2>4. CASE ~(g2 = g /\ q = msgPos[g])
    BY <1>1, <1>2, <1>3, <2>1, <2>2, <2>4 DEF FinishOK
  <2> QED
    BY <2>3, <2>4
<1> QED
  BY <1>5, <1>6, <1>7, <1>8, <1>9 DEF Places, Counts

\* The steps of the loop that change nothing but its place.
LEMMA LoopKeeps ==
    ASSUME TypeInv, Places, Counts, UNCHANGED clientVars,
           LoopEnds \/ \E g \in Groups : NothingRead(g) \/ SkipGroup(g)
    PROVE  Places' /\ Counts'
<1>1. /\ UNCHANGED <<sendMsgs, commitTurnCnt, finishedTurnCnt, rcvMsg, msgPos, retryCnt,
                     finalizeFlag, finishFlag, stream, buffered, tasks, serverLaunch>>
      /\ UNCHANGED <<pc, call, launch, finalized, curMsgPosition, handles>>
      /\ server' = server \/ (server' = "exit" /\ \A g \in Groups : finishFlag[g])
  BY DEF LoopEnds, NothingRead, SkipGroup, At, Unmoved, areaVars, clientVars
<1>2. /\ \A g2 \in Groups : /\ Finalizing(g2)' = Finalizing(g2) /\ Over(g2)' = Over(g2)
                            /\ Idle(g2)' = Idle(g2) /\ Marked(g2)' = Marked(g2)
      /\ SameMessages
  BY <1>1 DEF Finalizing, Over, Idle, Marked, SameMessages, Message
<1>3. RowsSame /\ TasksSame /\ TasksGrow
  BY <1>1, Facts DEF RowsSame, TasksSame, TasksGrow
<1>4. RoundInv' /\ GroupInv'
  BY <1>1, <1>2 DEF Places, RoundInv, GroupInv
<1>5. SlotInv'
  BY <1>1, <1>2 DEF Places, SlotInv, SlotOK, HandOK, SameMessages
<1>6. RowInv' /\ MessageInv' /\ FinishInv' /\ EntryInv' /\ CommitInv'
  BY <1>1, <1>2, <1>3, RowKept, MessageKept, FinishKept, EntryKept, CommitKept DEF Counts
<1> QED
  BY <1>4, <1>5, <1>6 DEF Places, Counts

\* The next server finds every group over, or the client in the same launch.
LEMMA RelaunchFacts ==
    ASSUME TypeInv, Places, Relaunch, UNCHANGED clientVars
    PROVE  /\ UNCHANGED <<sendMsgs, paramExt, commitTurnCnt, finishedTurnCnt, rcvMsg, retryCnt,
                          expectSeqNum, stream, buffered, tasks>>
           /\ UNCHANGED <<pc, call, launch, finalized, curMsgPosition, handles, primitiveId>>
           /\ serverLaunch' = serverLaunch + 1 /\ server' = "run"
           /\ launch = serverLaunch \/ launch = serverLaunch'
           /\ \A g \in Groups : /\ msgPos'[g] = 0 /\ ~finalizeFlag'[g] /\ ~finishFlag'[g]
                                /\ finishFlag[g] /\ finalizeFlag[g] /\ Idle(g) /\ Idle(g)'
                                /\ Finalizing(g)' = Finalizing(g)
                                /\ Over(g)' = (launch = serverLaunch)
                                /\ Over(g) = (launch = serverLaunch)
                                /\ Marked(g)' = (launch = serverLaunch)
                                /\ Marked(g) = (launch = serverLaunch)
           /\ SameMessages
<1>1. /\ server = "exit" /\ serverLaunch' = serverLaunch + 1 /\ server' = "run"
      /\ UNCHANGED <<sendMsgs, paramExt, commitTurnCnt, finishedTurnCnt, rcvMsg, retryCnt,
                     expectSeqNum, stream, buffered, tasks>>
      /\ UNCHANGED <<pc, call, launch, finalized, curMsgPosition, handles, primitiveId>>
      /\ \A g \in Groups : msgPos'[g] = 0 /\ ~finalizeFlag'[g] /\ ~finishFlag'[g]
  BY DEF Relaunch, ResetServers, PerGroup, areaVars, clientVars
<1>2. \A g \in Groups : finishFlag[g] /\ finalizeFlag[g] /\ Idle(g)
  BY <1>1 DEF Places, RoundInv, GroupInv
<1>3. 0 \in Groups /\ launch \in Nat /\ serverLaunch \in Nat
  BY Facts, ConstantsHold DEF Groups, Constants
<1>4. launch = serverLaunch \/ launch = serverLaunch + 1
  <2>1. ~(launch < serverLaunch)
    BY <1>2, <1>3 DEF Places, RoundInv
  <2>2. launch <= serverLaunch + 1
    BY DEF Places, RoundInv
  <2> QED
    BY <1>3, <2>1, <2>2
<1>5. \A g \in Groups : /\ Over(g)' = (launch = serverLaunch) /\ Over(g) = (launch = serverLaunch)
                        /\ Marked(g)' = (launch = serverLaunch) /\ Marked(g) = (launch = serverLaunch)
  BY <1>1, <1>2, <1>3, <1>4 DEF Over, Marked
<1>6. \A g \in Groups : Idle(g)' /\ Finalizing(g)' = Finalizing(g)
  BY <1>1, <1>2 DEF Idle, Finalizing
<1>7. SameMessages
  BY <1>1, <1>2 DEF SameMessages, Message, Idle
<1> QED
  BY <1>1, <1>2, <1>4, <1>5, <1>6, <1>7

\* Places and counts are kept when the next server starts.
LEMMA RelaunchKeeps ==
    ASSUME TypeInv, Places, Counts, Relaunch, UNCHANGED clientVars PROVE Places' /\ Counts'
<1>1. /\ UNCHANGED <<sendMsgs, commitTurnCnt, finishedTurnCnt, rcvMsg, retryCnt, stream, buffered,
                     tasks>>
      /\ UNCHANGED <<pc, call, launch, finalized, curMsgPosition, handles>>
      /\ serverLaunch' = serverLaunch + 1 /\ server' = "run"
      /\ launch = serverLaunch \/ launch = serverLaunch'
      /\ \A g \in Groups : /\ msgPos'[g] = 0 /\ ~finalizeFlag'[g] /\ ~finishFlag'[g]
                           /\ finishFlag[g] /\ finalizeFlag[g] /\ Idle(g) /\ Idle(g)'
                           /\ Finalizing(g)' = Finalizing(g)
                           /\ Over(g)' = (launch = serverLaunch)
                           /\ Over(g) = (launch = serverLaunch)
                           /\ Marked(g)' = (launch = serverLaunch)
                           /\ Marked(g) = (launch = serverLaunch)
      /\ SameMessages
  BY RelaunchFacts
<1>2. /\ launch \in Nat /\ serverLaunch \in Nat /\ \A g \in Groups : curMsgPosition[g] \in Nat
      /\ \A p \in Pos : p \in Nat
  BY Facts
<1>3. RoundInv'
  <2>1. launch = serverLaunch => \A g \in Groups : (finalized[g] \/ Finalizing(g))'
    BY <1>1 DEF Places, GroupInv
  <2>2. /\ launch <= serverLaunch' + 1 /\ serverLaunch' <= launch + 1
        /\ ~(launch > serverLaunch') /\ server' = "run"
        /\ launch < serverLaunch' => launch = serverLaunch
    BY <1>1, <1>2
  <2> QED
    BY <1>1, <2>1, <2>2 DEF RoundInv
<1>4. GroupInv'
  BY <1>1, <1>2 DEF Places, GroupInv, Idle
<1>5. SlotInv'
  <2>1. ASSUME NEW g \in Groups, NEW p \in Pos PROVE SlotOK(g, p)'
    <3>1. SlotOK(g, p)
      BY DEF Places, SlotInv
    <3> QED
      BY <1>1, <1>2, <3>1 DEF SlotOK, SameMessages
  <2>2. \A g \in Groups : HandOK(g)'
    BY <1>1 DEF HandOK, Idle
  <2> QED
    BY <2>1, <2>2 DEF SlotInv
<1>6. RowsSame /\ TasksSame /\ TasksGrow
  BY <1>1, Facts DEF RowsSame, TasksSame, TasksGrow
<1>7. RowInv' /\ MessageInv' /\ FinishInv' /\ EntryInv' /\ CommitInv'
  BY <1>1, <1>6, RowKept, MessageKept, FinishKept, EntryKept, CommitKept DEF Counts
<1> QED
  BY <1>3, <1>4, <1>5, <1>7 DEF Places, Counts

\* No message is behind the number the server expects.
NoneBehind == \A g \in Groups : ~PrepareBehind(g)

\* Places and counts are kept by the server, as long as no message is behind its number.
LEMMA ServerKeeps ==
    ASSUME TypeInv, Places, Counts, ServerNext, NoneBehind PROVE Places' /\ Counts'
<1>0. UNCHANGED clientVars
  BY DEF ServerNext
<1>1. CASE Relaunch
  BY <1>0, <1>1, RelaunchKeeps
<1>2. CASE LoopEnds
  BY <1>0, <1>2, LoopKeeps
<1>3. ASSUME NEW g \in Groups, LoopProcess(g) PROVE Places' /\ Counts'
  <2>1. CASE PrepareTask(g)
    <3>1. ServerSide
      BY <1>0, <2>1 DEF ServerSide, PrepareTask, Process
    <3> QED
      BY <2>1, <3>1, PrepareTakenKeeps
  <2>2. CASE PrepareAhead(g) \/ GroupSyncAgain(g)
    <3>1. Again(g)
      BY <1>0, <2>2 DEF Again, ServerSide, PrepareAhead, GroupSyncAgain, Process
    <3> QED
      BY <3>1, AgainKeeps
  <2>3. CASE GroupSync(g)
    <3>1. ServerSide
      BY <1>0, <2>3 DEF ServerSide, GroupSync, Process
    <3> QED
      BY <2>3, <3>1, SyncTakenKeeps
  <2>4. CASE FinalizeMsg(g)
    <3>1. FinalizeTaken(g)
      BY <1>0, <2>4 DEF ServerSide, FinalizeTaken, FinalizeMsg, Process
    <3> QED
      BY <3>1, FinalizeTakenKeeps
  <2>5. CASE GroupDone(g)
    <3>1. ServerSide
      BY <1>0, <2>5 DEF ServerSide, GroupDone
    <3> QED
      BY <2>5, <3>1, GroupDoneKeeps
  <2>6. CASE NothingRead(g) \/ SkipGroup(g)
    BY <1>0, <2>6, LoopKeeps
  <2> QED
    BY <1>3, <2>1, <2>2, <2>3, <2>4, <2>5, <2>6 DEF LoopProcess, NoneBehind
<1> QED
  BY <1>1, <1>2, <1>3 DEF ServerNext

----------------------------------------------------------------------------
(* The streams.                                                             *)

\* What an entry at the head of a stream may change: a group that has not ended.
LEMMA StreamFacts ==
    ASSUME TypeInv, Places, NEW g \in Groups, DeviceStep(g), NEW e, e = Head(stream[g])
    PROVE  /\ e \in Sqe /\ Len(stream[g]) \in Nat /\ Len(stream[g]) > 0 /\ e = stream[g][1]
           /\ Len(stream'[g]) = Len(stream[g]) - 1
           /\ \A j \in 1 .. Len(stream'[g]) : stream'[g][j] = stream[g][j + 1]
           /\ \A g2 \in Groups : g2 # g => stream'[g2] = stream[g2] /\ Idle(g2)' = Idle(g2)
           /\ UNCHANGED <<sendMsgs, paramExt, clientVars, serverVars, buffered>>
           /\ ~Idle(g) /\ ~finishFlag[g] /\ ~(launch < serverLaunch) /\ ~finalized[g]
           /\ TasksSame /\ TasksGrow /\ RowsSame /\ SameMessages
           /\ \A g2 \in Groups : /\ Finalizing(g2)' = Finalizing(g2) /\ Over(g2)' = Over(g2)
                                 /\ Marked(g2)' = Marked(g2)
<1>1. /\ stream[g] # <<>> /\ stream' = [stream EXCEPT ![g] = Tail(@)]
      /\ UNCHANGED <<sendMsgs, paramExt, clientVars, serverVars, buffered>>
  BY DEF DeviceStep, StreamNext, WaitCommit, WaitFinish, RunKernel, PostFinish, Execute
<1>2. stream[g] \in Seq(Sqe) /\ Len(stream[g]) \in Nat /\ Len(stream[g]) > 0
  <2>1. stream[g] \in Seq(Sqe)
    BY DEF TypeInv
  <2> QED
    BY <1>1, <2>1
<1>3. /\ e \in Sqe /\ e = stream[g][1]
      /\ Len(Tail(stream[g])) = Len(stream[g]) - 1
      /\ \A j \in 1 .. Len(stream[g]) - 1 : Tail(stream[g])[j] = stream[g][j + 1]
  BY <1>1, <1>2
<1>4. stream'[g] = Tail(stream[g]) /\ \A g2 \in Groups : g2 # g => stream'[g2] = stream[g2]
  BY <1>1 DEF TypeInv
<1>5. /\ \A g2 \in Groups : /\ Finalizing(g2)' = Finalizing(g2) /\ Over(g2)' = Over(g2)
                            /\ Marked(g2)' = Marked(g2)
                            /\ g2 # g => Idle(g2)' = Idle(g2)
      /\ SameMessages /\ RowsSame
  BY <1>1, <1>4 DEF Finalizing, Over, Marked, Idle, SameMessages, Message, RowsSame,
     clientVars, serverVars
<1>6. ~Idle(g) /\ ~finishFlag[g] /\ ~(launch < serverLaunch) /\ ~finalized[g]
  BY <1>1 DEF Idle, Places, GroupInv, Marked
<1>7. TasksSame
  <2>1. CASE UNCHANGED tasks
    BY <2>1 DEF TasksSame
  <2>2. CASE RunKernel(g)
    <3>1. e.type = "kernel" /\ tasks' = [tasks EXCEPT ![e.task].executed = @ + 1]
      BY <2>2 DEF RunKernel, Execute
    <3>2. e.task \in 1 .. Len(tasks) /\ tasks \in Seq(Task) /\ tasks[e.task] \in Task
      <4>1. 1 \in 1 .. Len(stream[g])
        BY <1>2
      <4>2. e.task \in 1 .. Len(tasks)
        BY <1>3, <3>1, <4>1 DEF TypeInv, Links
      <4> QED
        BY <4>2, Facts DEF TypeInv
    <3>3. \A x : [tasks[e.task] EXCEPT !.executed = x].launched = tasks[e.task].launched
      BY <3>2 DEF Task
    <3> DEFINE d == [tasks[e.task] EXCEPT !.executed = tasks[e.task].executed + 1]
    <3>4. tasks' = [tasks EXCEPT ![e.task] = d] /\ d.launched = tasks[e.task].launched
      BY <3>1, <3>3
    <3> HIDE DEF d
    <3> QED
      BY <3>2, <3>4 DEF TasksSame
  <2> QED
    BY <2>1, <2>2 DEF DeviceStep, StreamNext, WaitCommit, WaitFinish, PostFinish
<1> QED
  BY <1>1, <1>2, <1>3, <1>4, <1>5, <1>6, <1>7, SameGrow

\* Places are kept by the streams.
LEMMA StreamPlaces == ASSUME TypeInv, Places, NEW g \in Groups, DeviceStep(g) PROVE Places'
<1>1. /\ UNCHANGED <<sendMsgs, clientVars, serverVars, buffered>>
      /\ \A g2 \in Groups : g2 # g => stream'[g2] = stream[g2] /\ Idle(g2)' = Idle(g2)
      /\ ~finishFlag[g] /\ ~(launch < serverLaunch) /\ SameMessages
      /\ \A g2 \in Groups : /\ Finalizing(g2)' = Finalizing(g2) /\ Over(g2)' = Over(g2)
                            /\ Marked(g2)' = Marked(g2)
  BY StreamFacts
<1>2. UNCHANGED <<server, launch, serverLaunch, finishFlag, finalizeFlag, msgPos, retryCnt, rcvMsg,
                  finalized, curMsgPosition>>
  BY <1>1 DEF clientVars, serverVars
<1>3. RoundInv'
  BY <1>1, <1>2 DEF Places, RoundInv
<1>4. GroupInv'
  BY <1>1, <1>2 DEF Places, GroupInv
<1>5. SlotInv'
  BY <1>1, <1>2 DEF Places, SlotInv, SlotOK, HandOK, SameMessages
<1> QED
  BY <1>3, <1>4, <1>5 DEF Places

\* Counts are kept by the streams: a post counts a turn of a launched row, and a wait
\* for the last commit clears the count before the group ends.
LEMMA StreamCounts ==
    ASSUME TypeInv, Places, Counts, NEW g \in Groups, DeviceStep(g) PROVE Counts'
<1>0. PICK e : e = Head(stream[g])
  OBVIOUS
<1>1. /\ e \in Sqe /\ Len(stream[g]) \in Nat /\ Len(stream[g]) > 0 /\ e = stream[g][1]
      /\ Len(stream'[g]) = Len(stream[g]) - 1
      /\ \A j \in 1 .. Len(stream'[g]) : stream'[g][j] = stream[g][j + 1]
      /\ \A g2 \in Groups : g2 # g => stream'[g2] = stream[g2]
      /\ UNCHANGED <<clientVars, serverVars>> /\ ~finalized[g]
      /\ TasksGrow /\ TasksSame /\ RowsSame /\ SameMessages
      /\ \A g2 \in Groups : /\ Finalizing(g2)' = Finalizing(g2) /\ Over(g2)' = Over(g2)
                            /\ Marked(g2)' = Marked(g2)
  BY <1>0, StreamFacts
<1>2. UNCHANGED <<curMsgPosition, handles, finalized>>
  BY <1>1 DEF clientVars
<1>3. RowInv' /\ MessageInv'
  BY <1>1, <1>2, RowKept, MessageKept DEF Counts
<1>4. EntryOK(g, e)
  BY <1>1 DEF Counts, EntryInv
<1>5. EntryInv'
  <2> SUFFICES ASSUME NEW g2 \in Groups, NEW j \in 1 .. Len(stream'[g2])
               PROVE  EntryOK(g2, stream[g2][j])'
    BY DEF EntryInv
  <2>1. PICK k \in 1 .. Len(stream[g2]) : stream'[g2][j] = stream[g2][k]
    <3>1. CASE g2 # g
      BY <1>1, <3>1
    <3>2. CASE g2 = g
      <4>1. j + 1 \in 1 .. Len(stream[g])
        BY <1>1, <3>2
      <4> QED
        BY <1>1, <3>2, <4>1
    <3> QED
      BY <3>1, <3>2
  <2>2. EntryOK(g2, stream[g2][k])
    BY DEF Counts, EntryInv
  <2> QED
    BY <1>1, <1>2, <2>1, <2>2, RowsKept DEF EntryOK
<1>6. FinishInv'
  <2>1. CASE UNCHANGED finishedTurnCnt
    BY <1>1, <1>2, <2>1, FinishKept DEF Counts
  <2>2. CASE PostFinish(g)
    <3>1. /\ e.type = "post"
          /\ finishedTurnCnt' = [finishedTurnCnt EXCEPT ![e.group][e.pos] = StoreHalf(@, e.val)]
      BY <1>0, <2>2 DEF PostFinish, Execute
    <3>2. e.group = g /\ e.pos < curMsgPosition[g] /\ RowsLaunched(g, e.pos) /\ e.pos \in Pos
      BY <1>1, <1>4, <3>1 DEF EntryOK, Sqe
    <3>3. \A g2 \in Groups, q \in Pos :
            g2 # g \/ q # e.pos => finishedTurnCnt'[g2][q] = finishedTurnCnt[g2][q]
      BY <3>1, <3>2 DEF TypeInv, AreaTypes
    <3> SUFFICES ASSUME NEW g2 \in Groups, NEW q \in Pos PROVE FinishOK(g2, q)'
      BY DEF FinishInv
    <3>4. FinishOK(g2, q) /\ (RowsLaunched(g2, q) => RowsLaunched(g2, q)')
      BY <1>1, RowsKept DEF Counts, FinishInv
    <3>5. CASE g2 = g /\ q = e.pos
      BY <1>1, <1>2, <3>2, <3>4, <3>5 DEF FinishOK
    <3>6. CASE ~(g2 = g /\ q = e.pos)
      BY <1>1, <1>2, <3>3, <3>4, <3>6 DEF FinishOK
    <3> QED
      BY <3>5, <3>6
  <2> QED
    BY <2>1, <2>2 DEF DeviceStep, StreamNext, WaitCommit, WaitFinish, RunKernel
<1>7. ASSUME NEW g2 \in Groups, NEW q \in Pos, NEW k \in 1 .. Len(stream[g2]),
             Clears(stream[g2][k], q), g2 # g \/ k # 1
      PROVE  \E j \in 1 .. Len(stream'[g2]) : Clears(stream'[g2][j], q)
  <2>1. CASE g2 # g
    BY <1>1, <1>7, <2>1
  <2>2. CASE g2 = g
    <3>1. k - 1 \in 1 .. Len(stream'[g]) /\ k = (k - 1) + 1
      BY <1>1, <1>7, <2>2
    <3>2. stream'[g][k - 1] = stream[g][k]
      BY <1>1, <3>1
    <3> QED
      BY <1>7, <2>2, <3>1, <3>2
  <2> QED
    BY <2>1, <2>2
<1>8. CommitInv'
  <2> SUFFICES ASSUME NEW g2 \in Groups, NEW q \in Pos PROVE CommitOK(g2, q)'
    BY DEF CommitInv
  <2>1. CommitOK(g2, q) /\ commitTurnCnt[g2][q] \in Nat
    BY DEF Counts, CommitInv, TypeInv, AreaTypes
  <2>2. /\ commitTurnCnt'[g2][q] = commitTurnCnt[g2][q] \/ commitTurnCnt'[g2][q] = 0
        /\ commitTurnCnt'[g2][q] # 0 => ~(g2 = g /\ Clears(stream[g][1], q))
    <3>1. CASE WaitCommit(g)
      <4>1. /\ e.type = "waitCommit"
            /\ commitTurnCnt' = [commitTurnCnt EXCEPT ![e.group][e.pos] = CounterAfter(@, e)]
        BY <1>0, <3>1 DEF WaitCommit, Execute
      <4>2. e.group \in Groups /\ e.pos \in Pos /\ (e.last => e.group = g)
        BY <1>1, <1>4, <4>1 DEF EntryOK, Sqe
      <4>3. commitTurnCnt'[g2][q] =
              IF g2 = e.group /\ q = e.pos THEN CounterAfter(commitTurnCnt[g2][q], e)
              ELSE commitTurnCnt[g2][q]
        BY <4>1, <4>2 DEF TypeInv, AreaTypes
      <4>4. CASE ~e.last
        BY <1>1, <4>3, <4>4 DEF CounterAfter, Clears
      <4>5. CASE e.last
        <5>1. commitTurnCnt[g2][q] = 0 \/ commitTurnCnt[g2][q] < Half
          BY <2>1 DEF CommitOK
        <5>2. StoreHalf(commitTurnCnt[g2][q], 0) = 0
          BY <2>1, <5>1 DEF StoreHalf, LoadHalf, Half
        <5> QED
          BY <1>1, <4>2, <4>3, <4>5, <5>2 DEF CounterAfter, Clears
      <4> QED
        BY <4>4, <4>5
    <3>2. CASE UNCHANGED commitTurnCnt /\ e.type # "waitCommit"
      BY <1>1, <3>2 DEF Clears
    <3> QED
      BY <1>0, <3>1, <3>2 DEF DeviceStep, StreamNext, WaitFinish, RunKernel, PostFinish, Execute
  <2>3. CASE commitTurnCnt'[g2][q] = 0
    BY <2>3 DEF CommitOK
  <2>4. CASE commitTurnCnt'[g2][q] # 0
    <3>1. commitTurnCnt'[g2][q] = commitTurnCnt[g2][q] /\ commitTurnCnt[g2][q] # 0
      BY <2>2, <2>4
    <3>2. Over(g2) => \E k \in 1 .. Len(stream[g2]) :
                        Clears(stream[g2][k], q) /\ (g2 # g \/ k # 1)
      BY <2>1, <2>2, <2>4, <3>1 DEF CommitOK
    <3>3. Over(g2) => \E j \in 1 .. Len(stream'[g2]) : Clears(stream'[g2][j], q)
      BY <1>7, <3>2
    <3> QED
      BY <1>1, <1>2, <2>1, <3>1, <3>3 DEF CommitOK
  <2> QED
    BY <2>3, <2>4
<1> QED
  BY <1>3, <1>5, <1>6, <1>8 DEF Counts

----------------------------------------------------------------------------
(* The numbers of the messages.                                             *)

\* A task stays in the table of its launch when the rows stay.
LEMMA TableKept ==
    ASSUME TypeInv, RowsSame, NEW t PROVE C!InTable(t)' <=> C!InTable(t)
<1>1. C!InTable(t) = \E g \in Groups : \E i \in 1 .. Len(handles[g]) : handles[g][i].task = t
  BY SameData DEF C!InTable
<1>2. C!InTable(t)' = \E g \in Groups : \E i \in 1 .. Len(handles'[g]) : handles'[g][i].task = t
  BY SameData DEF C!InTable
<1> QED
  BY <1>1, <1>2 DEF RowsSame

\* Numbers are kept when messages only go and nothing is launched.
LEMMA NumberKept ==
    ASSUME TypeInv, NumberInv, RowsSame, TasksSame, UNCHANGED <<primitiveId, expectSeqNum>>,
           \A g \in Groups, p \in Pos :
              Waits(g, p)' => Waits(g, p) /\ Message(g, p)' = Message(g, p),
           pc = "finDone" /\ ~Over(call.group) => (pc = "finDone" /\ ~Over(call.group))',
           (pc = "finDone" \/ \A g \in Groups : finalized[g])'
              => pc = "finDone" \/ \A g \in Groups : finalized[g]
    PROVE  NumberInv'
<1>1. PICK a \in 0 .. Len(tasks) : \E b \in a .. Len(tasks) : \E n \in b .. Len(tasks) :
              Numbering(a, b, n)
  BY DEF NumberInv
<1>2. PICK b \in a .. Len(tasks) : \E n \in b .. Len(tasks) : Numbering(a, b, n)
  BY <1>1
<1>3. PICK n \in b .. Len(tasks) : Numbering(a, b, n)
  BY <1>2
<1>4. Len(tasks') = Len(tasks) /\ \A t \in 1 .. Len(tasks) : tasks'[t].launched = tasks[t].launched
  BY DEF TasksSame
<1>5. C!TableNumbers(a)'
  BY <1>3, <1>4, TableKept DEF Numbering, C!TableNumbers
<1>6. C!LaunchedTo(n)'
  BY <1>3, <1>4 DEF Numbering, C!LaunchedTo
<1>7. \A g \in Groups, p \in Pos : Waits(g, p)' => Message(g, p)'.seq = Message(g, p)'.task - 1 - b
  BY <1>3 DEF Numbering
<1>8. Numbering(a, b, n)'
  BY <1>3, <1>4, <1>5, <1>6, <1>7 DEF Numbering
<1> QED
  BY <1>4, <1>8 DEF NumberInv

\* Numbers are kept when a sync is put.
LEMMA PutSyncNumbers ==
    ASSUME TypeInv, Places, NumberInv, NEW g, NEW p, NEW m, PutSync(g, p, m) PROVE NumberInv'
<1>1. /\ Put(g, p, m) /\ m.type = "sync" /\ pc' = "ready" /\ pc = "send"
      /\ UNCHANGED <<primitiveId, handles, tasks, expectSeqNum, finalized>>
  BY DEF PutSync, Put, OtherSide, serverVars
<1>2. RowsSame /\ TasksSame
  BY <1>1 DEF RowsSame, TasksSame
<1>3. \A g2 \in Groups, q \in Pos :
          Waits(g2, q)' => Waits(g2, q) /\ Message(g2, q)' = Message(g2, q)
  BY <1>1, PutMessages DEF Waits
<1> QED
  BY <1>1, <1>2, <1>3, NumberKept

\* Numbers are kept by a step that sends nothing.
LEMMA MinorNumbers == ASSUME TypeInv, NumberInv, Minor PROVE NumberInv'
<1>1. /\ RowsSame /\ TasksSame /\ UNCHANGED <<primitiveId, expectSeqNum, finalized>>
      /\ pc # "finDone" /\ pc' # "finDone" /\ SameMessages
  BY MessagesSame DEF Minor, OtherSide, serverVars
<1> QED
  BY <1>1, NumberKept DEF SameMessages, Waits

\* Numbers start again at the tasks there are when FINALIZE is sent.
LEMMA FinalizeSentNumbers ==
    ASSUME TypeInv, Places, Counts, NumberInv, DoneInv, NEW g, NEW p, FinalizeSent(g, p)
    PROVE  NumberInv'
<1>1. PICK a \in 0 .. Len(tasks) : \E b \in a .. Len(tasks) : \E n \in b .. Len(tasks) :
              Numbering(a, b, n)
  BY DEF NumberInv
<1>2. PICK b \in a .. Len(tasks) : \E n \in b .. Len(tasks) : Numbering(a, b, n)
  BY <1>1
<1>3. PICK n \in b .. Len(tasks) : Numbering(a, b, n)
  BY <1>2
<1>4. /\ a \in Nat /\ b \in Nat /\ n \in Nat /\ Len(tasks) \in Nat /\ a <= b /\ b <= n /\ n <= Len(tasks)
      /\ SeqMod \in Nat \ {0}
  BY Facts, ConstantsHold DEF Constants
<1>5. /\ pc = "send" /\ pc' = "finDone" /\ call' = call /\ primitiveId' = 0 /\ call.msg.type = "finalize"
      /\ UNCHANGED <<handles, tasks, launch, serverVars>> /\ g = call.group
  BY DEF FinalizeSent, OtherSide
<1>6. \A t \in 1 .. Len(tasks) : tasks[t].launched
  BY <1>5 DEF DoneInv, FinalizeCall
<1>7. n = Len(tasks)
  <2>1. C!LaunchedTo(n)
    BY <1>3 DEF Numbering
  <2>2. Len(tasks) > 0 => Len(tasks) <= n
    BY <1>4, <1>6, <2>1 DEF C!LaunchedTo
  <2> QED
    BY <1>4, <2>2
<1>8. ~Over(call.group)'
  BY <1>5, FinalizeMessages DEF FinalizeSent
<1>9. \A g2 \in Groups, q \in Pos : ~Waits(g2, q)'
  <2> SUFFICES ASSUME NEW g2 \in Groups, NEW q \in Pos, Waits(g2, q)' PROVE FALSE
    OBVIOUS
  <2>1. Waits(g2, q)
    BY <1>5, FinalizeMessages DEF Waits
  <2>2. Message(g2, q).task \in 1 .. Len(tasks) /\ ~tasks[Message(g2, q).task].launched
    BY <2>1, MessageTask DEF Counts, MessageInv, MessageOK
  <2> QED
    BY <1>6, <2>2
<1>10. Numbering(a, n, n)'
  <2>1. C!TableNumbers(a)' /\ C!LaunchedTo(n)' /\ Len(tasks') - a <= SeqMod
    BY <1>3, <1>5 DEF Numbering, C!TableNumbers, C!LaunchedTo, C!InTable
  <2>2. primitiveId' = (Len(tasks') - n) % SeqMod
    BY <1>4, <1>5, <1>7
  <2> QED
    BY <1>5, <1>7, <1>8, <1>9, <2>1, <2>2 DEF Numbering
<1> QED
  BY <1>4, <1>5, <1>10 DEF NumberInv

\* The three counts of the numbers as naturals: tasks before this table, before the
\* number 0, and launched.
LEMMA Numbered ==
    ASSUME TypeInv, NumberInv
    PROVE  \E a, b, n \in Nat :
              /\ a <= b /\ b <= n /\ n <= Len(tasks) /\ Len(tasks) \in Nat
              /\ SeqMod \in Nat \ {0} /\ Numbering(a, b, n)
<1>1. PICK a \in 0 .. Len(tasks) : \E b \in a .. Len(tasks) : \E n \in b .. Len(tasks) :
              Numbering(a, b, n)
  BY DEF NumberInv
<1>2. PICK b \in a .. Len(tasks) : \E n \in b .. Len(tasks) : Numbering(a, b, n)
  BY <1>1
<1>3. PICK n \in b .. Len(tasks) : Numbering(a, b, n)
  BY <1>2
<1>4. /\ a \in Nat /\ b \in Nat /\ n \in Nat /\ Len(tasks) \in Nat /\ a <= b /\ b <= n /\ n <= Len(tasks)
      /\ SeqMod \in Nat \ {0}
  BY Facts, ConstantsHold DEF Constants
<1> QED
  BY <1>3, <1>4

\* Naturals that number the tasks are the counts the invariant asks for.
LEMMA NumbersAre ==
    ASSUME NEW a \in Nat, NEW b \in Nat, NEW n \in Nat, a <= b, b <= n, n <= Len(tasks'),
           Len(tasks') \in Nat, Numbering(a, b, n)'
    PROVE  NumberInv'
BY DEF NumberInv

\* A number below the modulus is its own rest.
LEMMA Small == ASSUME NEW x \in Nat, NEW k \in Nat, x < k PROVE x % k = x
OBVIOUS

\* A Prepare gives the next number: no two messages that wait have the same.
LEMMA PutTaskNumbers ==
    ASSUME TypeInv, Places, NumberInv, C!RoomInv, NGroups * MaxHandle <= SeqMod,
           NEW g, NEW p, NEW m, PutTask(g, p, m)
    PROVE  NumberInv'
<1>1. PICK a, b, n \in Nat :
        /\ a <= b /\ b <= n /\ n <= Len(tasks) /\ Len(tasks) \in Nat
        /\ SeqMod \in Nat \ {0} /\ Numbering(a, b, n)
  BY Numbered
<1>2. PICK hd : NewRow(g, hd)
  BY PutRow
<1>3. /\ g \in Groups /\ p \in Pos /\ m \in Msg /\ ~finalized[g]
      /\ pc = "send" /\ pc' \in {"ready", "commit"}
      /\ m.task = Len(tasks) + 1 /\ m.seq = primitiveId /\ m.handle = Len(handles[g])
      /\ primitiveId' = (primitiveId + 1) % SeqMod
      /\ Len(tasks') = Len(tasks) + 1 /\ ~tasks'[Len(tasks) + 1].launched
      /\ \A t \in 1 .. Len(tasks) : tasks'[t] = tasks[t]
      /\ m.type = "prepare"
      /\ UNCHANGED <<finalized, expectSeqNum>>
  BY DEF PutTask, Put, OtherSide, serverVars
<1>4. Len(tasks) - a < SeqMod
  <2>1. Len(handles[g]) < MaxHandle
    <3>1. m.handle \in Handles /\ MaxHandle \in Nat
      BY <1>3, ConstantsHold DEF Msg, Constants
    <3> QED
      BY <1>3, <3>1 DEF Handles
  <2>2. a \in 0 .. Len(tasks) /\ C!TableNumbers(a)
    BY <1>1 DEF Numbering
  <2>3. C!TypeInv /\ g \in C!Groups
    BY <1>3, TypesThere, SameData
  <2> QED
    BY <2>1, <2>2, <2>3, ConstantsHold, SameData, C!Room DEF C!Room, Constants
<1>5. primitiveId = Len(tasks) - b /\ m.seq = m.task - 1 - b
  <2>1. Len(tasks) - b \in Nat /\ Len(tasks) - b < SeqMod
    BY <1>1, <1>4
  <2>2. (Len(tasks) - b) % SeqMod = Len(tasks) - b
    BY <1>1, <2>1, Small
  <2> QED
    BY <1>1, <1>3, <2>2 DEF Numbering
<1>6. primitiveId' = (Len(tasks') - b) % SeqMod
  <2>1. primitiveId + 1 = Len(tasks') - b
    BY <1>1, <1>3, <1>5
  <2> QED
    BY <1>3, <2>1
<1>7. C!TableNumbers(a)'
  <2>1. C!TableNumbers(a) /\ a <= Len(tasks)
    BY <1>1 DEF Numbering
  <2>2. \A t : C!InTable(t) <=> \E g2 \in Groups : \E i \in 1 .. Len(handles[g2]) : handles[g2][i].task = t
    BY SameData DEF C!InTable
  <2>3. \A t : C!InTable(t)' <=> \E g2 \in Groups : \E i \in 1 .. Len(handles'[g2]) : handles'[g2][i].task = t
    BY SameData DEF C!InTable
  <2>4. ASSUME NEW t, t = Len(tasks) + 1 PROVE C!InTable(t)'
    <3>1. Len(handles[g]) + 1 \in 1 .. Len(handles'[g]) /\ handles'[g][Len(handles[g]) + 1].task = Len(tasks) + 1
      BY <1>2 DEF NewRow
    <3>2. \E g2 \in Groups : \E i \in 1 .. Len(handles'[g2]) : handles'[g2][i].task = t
      BY <1>3, <2>4, <3>1
    <3> QED
      BY <2>3, <3>2
  <2>5. ASSUME NEW t \in 1 .. Len(tasks) PROVE C!InTable(t)' <=> C!InTable(t)
    <3>1. ASSUME NEW g2 \in Groups, NEW i \in 1 .. Len(handles[g2]), handles[g2][i].task = t
          PROVE  C!InTable(t)'
      <4>1. i \in 1 .. Len(handles'[g2]) /\ handles'[g2][i] = handles[g2][i]
        BY <1>2, <3>1 DEF NewRow
      <4> QED
        BY <2>3, <3>1, <4>1
    <3>2. ASSUME NEW g2 \in Groups, NEW i \in 1 .. Len(handles'[g2]), handles'[g2][i].task = t
          PROVE  C!InTable(t)
      <4>0. t # Len(tasks) + 1
        BY <1>1
      <4>1. CASE g2 # g
        <5>1. handles'[g2] = handles[g2]
          BY <1>2, <4>1 DEF NewRow
        <5> QED
          BY <2>2, <3>2, <5>1
      <4>2. CASE g2 = g
        <5>1. i # Len(handles[g]) + 1
          BY <1>2, <3>2, <4>0, <4>2 DEF NewRow
        <5>2. i \in 1 .. Len(handles[g]) /\ handles'[g][i] = handles[g][i]
          BY <1>2, <4>2, <5>1 DEF NewRow
        <5> QED
          BY <2>2, <3>2, <4>2, <5>2
      <4> QED
        BY <4>1, <4>2
    <3> QED
      BY <2>2, <2>3, <3>1, <3>2
  <2>6. \A t \in 1 .. Len(tasks') : t = Len(tasks) + 1 \/ t \in 1 .. Len(tasks)
    BY <1>1, <1>3
  <2>7. ASSUME NEW t \in 1 .. Len(tasks') PROVE C!InTable(t)' <=> t > a
    <3>1. CASE t = Len(tasks) + 1
      <4>1. t > a
        BY <1>1, <3>1
      <4>2. C!InTable(t)'
        BY <2>4, <3>1
      <4> QED
        BY <4>1, <4>2
    <3>2. CASE t \in 1 .. Len(tasks)
      BY <2>1, <2>5, <3>2 DEF C!TableNumbers
    <3> QED
      BY <2>6, <3>1, <3>2
  <2> QED
    BY <2>7 DEF C!TableNumbers
<1>8. C!LaunchedTo(n)'
  <2>1. \A t \in 1 .. Len(tasks') : t = Len(tasks) + 1 \/ t \in 1 .. Len(tasks)
    BY <1>1, <1>3
  <2>2. C!LaunchedTo(n)
    BY <1>1 DEF Numbering
  <2> QED
    BY <1>1, <1>3, <2>1, <2>2 DEF C!LaunchedTo
<1>9. ASSUME NEW g2 \in Groups, NEW q \in Pos, Waits(g2, q)'
      PROVE  Message(g2, q)'.seq = Message(g2, q)'.task - 1 - b
  <2>1. Message(g2, q)' = IF g2 = g /\ q = p THEN m ELSE Message(g2, q)
    BY <1>3, PutMessages DEF PutTask
  <2> QED
    BY <1>1, <1>5, <1>9, <2>1 DEF Waits, Numbering
<1>10. Len(tasks') - a <= SeqMod
  BY <1>1, <1>3, <1>4
<1>11. Numbering(a, b, n)'
  BY <1>1, <1>3, <1>6, <1>7, <1>8, <1>9, <1>10 DEF Numbering
<1>12. Len(tasks') \in Nat /\ n <= Len(tasks')
  BY <1>1, <1>3
<1> QED
  BY <1>1, <1>11, <1>12, NumbersAre

\* Numbers are kept when a launch starts a new table.
LEMMA NextLaunchNumbers ==
    ASSUME TypeInv, NumberInv, OtherSide, NextLaunch PROVE NumberInv'
<1>1. PICK a, b, n \in Nat :
        /\ a <= b /\ b <= n /\ n <= Len(tasks) /\ Len(tasks) \in Nat
        /\ SeqMod \in Nat \ {0} /\ Numbering(a, b, n)
  BY Numbered
<1>2. /\ pc = "ready" /\ pc' = "ready" /\ \A g \in Groups : finalized[g]
      /\ handles' = [g \in Groups |-> <<>>]
      /\ UNCHANGED <<sendMsgs, primitiveId, tasks, serverVars>>
  BY DEF NextLaunch, areaVars, OtherSide, PerGroup
<1>3. b = Len(tasks) /\ n = Len(tasks)
  BY <1>1, <1>2 DEF Numbering
<1>4. \A t : ~C!InTable(t)'
  <2>1. \A t : C!InTable(t)' <=> \E g \in Groups : \E i \in 1 .. Len(handles'[g]) : handles'[g][i].task = t
    BY SameData DEF C!InTable
  <2>2. \A g \in Groups : Len(handles'[g]) = 0
    BY <1>2
  <2> QED
    BY <2>1, <2>2
<1>5. C!TableNumbers(n)' /\ C!LaunchedTo(n)'
  BY <1>1, <1>2, <1>3, <1>4 DEF Numbering, C!TableNumbers, C!LaunchedTo
<1>6. \A g \in Groups, p \in Pos : Waits(g, p)' => Message(g, p)'.seq = Message(g, p)'.task - 1 - b
  BY <1>1, <1>2, MessagesSame DEF SameMessages, Numbering, Waits
<1>7. expectSeqNum = (n - b) % SeqMod /\ primitiveId = (Len(tasks) - b) % SeqMod
  BY <1>1, <1>2 DEF Numbering
<1>8. Numbering(n, n, n)'
  BY <1>1, <1>2, <1>3, <1>5, <1>6, <1>7 DEF Numbering, serverVars
<1> QED
  BY <1>1, <1>2, <1>8, NumbersAre

\* Numbers are kept when Finalize returns: the server expects 0 again by then.
LEMMA FinalizeDoneNumbers ==
    ASSUME TypeInv, Places, Counts, NumberInv, OtherSide, FinalizeDone PROVE NumberInv'
<1>1. /\ pc = "finDone" /\ UNCHANGED <<sendMsgs, primitiveId, handles, tasks, serverVars>>
  BY DEF FinalizeDone, OtherSide
<1>2. Over(call.group)
  <2>1. call.group \in Groups /\ Marked(call.group)
    BY DoneMarked
  <2> QED
    BY <2>1 DEF Marked, Over, Places, GroupInv
<1>3. RowsSame /\ TasksSame
  BY <1>1 DEF RowsSame, TasksSame
<1>4. \A g \in Groups, p \in Pos : Message(g, p)' = Message(g, p) /\ (Waits(g, p)' <=> Waits(g, p))
  BY <1>1, MessagesSame DEF SameMessages, Waits
<1>5. expectSeqNum' = expectSeqNum
  BY <1>1 DEF serverVars
<1> QED
  BY <1>1, <1>2, <1>3, <1>4, <1>5, NumberKept

\* The next task of the numbers, and every later one, is still to be launched.
LEMMA PrepareNumber ==
    ASSUME TypeInv, Places, Counts, NumberInv, DoneInv, NEW g \in Groups, Process(g, "prepare"),
           NEW m, m = SlotNow(g)
    PROVE  /\ pc # "finDone" /\ Waits(g, msgPos[g]) /\ m = Message(g, msgPos[g])
           /\ \E a, b, n \in Nat :
                /\ a <= b /\ b <= n /\ n <= Len(tasks) /\ Len(tasks) \in Nat
                /\ SeqMod \in Nat \ {0} /\ Numbering(a, b, n)
                /\ m.task \in 1 .. Len(tasks) /\ m.task > n
                /\ m.seq = m.task - 1 - b /\ expectSeqNum = n - b
<1>1. PICK a, b, n \in Nat :
        /\ a <= b /\ b <= n /\ n <= Len(tasks) /\ Len(tasks) \in Nat
        /\ SeqMod \in Nat \ {0} /\ Numbering(a, b, n)
  BY Numbered
<1>2. m = Message(g, msgPos[g]) /\ m.type = "prepare" /\ msgPos[g] \in Pos
  BY ProcessFacts DEF Process
<1>3. Waits(g, msgPos[g]) /\ m.task \in 1 .. Len(tasks) /\ ~tasks[m.task].launched
  <2>1. Waits(g, msgPos[g])
    BY <1>2 DEF Waits
  <2>2. Message(g, msgPos[g]).task \in 1 .. Len(tasks)
        /\ ~tasks[Message(g, msgPos[g]).task].launched
    BY <1>2, <2>1, MessageTask DEF Counts, MessageInv, MessageOK
  <2> QED
    BY <1>2, <2>1, <2>2
<1>4. pc # "finDone"
  <2>1. pc = "finDone" => call.msg.type = "finalize"
    BY DEF TypeInv, ClientTypes, C!CallOK
  <2>2. pc = "finDone" => \A t \in 1 .. Len(tasks) : tasks[t].launched
    BY <2>1 DEF DoneInv, FinalizeCall
  <2> QED
    BY <1>3, <2>2
<1>5. m.task > n /\ m.task \in Nat
  <2>1. C!LaunchedTo(n)
    BY <1>1 DEF Numbering
  <2> QED
    BY <1>1, <1>3, <2>1 DEF C!LaunchedTo
<1>6. expectSeqNum = n - b
  <2>1. expectSeqNum = (n - b) % SeqMod /\ Len(tasks) - a <= SeqMod
    BY <1>1, <1>4 DEF Numbering
  <2>2. n - b \in Nat /\ n - b < SeqMod
    BY <1>1, <1>3, <1>5, <2>1
  <2> QED
    BY <1>1, <2>1, <2>2, Small
<1>7. m.seq = m.task - 1 - b
  BY <1>1, <1>2, <1>3 DEF Numbering
<1> QED
  BY <1>1, <1>2, <1>3, <1>4, <1>5, <1>6, <1>7

\* No message is behind the number the server expects.
LEMMA NoBehind == ASSUME TypeInv, Places, Counts, NumberInv, DoneInv PROVE NoneBehind
<1> SUFFICES ASSUME NEW g \in Groups, Process(g, "prepare"), NEW m, m = SlotNow(g), Behind(m)
             PROVE  FALSE
  BY DEF NoneBehind, PrepareBehind
<1>1. PICK a, b, n \in Nat :
        /\ a <= b /\ b <= n /\ n <= Len(tasks) /\ Len(tasks) \in Nat
        /\ SeqMod \in Nat \ {0} /\ Numbering(a, b, n)
        /\ m.task \in 1 .. Len(tasks) /\ m.task > n
        /\ m.seq = m.task - 1 - b /\ expectSeqNum = n - b
  BY PrepareNumber
<1>2. m.seq < expectSeqNum
  BY DEF Behind
<1> QED
  BY <1>1, <1>2

\* The launched message is of the next task: the server then expects the one after.
LEMMA PrepareTakenNumbers ==
    ASSUME TypeInv, Places, Counts, NumberInv, DoneInv, NEW g \in Groups, ServerSide, PrepareTask(g)
    PROVE  NumberInv'
<1> DEFINE m == SlotNow(g)
<1>0. Process(g, "prepare")
  BY DEF PrepareTask
<1>1. PICK a, b, n \in Nat :
        /\ a <= b /\ b <= n /\ n <= Len(tasks) /\ Len(tasks) \in Nat
        /\ SeqMod \in Nat \ {0} /\ Numbering(a, b, n)
        /\ m.task \in 1 .. Len(tasks) /\ m.task > n
        /\ m.seq = m.task - 1 - b /\ expectSeqNum = n - b
  BY <1>0, PrepareNumber
<1>2. pc # "finDone" /\ m = Message(g, msgPos[g])
  BY <1>0, PrepareNumber
<1>3. /\ Taken(g, "prepare") /\ Len(tasks') = Len(tasks) /\ tasks'[m.task].launched
      /\ \A t \in 1 .. Len(tasks) : t # m.task => tasks'[t].launched = tasks[t].launched
      /\ NotAhead(m) /\ expectSeqNum' = (m.seq + 1) % SeqMod
  BY <1>2, PrepareTaken
<1> HIDE DEF m
<1>4. m.task = n + 1 /\ m.seq + 1 = n + 1 - b
  <2>1. ~(m.seq > expectSeqNum)
    BY <1>3 DEF NotAhead, Ahead
  <2> QED
    BY <1>1, <2>1
<1>5. UNCHANGED <<pc, call, primitiveId, handles, finalized>>
  BY DEF ServerSide, clientVars
<1>6. C!TableNumbers(a)' /\ Len(tasks') - a <= SeqMod /\ primitiveId' = (Len(tasks') - b) % SeqMod
  BY <1>1, <1>3, <1>5 DEF Numbering, C!TableNumbers, C!InTable
<1>7. ASSUME NEW k \in Nat, k = n + 1 PROVE C!LaunchedTo(k)'
  <2>1. C!LaunchedTo(n)
    BY <1>1 DEF Numbering
  <2>2. ASSUME NEW t \in 1 .. Len(tasks) PROVE tasks'[t].launched <=> t <= k
    <3>1. CASE t = m.task
      BY <1>1, <1>3, <1>4, <1>7, <3>1
    <3>2. CASE t # m.task
      <4>1. tasks'[t].launched = tasks[t].launched /\ (tasks[t].launched <=> t <= n)
        BY <1>3, <2>1, <3>2 DEF C!LaunchedTo
      <4> QED
        BY <1>1, <1>4, <1>7, <3>2, <4>1
    <3> QED
      BY <3>1, <3>2
  <2> QED
    BY <1>3, <2>2 DEF C!LaunchedTo
<1>8. ASSUME NEW g2 \in Groups, NEW q \in Pos, Waits(g2, q)'
      PROVE  Message(g2, q)'.seq = Message(g2, q)'.task - 1 - b
  <2>1. Message(g2, q)' = Message(g2, q)
    BY <1>3, <1>8, TakenMessages, Facts DEF Waits
  <2> QED
    BY <1>1, <1>8, <2>1 DEF Waits, Numbering
<1>9. pc = "finDone" \/ (\A g2 \in Groups : finalized[g2]) => b = Len(tasks)
  BY <1>1 DEF Numbering
<1>10. ASSUME NEW k \in Nat, k = n + 1 PROVE NumberInv'
  <2>1. Numbering(a, b, k)'
    BY <1>3, <1>4, <1>5, <1>6, <1>7, <1>8, <1>9, <1>10 DEF Numbering
  <2>2. k <= Len(tasks') /\ Len(tasks') \in Nat /\ b <= k
    BY <1>1, <1>3, <1>4, <1>10
  <2> QED
    BY <1>1, <2>1, <2>2, NumbersAre
<1> QED
  BY <1>1, <1>10

\* FINALIZE makes the server expect 0, as the client gives it next.
LEMMA FinalizeTakenNumbers ==
    ASSUME TypeInv, Places, NumberInv, NEW g \in Groups, FinalizeTaken(g) PROVE NumberInv'
<1>1. PICK a, b, n \in Nat :
        /\ a <= b /\ b <= n /\ n <= Len(tasks) /\ Len(tasks) \in Nat
        /\ SeqMod \in Nat \ {0} /\ Numbering(a, b, n)
  BY Numbered
<1>2. /\ Finalizing(g) /\ UNCHANGED <<pc, call, finalized, handles, tasks, primitiveId>>
      /\ expectSeqNum' = 0
  BY FinalizeTakenFacts DEF FinalizeTaken, ServerSide, clientVars, FinalizeMsg
<1>3. b = Len(tasks) /\ n = Len(tasks)
  BY <1>1, <1>2 DEF Numbering, Finalizing
<1>4. C!TableNumbers(a)' /\ C!LaunchedTo(n)'
  BY <1>1, <1>2 DEF Numbering, C!TableNumbers, C!LaunchedTo, C!InTable
<1>5. ASSUME NEW g2 \in Groups, NEW q \in Pos, Waits(g2, q)'
      PROVE  Message(g2, q)'.seq = Message(g2, q)'.task - 1 - b
  <2>1. Message(g2, q)' = Message(g2, q)
    BY <1>5, FinalizeTakenFacts, Facts DEF Waits
  <2> QED
    BY <1>1, <1>5, <2>1 DEF Waits, Numbering
<1>6. (n - b) % SeqMod = 0
  <2>1. n - b = 0
    BY <1>1, <1>3
  <2> QED
    BY <1>1, <2>1, Small
<1>7. primitiveId = (Len(tasks) - b) % SeqMod /\ Len(tasks) - a <= SeqMod
  BY <1>1 DEF Numbering
<1>8. Numbering(a, b, n)'
  BY <1>2, <1>3, <1>4, <1>5, <1>6, <1>7 DEF Numbering
<1> QED
  BY <1>1, <1>2, <1>8, NumbersAre

\* The server's other steps keep numbers, messages and the end of Finalize.
LEMMA ServerNumbers ==
    ASSUME TypeInv, Places, Counts, NumberInv, DoneInv, ServerNext PROVE NumberInv'
<1>1. UNCHANGED clientVars
  BY DEF ServerNext
<1>2. UNCHANGED <<pc, call, primitiveId, handles, finalized, launch>> /\ RowsSame
  BY <1>1 DEF clientVars, RowsSame
<1>3. ASSUME UNCHANGED <<tasks, expectSeqNum>>,
             \A g \in Groups, p \in Pos :
                Waits(g, p)' => Waits(g, p) /\ Message(g, p)' = Message(g, p),
             \A g \in Groups : Over(g)' = Over(g)
      PROVE  NumberInv'
  <2>1. TasksSame
    BY <1>3 DEF TasksSame
  <2>2. pc = "finDone" /\ ~Over(call.group) => (pc = "finDone" /\ ~Over(call.group))'
    <3>1. call.group \in Groups
      BY Facts
    <3> QED
      BY <1>2, <1>3, <3>1
  <2> QED
    BY <1>2, <1>3, <2>1, <2>2, NumberKept
<1>4. CASE Relaunch
  BY <1>1, <1>3, <1>4, RelaunchFacts DEF SameMessages, Waits
<1>5. CASE LoopEnds \/ \E g \in Groups : NothingRead(g) \/ SkipGroup(g)
  <2>1. UNCHANGED <<sendMsgs, rcvMsg, msgPos, retryCnt, expectSeqNum, tasks, finalizeFlag, serverLaunch>>
    BY <1>5 DEF LoopEnds, NothingRead, SkipGroup, Unmoved, areaVars, At
  <2>2. SameMessages
    BY <2>1 DEF SameMessages, Message
  <2>3. \A g \in Groups : Over(g)' = Over(g)
    BY <1>2, <2>1 DEF Over
  <2> QED
    BY <1>3, <2>1, <2>2, <2>3 DEF SameMessages, Waits
<1>6. ASSUME NEW g \in Groups, LoopProcess(g), ~NothingRead(g), ~SkipGroup(g) PROVE NumberInv'
  <2>0. ~PrepareBehind(g)
    BY NoBehind DEF NoneBehind
  <2>1. CASE PrepareTask(g)
    <3>1. ServerSide
      BY <1>1, <2>1 DEF ServerSide, PrepareTask, Process
    <3> QED
      BY <2>1, <3>1, PrepareTakenNumbers
  <2>2. CASE PrepareAhead(g) \/ GroupSyncAgain(g)
    <3>1. Again(g)
      BY <1>1, <2>2 DEF Again, ServerSide, PrepareAhead, GroupSyncAgain, Process
    <3>2. /\ UNCHANGED <<tasks, expectSeqNum, finalizeFlag, launch, serverLaunch>> /\ SameMessages
      BY <3>1, AgainSame
    <3> QED
      BY <1>3, <3>2 DEF SameMessages, Waits, Over
  <2>3. CASE GroupSync(g)
    <3>1. Taken(g, "sync") /\ UNCHANGED <<tasks, expectSeqNum>>
      BY <1>1, <2>3, Facts DEF Taken, ServerSide, GroupSync, Process, TypeInv, BufferOK
    <3>2. \A g2 \in Groups, p \in Pos :
            Waits(g2, p)' => Waits(g2, p) /\ Message(g2, p)' = Message(g2, p)
      BY <3>1, TakenMessages, Facts DEF Waits
    <3> QED
      BY <1>3, <3>1, <3>2, TakenMessages
  <2>4. CASE FinalizeMsg(g)
    <3>1. FinalizeTaken(g)
      BY <1>1, <2>4 DEF FinalizeTaken, ServerSide, FinalizeMsg, Process
    <3> QED
      BY <3>1, FinalizeTakenNumbers
  <2>5. CASE GroupDone(g)
    <3>1. UNCHANGED <<sendMsgs, rcvMsg, msgPos, retryCnt, expectSeqNum, tasks, finalizeFlag, serverLaunch>>
      BY <2>5, GroupDoneFacts
    <3>2. SameMessages
      BY <3>1 DEF SameMessages, Message
    <3>3. \A g2 \in Groups : Over(g2)' = Over(g2)
      BY <1>2, <3>1 DEF Over
    <3> QED
      BY <1>3, <3>1, <3>2, <3>3 DEF SameMessages, Waits
  <2> QED
    BY <1>6, <2>0, <2>1, <2>2, <2>3, <2>4, <2>5 DEF LoopProcess
<1> QED
  BY <1>4, <1>5, <1>6 DEF ServerNext

\* Numbers are kept by the streams.
LEMMA StreamNumbers ==
    ASSUME TypeInv, Places, NumberInv, NEW g \in Groups, DeviceStep(g) PROVE NumberInv'
<1>1. /\ UNCHANGED <<clientVars, serverVars>> /\ TasksSame /\ RowsSame /\ SameMessages
      /\ \A g2 \in Groups : Over(g2)' = Over(g2)
  BY StreamFacts
<1>2. UNCHANGED <<pc, call, primitiveId, finalized, expectSeqNum>>
  BY <1>1 DEF clientVars, serverVars
<1>3. pc = "finDone" /\ ~Over(call.group) => (pc = "finDone" /\ ~Over(call.group))'
  <2>1. call.group \in Groups
    BY Facts
  <2> QED
    BY <1>1, <1>2, <2>1
<1> QED
  BY <1>1, <1>2, <1>3, NumberKept DEF SameMessages, Waits

----------------------------------------------------------------------------
(* The rows of the tables, and the calls.                                   *)

\* What Commit and Wait do to the rows.
RowMade(g, k, hd) ==
    /\ RowsSame /\ handles'[g][k] = hd
    /\ \A g2 \in Groups \ {g} : handles'[g2] = handles[g2]
    /\ \A i \in 1 .. Len(handles[g]) : i # k => handles'[g][i] = handles[g][i]

\* A row that is written stays of the same position and task.
LEMMA RowPut ==
    ASSUME TypeInv, NEW g \in Groups, NEW k \in 1 .. Len(handles[g]), NEW hd \in Handle,
           handles' = [handles EXCEPT ![g][k] = hd], hd.repeat = handles[g][k].repeat,
           hd.pos = handles[g][k].pos, hd.task = handles[g][k].task
    PROVE  RowMade(g, k, hd)
<1>1. handles \in [Groups -> Seq(Handle)] /\ handles[g] \in Seq(Handle)
  BY SameData DEF TypeInv, ClientTypes, C!ClientTypeOK
<1>2. ASSUME NEW s \in Seq(Handle), k \in 1 .. Len(s)
      PROVE  /\ Len([s EXCEPT ![k] = hd]) = Len(s)
             /\ \A i \in 1 .. Len(s) : [s EXCEPT ![k] = hd][i] = IF i = k THEN hd ELSE s[i]
  BY <1>2
<1>3. /\ Len([handles[g] EXCEPT ![k] = hd]) = Len(handles[g])
      /\ \A i \in 1 .. Len(handles[g]) :
            [handles[g] EXCEPT ![k] = hd][i] = IF i = k THEN hd ELSE handles[g][i]
  BY <1>1, <1>2
<1>4. /\ handles'[g] = [handles[g] EXCEPT ![k] = hd]
      /\ \A g2 \in Groups \ {g} : handles'[g2] = handles[g2]
  BY <1>1
<1>5. Len(handles'[g]) = Len(handles[g])
  BY <1>3, <1>4
<1>6. handles'[g][k] = hd /\ \A i \in 1 .. Len(handles[g]) : i # k => handles'[g][i] = handles[g][i]
  BY <1>3, <1>4
<1>7. RowsSame
  BY <1>4, <1>5, <1>6 DEF RowsSame
<1> QED
  BY <1>4, <1>6, <1>7 DEF RowMade

\* Commit and Wait change one count of one row.
LEMMA RowCall ==
    ASSUME TypeInv, NEW g \in Groups, NEW h \in Handles, Commit(g, h) \/ Wait(g, h)
    PROVE  /\ RowsSame /\ h + 1 \in 1 .. Len(handles[g])
           /\ \A g2 \in Groups : \A i \in 1 .. Len(handles[g2]) :
                /\ handles'[g2][i].wait = IF Wait(g, h) /\ g2 = g /\ i = h + 1
                                          THEN handles[g2][i].wait + 1 ELSE handles[g2][i].wait
                /\ handles'[g2][i].commit <= handles'[g2][i].repeat
                     \/ handles'[g2][i].commit = handles[g2][i].commit
<1> SUFFICES ASSUME NEW k, k = h + 1, NEW old, old = handles[g][k],
                    NEW hd1, hd1 = [old EXCEPT !.commit = @ + 1],
                    NEW hd2, hd2 = [old EXCEPT !.wait = @ + 1]
             PROVE  /\ RowsSame /\ k \in 1 .. Len(handles[g])
                    /\ \A g2 \in Groups : \A i \in 1 .. Len(handles[g2]) :
                        /\ handles'[g2][i].wait = IF Wait(g, h) /\ g2 = g /\ i = k
                                                  THEN handles[g2][i].wait + 1
                                                  ELSE handles[g2][i].wait
                        /\ handles'[g2][i].commit <= handles'[g2][i].repeat
                             \/ handles'[g2][i].commit = handles[g2][i].commit
  OBVIOUS
<1>0. handles[g] \in Seq(Handle) /\ h \in Nat /\ Len(handles[g]) \in Nat
  BY ConstantsHold, SameData DEF TypeInv, ClientTypes, C!ClientTypeOK, Handles, Constants
<1>1. k \in 1 .. Len(handles[g]) /\ old \in Handle
  <2>1. h < Len(handles[g])
    BY DEF Commit, Wait
  <2>2. k \in 1 .. Len(handles[g])
    BY <1>0, <2>1
  <2> QED
    BY <1>0, <2>2
<1>2. old.wait + 1 \in Nat /\ old.commit + 1 \in Nat
  BY <1>1 DEF Handle
<1>3. CASE Wait(g, h)
  <2>1. handles' = [handles EXCEPT ![g][k] = hd2]
    BY <1>3 DEF Wait
  <2>2. /\ hd2 \in Handle /\ hd2.wait = old.wait + 1 /\ hd2.repeat = old.repeat
        /\ hd2.pos = old.pos /\ hd2.task = old.task /\ hd2.commit = old.commit
    BY <1>1, <1>2 DEF Handle
  <2>3. RowMade(g, k, hd2)
    <3>1. /\ hd2 \in Handle /\ hd2.repeat = handles[g][k].repeat
          /\ hd2.pos = handles[g][k].pos /\ hd2.task = handles[g][k].task
      BY <2>2
    <3>2. k \in 1 .. Len(handles[g]) /\ handles' = [handles EXCEPT ![g][k] = hd2]
      BY <1>1, <2>1
    <3> QED
      BY <3>1, <3>2, RowPut
  <2>4. ASSUME NEW g2 \in Groups, NEW i \in 1 .. Len(handles[g2])
        PROVE  /\ handles'[g2][i].wait = IF g2 = g /\ i = k THEN handles[g2][i].wait + 1
                                         ELSE handles[g2][i].wait
               /\ handles'[g2][i].commit = handles[g2][i].commit
    <3>1. CASE g2 = g /\ i = k
      <4>1. handles'[g2][i] = hd2 /\ handles[g2][i] = old
        BY <2>3, <3>1 DEF RowMade
      <4> QED
        BY <2>2, <3>1, <4>1
    <3>2. CASE ~(g2 = g /\ i = k)
      BY <2>3, <3>2 DEF RowMade
    <3> QED
      BY <3>1, <3>2
  <2>5. RowsSame
    BY <2>3 DEF RowMade
  <2> QED
    BY <1>1, <1>3, <2>4, <2>5
<1>4. CASE Commit(g, h) /\ ~Wait(g, h)
  <2>1. handles' = [handles EXCEPT ![g][k] = hd1] /\ old.commit < old.repeat
    BY <1>4 DEF Commit
  <2>2. /\ hd1 \in Handle /\ hd1.wait = old.wait /\ hd1.repeat = old.repeat
        /\ hd1.pos = old.pos /\ hd1.task = old.task /\ hd1.commit = old.commit + 1
    BY <1>1, <1>2 DEF Handle
  <2>3. RowMade(g, k, hd1)
    <3>1. /\ hd1 \in Handle /\ hd1.repeat = handles[g][k].repeat
          /\ hd1.pos = handles[g][k].pos /\ hd1.task = handles[g][k].task
      BY <2>2
    <3>2. k \in 1 .. Len(handles[g]) /\ handles' = [handles EXCEPT ![g][k] = hd1]
      BY <1>1, <2>1
    <3> QED
      BY <3>1, <3>2, RowPut
  <2>4. hd1.commit <= hd1.repeat
    BY <1>1, <2>1, <2>2 DEF Handle
  <2>5. ASSUME NEW g2 \in Groups, NEW i \in 1 .. Len(handles[g2])
        PROVE  /\ handles'[g2][i].wait = handles[g2][i].wait
               /\ handles'[g2][i].commit <= handles'[g2][i].repeat
                    \/ handles'[g2][i].commit = handles[g2][i].commit
    <3>1. CASE g2 = g /\ i = k
      <4>1. handles'[g2][i] = hd1 /\ handles[g2][i] = old
        BY <2>3, <3>1 DEF RowMade
      <4> QED
        BY <2>2, <2>4, <4>1
    <3>2. CASE ~(g2 = g /\ i = k)
      BY <2>3, <3>2 DEF RowMade
    <3> QED
      BY <3>1, <3>2
  <2>6. RowsSame
    BY <2>3 DEF RowMade
  <2> QED
    BY <1>1, <1>4, <2>5, <2>6
<1> QED
  BY <1>3, <1>4

\* The bounds of the rows stay when the rows do.
LEMMA BoundRoomKept == ASSUME BoundInv, C!RoomInv, UNCHANGED handles PROVE BoundInv' /\ C!RoomInv'
BY DEF BoundInv, C!RoomInv

\* Commit and Wait keep the bounds of the rows.
LEMMA BoundRoomCall ==
    ASSUME TypeInv, BoundInv, C!RoomInv, NEW g \in Groups, NEW h \in Handles,
           Commit(g, h) \/ Wait(g, h)
    PROVE  BoundInv' /\ C!RoomInv'
<1>1. RowsSame /\ \A g2 \in Groups : \A i \in 1 .. Len(handles[g2]) :
                    /\ handles'[g2][i].commit <= handles'[g2][i].repeat
                         \/ handles'[g2][i].commit = handles[g2][i].commit
  BY RowCall
<1>2. C!RoomInv'
  BY <1>1, SameData DEF RowsSame, C!RoomInv
<1>3. BoundInv'
  BY <1>1 DEF RowsSame, BoundInv
<1> QED
  BY <1>2, <1>3

\* Prepare keeps the bounds of the rows: repeat fits its byte, and a table has room.
LEMMA BoundRoomPut ==
    ASSUME TypeInv, BoundInv, C!RoomInv, NEW g, NEW p, NEW m, PutTask(g, p, m)
    PROVE  BoundInv' /\ C!RoomInv'
<1>1. PICK hd : NewRow(g, hd)
  BY PutRow
<1>2. g \in Groups /\ m \in Msg /\ m.handle = Len(handles[g])
  BY DEF PutTask, Put
<1>3. Len(handles[g]) + 1 <= MaxHandle
  <2>1. m.handle \in Handles /\ MaxHandle \in Nat
    BY <1>2, ConstantsHold DEF Msg, Constants
  <2> QED
    BY <1>2, <2>1 DEF Handles
<1>4. C!RoomInv'
  BY <1>1, <1>2, <1>3, SameData DEF NewRow, C!RoomInv
<1>5. ASSUME NEW g2 \in Groups, NEW i \in 1 .. Len(handles'[g2])
      PROVE  handles'[g2][i].commit <= handles'[g2][i].repeat /\ handles'[g2][i].repeat <= 255
  <2>1. CASE g2 # g
    BY <1>1, <2>1 DEF NewRow, BoundInv
  <2>2. CASE g2 = g /\ i = Len(handles[g]) + 1
    BY <1>1, <2>2 DEF NewRow
  <2>3. CASE g2 = g /\ i # Len(handles[g]) + 1
    <3>1. i \in 1 .. Len(handles[g])
      BY <1>1, <2>3 DEF NewRow
    <3> QED
      BY <1>1, <2>3, <3>1 DEF NewRow, BoundInv
  <2> QED
    BY <2>1, <2>2, <2>3
<1> QED
  BY <1>4, <1>5 DEF BoundInv

\* The tables of a new launch are within their bounds.
LEMMA LaunchRows ==
    ASSUME TypeInv, NextLaunch PROVE BoundInv' /\ C!RoomInv' /\ WaitInv'
<1>1. \A g \in Groups : Len(handles'[g]) = 0
  BY DEF NextLaunch, PerGroup
<1>2. MaxHandle \in Nat
  BY ConstantsHold DEF Constants
<1>3. C!RoomInv'
  BY <1>1, <1>2, SameData DEF C!RoomInv
<1> QED
  BY <1>1, <1>3 DEF BoundInv, WaitInv

\* A row waited for stays launched.
LEMMA WaitKept ==
    ASSUME TypeInv, WaitInv, UNCHANGED handles, TasksGrow,
           pc = "wait" => pc' = "wait" /\ call' = call
    PROVE  WaitInv'
<1> SUFFICES ASSUME NEW g \in Groups, NEW i \in 1 .. Len(handles[g]) PROVE WaitOK(g, i)'
  BY DEF WaitInv
<1>1. WaitOK(g, i) /\ (InWait(g, i) => InWait(g, i)')
  BY DEF WaitInv, InWait
<1>2. handles[g][i].task \in 1 .. Len(tasks) /\ handles[g][i].wait \in Nat
  BY Rows
<1> QED
  BY <1>1, <1>2 DEF WaitOK, TasksGrow

\* Wait of a row that has been waited for finds it launched; the first waits still.
LEMMA WaitCall ==
    ASSUME TypeInv, WaitInv, NEW g \in Groups, NEW h \in Handles, Commit(g, h) \/ Wait(g, h)
    PROVE  WaitInv'
<1>1. /\ RowsSame /\ h + 1 \in 1 .. Len(handles[g])
      /\ \A g2 \in Groups : \A i \in 1 .. Len(handles[g2]) :
           handles'[g2][i].wait = IF Wait(g, h) /\ g2 = g /\ i = h + 1
                                  THEN handles[g2][i].wait + 1 ELSE handles[g2][i].wait
  BY RowCall
<1>2. /\ pc = "ready" /\ UNCHANGED tasks
      /\ Wait(g, h) => pc' = "wait" /\ call'.group = g /\ call'.handle = h
  BY DEF Commit, Wait, ApiCall
<1> SUFFICES ASSUME NEW g2 \in Groups, NEW i \in 1 .. Len(handles[g2]) PROVE WaitOK(g2, i)'
  BY <1>1 DEF WaitInv, RowsSame
<1>3. /\ WaitOK(g2, i) /\ ~InWait(g2, i) /\ handles[g2][i].wait \in Nat
      /\ handles'[g2][i].task = handles[g2][i].task
  BY <1>1, <1>2, Rows DEF WaitInv, InWait, RowsSame
<1>4. CASE Wait(g, h) /\ g2 = g /\ i = h + 1
  <2>1. InWait(g2, i)' /\ handles'[g2][i].wait = handles[g2][i].wait + 1
    BY <1>1, <1>2, <1>4 DEF InWait
  <2> QED
    BY <1>2, <1>3, <2>1 DEF WaitOK
<1>5. CASE ~(Wait(g, h) /\ g2 = g /\ i = h + 1)
  <2>1. handles'[g2][i].wait = handles[g2][i].wait
    BY <1>1, <1>5
  <2> QED
    BY <1>2, <1>3, <2>1 DEF WaitOK
<1> QED
  BY <1>4, <1>5

\* The row of a new task has not been waited for.
LEMMA WaitPut ==
    ASSUME TypeInv, WaitInv, NEW g, NEW p, NEW m, PutTask(g, p, m) PROVE WaitInv'
<1>1. PICK hd : NewRow(g, hd)
  BY PutRow
<1>2. /\ g \in Groups /\ pc = "send" /\ \A t \in 1 .. Len(tasks) : tasks'[t] = tasks[t]
  BY DEF PutTask, Put
<1> SUFFICES ASSUME NEW g2 \in Groups, NEW i \in 1 .. Len(handles'[g2]) PROVE WaitOK(g2, i)'
  BY DEF WaitInv
<1>3. ASSUME i \in 1 .. Len(handles[g2]), handles'[g2][i] = handles[g2][i] PROVE WaitOK(g2, i)'
  <2>1. /\ WaitOK(g2, i) /\ ~InWait(g2, i) /\ handles[g2][i].wait \in Nat
        /\ handles[g2][i].task \in 1 .. Len(tasks)
    BY <1>2, <1>3, Rows DEF WaitInv, InWait
  <2> QED
    BY <1>2, <1>3, <2>1 DEF WaitOK
<1>4. CASE g2 # g
  BY <1>1, <1>3, <1>4 DEF NewRow
<1>5. CASE g2 = g /\ i = Len(handles[g]) + 1
  <2>1. handles'[g2][i].wait = 0
    BY <1>1, <1>5 DEF NewRow
  <2> QED
    BY <2>1 DEF WaitOK
<1>6. CASE g2 = g /\ i # Len(handles[g]) + 1
  BY <1>1, <1>3, <1>6 DEF NewRow
<1> QED
  BY <1>4, <1>5, <1>6

\* The row a call that waits returns for is launched: a turn of it has finished.
LEMMA WaitBack ==
    ASSUME TypeInv, WaitInv, FinishInv, OtherSide, WaitReturn PROVE WaitInv'
<1> DEFINE hd == handles[call.group][call.handle + 1]
<1>1. /\ pc = "wait" /\ finishedTurnCnt[call.group][hd.pos] >= hd.wait /\ UNCHANGED handles
      /\ TasksSame
  BY ContinueMinor DEF Minor, WaitReturn, TurnsFinished
<1>2. /\ call.group \in Groups /\ call.handle + 1 \in 1 .. Len(handles[call.group])
  BY <1>1, TypesThere, ConstantsHold, SameData, C!CallTask DEF C!CallTask, Constants
<1>3. hd.wait \in Nat /\ hd.pos \in Pos /\ hd.task \in 1 .. Len(tasks)
  BY <1>2, Rows
<1>4. finishedTurnCnt[call.group][hd.pos] \in Nat
  BY <1>2, <1>3 DEF TypeInv, AreaTypes
<1>5. hd.wait > 0 => tasks[hd.task].launched
  <2>1. hd.wait > 0 => finishedTurnCnt[call.group][hd.pos] # 0
    BY <1>1, <1>3, <1>4
  <2> QED
    BY <1>2, <1>3, <2>1 DEF FinishInv, FinishOK, RowsLaunched
<1> SUFFICES ASSUME NEW g \in Groups, NEW i \in 1 .. Len(handles[g]) PROVE WaitOK(g, i)'
  BY <1>1 DEF WaitInv
<1>6. WaitOK(g, i) /\ handles[g][i].wait \in Nat /\ handles[g][i].task \in 1 .. Len(tasks)
  BY Rows DEF WaitInv
<1>7. CASE InWait(g, i)
  <2>1. handles[g][i] = hd
    BY <1>7 DEF InWait
  <2> QED
    BY <1>1, <1>5, <1>6, <2>1 DEF WaitOK, TasksSame
<1>8. CASE ~InWait(g, i)
  BY <1>1, <1>6, <1>8 DEF WaitOK, TasksSame
<1> QED
  BY <1>7, <1>8

\* When the rows of all groups are launched, all tasks are.
LEMMA AllRows ==
    ASSUME TypeInv, NumberInv, \A g \in Groups : AllLaunched(g)
    PROVE  \A t \in 1 .. Len(tasks) : tasks[t].launched
<1>1. PICK a, b, n \in Nat :
        /\ a <= b /\ b <= n /\ n <= Len(tasks) /\ Len(tasks) \in Nat
        /\ SeqMod \in Nat \ {0} /\ Numbering(a, b, n)
  BY Numbered
<1> SUFFICES ASSUME NEW t \in 1 .. Len(tasks) PROVE tasks[t].launched
  OBVIOUS
<1>2. CASE t <= n
  BY <1>1, <1>2 DEF Numbering, C!LaunchedTo
<1>3. CASE t > n
  <2>1. C!InTable(t)
    BY <1>1, <1>3 DEF Numbering, C!TableNumbers
  <2>2. \E g \in Groups : \E i \in 1 .. Len(handles[g]) : handles[g][i].task = t
    BY <2>1, SameData DEF C!InTable
  <2> QED
    BY <2>2 DEF AllLaunched
<1> QED
  BY <1>1, <1>2, <1>3

\* A launched row, and those before it: tasks are launched in order.
LEMMA RowsBefore ==
    ASSUME TypeInv, RowInv, NumberInv, NEW g \in Groups,
           Len(handles[g]) > 0 => tasks[handles[g][Len(handles[g])].task].launched
    PROVE  AllLaunched(g)
<1>1. PICK a, b, n \in Nat :
        /\ a <= b /\ b <= n /\ n <= Len(tasks) /\ Len(tasks) \in Nat
        /\ SeqMod \in Nat \ {0} /\ Numbering(a, b, n)
  BY Numbered
<1>2. C!LaunchedTo(n)
  BY <1>1 DEF Numbering
<1> SUFFICES ASSUME NEW i \in 1 .. Len(handles[g]) PROVE tasks[handles[g][i].task].launched
  BY DEF AllLaunched
<1>3. Len(handles[g]) \in Nat /\ Len(handles[g]) \in 1 .. Len(handles[g])
  BY Rows
<1>c. SUFFICES ASSUME NEW k \in 1 .. Len(handles[g]), k = Len(handles[g])
               PROVE  tasks[handles[g][i].task].launched
  BY <1>3
<1>4. handles[g][i].task \in 1 .. Len(tasks) /\ handles[g][k].task \in 1 .. Len(tasks)
  BY Rows
<1>5. i = k \/ handles[g][i].task < handles[g][k].task
  BY <1>3, <1>c DEF RowInv
<1>6. tasks[handles[g][k].task].launched
  BY <1>3, <1>c
<1>7. handles[g][k].task <= n
  BY <1>2, <1>4, <1>6 DEF C!LaunchedTo
<1>8. handles[g][i].task <= n
  BY <1>1, <1>4, <1>5, <1>7
<1> QED
  BY <1>2, <1>4, <1>8 DEF C!LaunchedTo

\* What a Finalize under way knows of the tasks stays true.
LEMMA DoneKept ==
    ASSUME TypeInv, DoneInv, RowsSame, TasksGrow, Len(tasks') = Len(tasks),
           FinalizeCall' => FinalizeCall /\ call' = call /\ (pc' # "finQuery" => pc # "finQuery")
    PROVE  DoneInv'
<1>1. \A g \in Groups : AllLaunched(g) => AllLaunched(g)'
  BY RowsKept
<1> QED
  BY <1>1 DEF DoneInv, TasksGrow

\* Outside of Finalize nothing is claimed.
LEMMA DoneNone == ASSUME ~FinalizeCall' PROVE DoneInv'
BY DEF DoneInv

\* Finalize of a careful author: every task of the other groups was waited for.
LEMMA FinalizeCalled ==
    ASSUME TypeInv, RowInv, WaitInv, NumberInv, NEW g \in Groups, NEW sync \in SyncModes,
           Finalize(g, sync), CarefulCall
    PROVE  DoneInv'
<1>1. /\ pc = "ready" /\ pc' \in {"finQuery", "send"}
      /\ pc' = IF sync /\ curHandleId[g] >= 0 THEN "finQuery" ELSE "send"
      /\ call'.group = g /\ call'.msg.type = "finalize" /\ call'.flag = sync
      /\ UNCHANGED <<handles, tasks>>
  BY DEF Finalize, ApiCall, NoMsg
<1>2. /\ sync
      /\ \A g2 \in Groups \ {g} : \A i \in DOMAIN handles[g2] :
            handles[g2][i].wait = handles[g2][i].repeat
  BY <1>1 DEF CarefulCall
<1>3. ASSUME NEW g2 \in Groups \ {g} PROVE AllLaunched(g2)
  <2> SUFFICES ASSUME NEW i \in 1 .. Len(handles[g2]) PROVE tasks[handles[g2][i].task].launched
    BY DEF AllLaunched
  <2>1. i \in DOMAIN handles[g2]
    BY SameData DEF TypeInv, ClientTypes, C!ClientTypeOK
  <2>2. handles[g2][i].wait = handles[g2][i].repeat /\ handles[g2][i].repeat > 0
    BY <1>2, <2>1 DEF RowInv
  <2> QED
    BY <1>1, <2>2 DEF WaitInv, WaitOK, InWait
<1>4. ASSUME pc' # "finQuery" PROVE \A t \in 1 .. Len(tasks) : tasks[t].launched
  <2>1. curHandleId[g] < 0
    <3>1. curHandleId[g] \in -1 .. MaxHandle
      BY SameData DEF TypeInv, ClientTypes, C!ClientTypeOK
    <3>2. MaxHandle \in Nat
      BY ConstantsHold DEF Constants
    <3> QED
      BY <1>1, <1>2, <1>4, <3>1, <3>2
  <2>2. Len(handles[g]) = curHandleId[g] + 1
    <3>1. ~C!Preparing
      BY <1>1 DEF C!Preparing
    <3>2. curHandleId[g] < MaxHandle
      <4>1. MaxHandle \in Nat /\ curHandleId[g] \in -1 .. MaxHandle
        BY ConstantsHold, SameData DEF Constants, TypeInv, ClientTypes, C!ClientTypeOK
      <4> QED
        BY <2>1, <4>1
    <3> QED
      BY <3>1, <3>2, SameData DEF TypeInv, ClientTypes, C!HandlesOK
  <2>3. AllLaunched(g)
    <3>1. curHandleId[g] \in -1 .. MaxHandle /\ MaxHandle \in Nat
      BY ConstantsHold, SameData DEF Constants, TypeInv, ClientTypes, C!ClientTypeOK
    <3>2. ~(Len(handles[g]) > 0)
      BY <2>1, <2>2, <3>1
    <3> QED
      BY <3>2, Rows DEF AllLaunched
  <2> QED
    BY <1>3, <2>3, AllRows
<1>5. \A g2 \in Groups \ {g} : AllLaunched(g2)'
  BY <1>1, <1>3 DEF AllLaunched
<1> QED
  BY <1>1, <1>2, <1>4, <1>5 DEF DoneInv

\* Query of the last task of the group: it has finished, so that all are launched.
LEMMA QueryDone ==
    ASSUME TypeInv, RowInv, FinishInv, NumberInv, DoneInv, FinalizeQueried PROVE DoneInv'
<1> DEFINE g == call.group
           hd == handles[g][curHandleId[g] + 1]
<1>1. /\ pc = "finQuery" /\ curHandleId[g] < MaxHandle
      /\ finishedTurnCnt[g][hd.pos] >= hd.repeat
      /\ pc' = "send" /\ UNCHANGED <<call, handles, tasks>>
  BY DEF FinalizeQueried, TurnsFinished, GoOn
<1>2. g \in Groups
  BY Facts
<1>3. Len(handles[g]) = curHandleId[g] + 1
  <2>1. ~C!Preparing
    BY <1>1 DEF C!Preparing
  <2> QED
    BY <1>1, <1>2, <2>1, SameData DEF TypeInv, ClientTypes, C!HandlesOK
<1> HIDE DEF hd, g
<1>4. AllLaunched(g)
  <2>1. SUFFICES ASSUME Len(handles[g]) > 0 PROVE tasks[handles[g][Len(handles[g])].task].launched
    BY <1>2, RowsBefore
  <2>2. SUFFICES ASSUME NEW k \in 1 .. Len(handles[g]), k = Len(handles[g])
                 PROVE  tasks[handles[g][k].task].launched
    BY <1>2, <2>1, Rows
  <2>3. hd = handles[g][k]
    BY <1>3, <2>2 DEF hd
  <2>4. hd.repeat > 0 /\ hd.repeat \in Nat /\ hd.pos \in Pos
    BY <1>2, <2>2, <2>3, Rows DEF RowInv
  <2>5. finishedTurnCnt[g][hd.pos] \in Nat
    BY <1>2, <2>4 DEF TypeInv, AreaTypes
  <2>6. finishedTurnCnt[g][hd.pos] # 0
    BY <1>1, <2>4, <2>5
  <2>7. RowsLaunched(g, hd.pos)
    BY <1>2, <2>4, <2>6 DEF FinishInv, FinishOK
  <2> QED
    BY <2>2, <2>3, <2>7 DEF RowsLaunched
<1>5. FinalizeCall
  BY <1>1 DEF FinalizeCall, TypeInv, ClientTypes, C!CallOK
<1>6. call.flag /\ \A g2 \in Groups \ {g} : AllLaunched(g2)
  BY <1>5 DEF DoneInv, g
<1>7. \A t \in 1 .. Len(tasks) : tasks[t].launched
  BY <1>2, <1>4, <1>6, AllRows
<1>8. \A g2 \in Groups \ {g} : AllLaunched(g2)'
  BY <1>1, <1>6 DEF AllLaunched
<1> QED
  BY <1>1, <1>6, <1>7, <1>8 DEF DoneInv, g

\* The FINALIZE message is sent when all tasks are launched.
LEMMA FinalizeSentDone ==
    ASSUME TypeInv, DoneInv, NEW g, NEW p, FinalizeSent(g, p) PROVE DoneInv'
<1>1. /\ pc = "send" /\ call' = call /\ call.msg.type = "finalize" /\ UNCHANGED <<handles, tasks>>
  BY DEF FinalizeSent
<1>2. /\ call.flag /\ \A g2 \in Groups \ {call.group} : AllLaunched(g2)
      /\ \A t \in 1 .. Len(tasks) : tasks[t].launched
  BY <1>1 DEF DoneInv, FinalizeCall
<1>3. \A g2 \in Groups \ {call.group} : AllLaunched(g2)'
  BY <1>1, <1>2 DEF AllLaunched
<1> QED
  BY <1>1, <1>2, <1>3 DEF DoneInv

----------------------------------------------------------------------------
(* The server's and the streams' steps, and the calls.                      *)

\* The rows and the calls stay, and tasks are only launched.
LEMMA QuietCalls ==
    ASSUME TypeInv, BoundInv, WaitInv, DoneInv, C!RoomInv, UNCHANGED clientVars, TasksGrow,
           Len(tasks') = Len(tasks)
    PROVE  BoundInv' /\ WaitInv' /\ DoneInv' /\ C!RoomInv'
<1>1. UNCHANGED <<pc, call, handles>> /\ RowsSame
  BY DEF clientVars, RowsSame
<1>2. FinalizeCall' = FinalizeCall
  BY <1>1 DEF FinalizeCall
<1> QED
  BY <1>1, <1>2, BoundRoomKept, WaitKept, DoneKept

\* The server launches tasks, and adds none.
LEMMA ServerTasks ==
    ASSUME TypeInv, Places, ServerNext PROVE TasksGrow /\ Len(tasks') = Len(tasks)
<1>1. ASSUME UNCHANGED tasks PROVE TasksGrow /\ Len(tasks') = Len(tasks)
  BY <1>1, Facts DEF TasksGrow
<1>2. CASE Relaunch \/ LoopEnds
  BY <1>1, <1>2 DEF Relaunch, LoopEnds, Unmoved
<1>3. ASSUME NEW g \in Groups, LoopProcess(g) PROVE TasksGrow /\ Len(tasks') = Len(tasks)
  <2>1. CASE PrepareTask(g)
    <3>1. ServerSide
      BY <2>1 DEF ServerSide, ServerNext, PrepareTask, Process
    <3> QED
      BY <2>1, <3>1, PrepareTaken
  <2>2. CASE ~PrepareTask(g)
    BY <1>1, <1>3, <2>2 DEF LoopProcess, PrepareAhead, PrepareBehind, ProcessAgain, Fail, GroupSync,
       GroupSyncAgain, FinalizeMsg, GroupDone, NothingRead, SkipGroup, Unmoved
  <2> QED
    BY <2>1, <2>2
<1> QED
  BY <1>2, <1>3 DEF ServerNext

\* The extended parameters of a message are cleared with it.
LEMMA ServerExt ==
    ASSUME TypeInv, C!ExtInv, ServerNext PROVE C!ExtInv'
<1>1. UNCHANGED clientVars
  BY DEF ServerNext
<1>2. ASSUME UNCHANGED <<sendMsgs, paramExt>> PROVE C!ExtInv'
  BY <1>1, <1>2, SameData DEF C!ExtInv, C!ExtAhead, clientVars
<1>3. ASSUME NEW g \in Groups, NEW type, Process(g, type) PROVE C!ExtInv'
  <2>1. C!TakeMsg(g)
    <3>1. retryCnt[g] \in {0, 1}
      BY DEF TypeInv, ServerTypes
    <3>2. CASE retryCnt[g] = 1
      BY <1>3, <3>2 DEF Process, GiveBack, C!TakeMsg
    <3>3. CASE retryCnt[g] = 0
      <4>1. sendMsgs[g][msgPos[g]] # NoMsg
        BY <1>3, <3>3 DEF Process, Readable
      <4>2. SlotNow(g) = C!CurrentMsg(g)
        BY <3>3, <4>1 DEF SlotNow, C!CurrentMsg
      <4>3. /\ sendMsgs' = [sendMsgs EXCEPT ![g][msgPos[g]] = NoMsg]
            /\ paramExt' = [paramExt EXCEPT ![g][msgPos[g]] = @ /\ ~C!CurrentMsg(g).ext]
        BY <1>3, <3>3, <4>2 DEF Process, GiveBack
      <4> QED
        BY <3>3, <4>3, SameData DEF C!TakeMsg
    <3> QED
      BY <3>1, <3>2, <3>3
  <2>2. UNCHANGED C!clientVars
    BY <1>1 DEF clientVars, C!clientVars
  <2>3. C!TypeInv /\ g \in C!Groups
    BY TypesThere, SameData
  <2> QED
    BY <2>1, <2>2, <2>3, ConstantsHold, C!ExtTaken DEF C!ExtTaken, Constants
<1>4. CASE Relaunch \/ LoopEnds
  BY <1>2, <1>4 DEF Relaunch, LoopEnds, Unmoved, areaVars
<1>5. ASSUME NEW g \in Groups, LoopProcess(g) PROVE C!ExtInv'
  <2>1. CASE NothingRead(g) \/ SkipGroup(g) \/ GroupDone(g)
    BY <1>2, <2>1 DEF NothingRead, SkipGroup, GroupDone, Unmoved, areaVars
  <2>2. CASE \E type : Process(g, type)
    BY <1>3, <2>2
  <2> QED
    BY <1>5, <2>1, <2>2 DEF LoopProcess, PrepareTask, PrepareAhead, PrepareBehind, GroupSync,
       GroupSyncAgain, FinalizeMsg
<1> QED
  BY <1>4, <1>5 DEF ServerNext

\* The server keeps rows, calls and numbers.
LEMMA ServerCalls ==
    ASSUME TypeInv, Places, Counts, Calls, ServerNext PROVE Calls'
<1>1. UNCHANGED clientVars /\ TasksGrow /\ Len(tasks') = Len(tasks)
  BY ServerTasks DEF ServerNext
<1> QED
  BY <1>1, QuietCalls, ServerExt, ServerNumbers DEF Calls

\* The streams keep rows, calls and numbers.
LEMMA StreamCalls ==
    ASSUME TypeInv, Places, Calls, NEW g \in Groups, DeviceStep(g) PROVE Calls'
<1>1. UNCHANGED <<sendMsgs, paramExt, clientVars>> /\ TasksGrow /\ TasksSame
  BY StreamFacts
<1>2. Len(tasks') = Len(tasks)
  BY <1>1 DEF TasksSame
<1>3. C!ExtInv'
  BY <1>1, SameData DEF Calls, C!ExtInv, C!ExtAhead, clientVars
<1> QED
  BY <1>1, <1>2, <1>3, QuietCalls, StreamNumbers DEF Calls

----------------------------------------------------------------------------
(* The client's steps, and the invariant.                                   *)

\* Places and counts are kept by a step that sends nothing and commits nothing.
LEMMA MinorKeeps ==
    ASSUME TypeInv, Places, Counts, Minor, UNCHANGED commitTurnCnt PROVE Places' /\ Counts'
BY MinorPlaces, MinorCounts DEF Counts

\* A call of a careful author keeps the invariant when it begins.
LEMMA CallKeeps ==
    ASSUME TypeInv, CarefulInv, CallApi, OtherSide, CarefulCall, C!ExtInv' PROVE CarefulInv'
<1>0. Places /\ Counts /\ BoundInv /\ WaitInv /\ DoneInv /\ NumberInv /\ C!RoomInv /\ RowInv
  BY DEF CarefulInv, Calls, Counts
<1>1. ASSUME NEW g \in Groups,
             \/ \E r \in Repeats, ext \in Exts, commit \in BOOLEAN : Prepare(g, r, ext, commit)
             \/ PrepareRefused(g)
             \/ \E g2 \in Groups, h \in Handles : InterHcclGroupSync(g, g2, h)
             \/ \E sync \in SyncModes : Finalize(g, sync)
      PROVE  CarefulInv'
  <2>1. Minor /\ pc = "ready" /\ UNCHANGED <<handles, tasks, commitTurnCnt>>
    BY <1>1, CallMinor
  <2>2. Places' /\ Counts' /\ NumberInv'
    BY <1>0, <2>1, MinorKeeps, MinorNumbers
  <2>3. TasksGrow
    BY <2>1, SameGrow DEF Minor
  <2>4. BoundInv' /\ C!RoomInv' /\ WaitInv'
    BY <1>0, <2>1, <2>3, BoundRoomKept, WaitKept
  <2>5. DoneInv'
    <3>1. ASSUME NEW sync \in SyncModes, Finalize(g, sync) PROVE DoneInv'
      BY <1>0, <3>1, FinalizeCalled
    <3>2. ASSUME NEW r, NEW ext, NEW commit, Prepare(g, r, ext, commit) PROVE DoneInv'
      <4>1. call'.msg.type = "prepare"
        BY <3>2 DEF Prepare, ApiCall, NoMsg
      <4> QED
        BY <4>1, DoneNone DEF FinalizeCall
    <3>3. ASSUME NEW g2, NEW h, InterHcclGroupSync(g, g2, h) PROVE DoneInv'
      <4>1. call'.msg.type = "sync"
        BY <3>3 DEF InterHcclGroupSync, ApiCall, NoMsg
      <4> QED
        BY <4>1, DoneNone DEF FinalizeCall
    <3>4. ASSUME PrepareRefused(g) PROVE DoneInv'
      <4>1. pc' = "ready"
        BY <2>1, <3>4 DEF PrepareRefused
      <4> QED
        BY <4>1, DoneNone DEF FinalizeCall
    <3> QED
      BY <1>1, <3>1, <3>2, <3>3, <3>4
  <2> QED
    BY <2>2, <2>4, <2>5 DEF CarefulInv, Calls
<1>2. ASSUME NEW g \in Groups, NEW h \in Handles, Commit(g, h) \/ Wait(g, h) PROVE CarefulInv'
  <2>1. Minor /\ UNCHANGED <<tasks, commitTurnCnt>>
    BY <1>2, RowMinor
  <2>2. Places' /\ Counts' /\ NumberInv'
    BY <1>0, <2>1, MinorKeeps, MinorNumbers
  <2>3. BoundInv' /\ C!RoomInv' /\ WaitInv'
    BY <1>0, <1>2, BoundRoomCall, WaitCall
  <2>4. DoneInv'
    <3>1. pc' \in {"commit", "wait"}
      BY <1>2 DEF Commit, Wait
    <3> QED
      BY <3>1, DoneNone DEF FinalizeCall
  <2> QED
    BY <2>2, <2>3, <2>4 DEF CarefulInv, Calls
<1>3. CASE NextLaunch
  <2>1. Places' /\ Counts' /\ NumberInv'
    BY <1>0, <1>3, NextLaunchKeeps, NextLaunchNumbers
  <2>2. BoundInv' /\ C!RoomInv' /\ WaitInv'
    BY <1>3, LaunchRows
  <2>3. DoneInv'
    <3>1. pc' = "ready"
      BY <1>3 DEF NextLaunch
    <3> QED
      BY <3>1, DoneNone DEF FinalizeCall
  <2> QED
    BY <2>1, <2>2, <2>3 DEF CarefulInv, Calls
<1> QED
  BY <1>1, <1>2, <1>3 DEF CallApi

\* A call of a careful author keeps the invariant as it goes on, and as it returns.
LEMMA ContinueKeeps ==
    ASSUME TypeInv, CarefulInv, ContinueCall, OtherSide, NGroups * MaxHandle <= SeqMod, C!ExtInv'
    PROVE  CarefulInv'
<1>0. /\ Places /\ Counts /\ BoundInv /\ WaitInv /\ DoneInv /\ NumberInv /\ C!RoomInv /\ RowInv
      /\ FinishInv
  BY DEF CarefulInv, Calls, Counts
<1>1. CASE SendExt \/ FinalizeQueried \/ CommitWrite \/ WaitReturn
  <2>1. Minor /\ UNCHANGED handles /\ TasksGrow
    BY <1>1, ContinueMinor, SameGrow DEF Minor
  <2>2. Places' /\ NumberInv' /\ RowInv' /\ MessageInv' /\ FinishInv' /\ EntryInv'
    BY <1>0, <2>1, MinorPlaces, MinorCounts, MinorNumbers
  <2>3. CommitInv'
    <3>1. CASE CommitWrite
      BY <1>0, <3>1, CommitWriteCounts
    <3>2. CASE ~CommitWrite
      <4>1. UNCHANGED commitTurnCnt
        BY <1>1, <3>2 DEF SendExt, FinalizeQueried, WaitReturn, areaVars
      <4> QED
        BY <1>0, <2>1, <4>1, MinorCounts
    <3> QED
      BY <3>1, <3>2
  <2>4. BoundInv' /\ C!RoomInv'
    BY <1>0, <2>1, BoundRoomKept
  <2>5. WaitInv'
    <3>1. CASE WaitReturn
      BY <1>0, <3>1, WaitBack
    <3>2. CASE ~WaitReturn
      <4>1. pc # "wait"
        BY <1>1, <3>2 DEF SendExt, FinalizeQueried, CommitWrite
      <4> QED
        BY <1>0, <2>1, <4>1, WaitKept
    <3> QED
      BY <3>1, <3>2
  <2>6. DoneInv'
    <3>1. CASE FinalizeQueried
      BY <1>0, <3>1, QueryDone
    <3>2. CASE SendExt
      <4>1. call' = call /\ call.msg.type = "prepare"
        BY <3>2 DEF SendExt, GoOn, TypeInv, ClientTypes, C!CallOK
      <4> QED
        BY <4>1, DoneNone DEF FinalizeCall
    <3>3. CASE CommitWrite \/ WaitReturn
      <4>1. pc' = "ready"
        BY <3>3 DEF CommitWrite, WaitReturn, Return
      <4> QED
        BY <4>1, DoneNone DEF FinalizeCall
    <3> QED
      BY <1>1, <3>1, <3>2, <3>3
  <2> QED
    BY <2>2, <2>3, <2>4, <2>5, <2>6 DEF CarefulInv, Calls, Counts
<1>2. CASE SendPrepare
  <2>1. PICK g, p, m : PutTask(g, p, m)
    BY <1>2, SendPuts
  <2>2. /\ Put(g, p, m) /\ m.type = "prepare" /\ pc' \in {"ready", "commit"}
    BY <2>1 DEF PutTask, Put
  <2>3. Places' /\ Counts' /\ NumberInv'
    BY <1>0, <2>1, <2>2, PutPlaces, PutCounts, PutTaskNumbers
  <2>4. BoundInv' /\ C!RoomInv' /\ WaitInv'
    BY <1>0, <2>1, BoundRoomPut, WaitPut
  <2>5. DoneInv'
    BY <2>2, DoneNone DEF FinalizeCall
  <2> QED
    BY <2>3, <2>4, <2>5 DEF CarefulInv, Calls
<1>3. CASE SendSync
  <2>1. PICK g, p, m : PutSync(g, p, m)
    BY <1>3, SendPuts
  <2>2. /\ Put(g, p, m) /\ m.type = "sync" /\ pc = "send" /\ pc' = "ready"
        /\ UNCHANGED <<handles, tasks>>
    BY <2>1 DEF PutSync, Put
  <2>3. Places' /\ Counts' /\ NumberInv'
    BY <1>0, <2>1, <2>2, PutPlaces, PutCounts, PutSyncNumbers
  <2>4. TasksGrow
    BY <2>2, Facts DEF TasksGrow
  <2>5. BoundInv' /\ C!RoomInv' /\ WaitInv'
    BY <1>0, <2>2, <2>4, BoundRoomKept, WaitKept
  <2>6. DoneInv'
    BY <2>2, DoneNone DEF FinalizeCall
  <2> QED
    BY <2>3, <2>5, <2>6 DEF CarefulInv, Calls
<1>4. CASE SendFinalize
  <2>1. PICK g, p : FinalizeSent(g, p)
    BY <1>0, <1>4, SendsFinalize
  <2>2. pc = "send" /\ UNCHANGED <<handles, tasks>>
    BY <2>1 DEF FinalizeSent
  <2>3. Places' /\ Counts' /\ NumberInv' /\ DoneInv'
    BY <1>0, <2>1, FinalizeSentKeeps, FinalizeSentNumbers, FinalizeSentDone
  <2>4. TasksGrow
    BY <2>2, Facts DEF TasksGrow
  <2>5. BoundInv' /\ C!RoomInv' /\ WaitInv'
    BY <1>0, <2>2, <2>4, BoundRoomKept, WaitKept
  <2> QED
    BY <2>3, <2>5 DEF CarefulInv, Calls
<1>5. CASE FinalizeDone
  <2>1. Places' /\ Counts' /\ NumberInv'
    BY <1>0, <1>5, FinalizeDoneKeeps, FinalizeDoneNumbers
  <2>2. pc = "finDone" /\ pc' = "ready" /\ UNCHANGED <<handles, tasks>>
    BY <1>5 DEF FinalizeDone, Return
  <2>3. TasksGrow
    BY <2>2, Facts DEF TasksGrow
  <2>4. BoundInv' /\ C!RoomInv' /\ WaitInv' /\ DoneInv'
    BY <1>0, <2>2, <2>3, BoundRoomKept, WaitKept, DoneNone DEF FinalizeCall
  <2> QED
    BY <2>1, <2>4 DEF CarefulInv, Calls
<1> QED
  BY <1>1, <1>2, <1>3, <1>4, <1>5 DEF ContinueCall

\* Every step keeps the invariant, to a careful author.
LEMMA CarefulStep ==
    ASSUME NGroups * MaxHandle <= SeqMod, TypeInv, careful => CarefulInv, [Next]_varsV2
    PROVE  (careful => CarefulInv)'
<1>1. careful' = careful
  BY DEF Next, ClientStep, ServerStep, DeviceStep, Terminated, varsV2
<1> SUFFICES ASSUME careful, CarefulInv PROVE CarefulInv'
  BY <1>1
<1>2. CASE ClientStep
  <2>1. ClientNext /\ CarefulCall /\ OtherSide
    BY <1>2 DEF ClientStep, ClientNext, OtherSide
  <2>2. C!ExtInv'
    <3>1. C!ClientNext /\ C!ExtInv /\ C!TypeInv
      BY <2>1, SameClient, TypesThere DEF CarefulInv, Calls
    <3> QED
      BY <3>1, ConstantsHold, C!ExtClient DEF C!ExtClient, Constants
  <2> QED
    BY <2>1, <2>2, CallKeeps, ContinueKeeps DEF ClientNext
<1>3. CASE ServerStep
  <2>1. ServerNext
    BY <1>3 DEF ServerStep
  <2>2. NoneBehind
    BY NoBehind DEF CarefulInv, Calls
  <2> QED
    BY <2>1, <2>2, ServerKeeps, ServerCalls DEF CarefulInv
<1>4. ASSUME NEW g \in Groups, DeviceStep(g) PROVE CarefulInv'
  BY <1>4, StreamPlaces, StreamCounts, StreamCalls DEF CarefulInv
<1>5. CASE UNCHANGED varsV2
  <2>1. UNCHANGED <<clientVars, areaVars, serverVars, stream, buffered, tasks>>
    BY <1>5 DEF varsV2, vars
  <2> USE <2>1 DEF clientVars, areaVars, serverVars
  <2>2. SameMessages /\ RowsSame /\ TasksSame /\ TasksGrow /\ Len(tasks') = Len(tasks)
    BY SameGrow, MessagesSame DEF RowsSame, TasksSame
  <2>3. \A g \in Groups : /\ Finalizing(g)' = Finalizing(g) /\ Over(g)' = Over(g)
                          /\ Marked(g)' = Marked(g) /\ Idle(g)' = Idle(g)
    BY DEF Finalizing, Over, Marked, Idle
  <2>4. RoundInv' /\ GroupInv'
    BY <2>3 DEF CarefulInv, Places, RoundInv, GroupInv
  <2>5. SlotInv'
    BY <2>2, <2>3 DEF CarefulInv, Places, SlotInv, SlotOK, HandOK, SameMessages
  <2>6. RowInv' /\ MessageInv' /\ FinishInv' /\ EntryInv' /\ CommitInv'
    BY <2>2, <2>3, RowKept, MessageKept, FinishKept, EntryKept, CommitKept DEF CarefulInv, Counts
  <2>7. BoundInv' /\ WaitInv' /\ DoneInv' /\ C!RoomInv'
    BY <2>2, QuietCalls DEF CarefulInv, Calls
  <2>8. NumberInv'
    <3>1. call.group \in Groups
      BY Facts
    <3> QED
      BY <2>2, <2>3, <3>1, NumberKept DEF SameMessages, Waits, CarefulInv, Calls
  <2>9. C!ExtInv'
    BY SameData DEF C!ExtInv, C!ExtAhead, CarefulInv, Calls
  <2> QED
    BY <2>4, <2>5, <2>6, <2>7, <2>8, <2>9 DEF CarefulInv, Places, Counts, Calls
<1> QED
  BY <1>2, <1>3, <1>4, <1>5 DEF Next, Terminated

\* The first state satisfies the invariant.
LEMMA CarefulInit == Init => CarefulInv
<1> SUFFICES ASSUME Init PROVE CarefulInv
  OBVIOUS
<1>0. Constants
  BY ConstantsHold
<1>1. /\ sendMsgs = PerPos(NoMsg) /\ paramExt = PerPos(FALSE) /\ commitTurnCnt = PerPos(0)
      /\ finishedTurnCnt = PerPos(0) /\ pc = "ready" /\ call = NoCall /\ primitiveId = 0
      /\ curMsgPosition = PerGroup(0) /\ handles = PerGroup(<<>>) /\ finalized = PerGroup(FALSE)
      /\ launch = 1 /\ server = "run" /\ serverLaunch = 1 /\ expectSeqNum = 0
      /\ retryCnt = PerGroup(0) /\ msgPos = PerGroup(0) /\ finalizeFlag = PerGroup(FALSE)
      /\ finishFlag = PerGroup(FALSE) /\ stream = PerGroup(<<>>) /\ buffered = PerGroup(<<>>)
      /\ tasks = <<>>
  BY DEF Init, InitArea, InitClient, InitServer, InitStream, Api!Init
<1>2. ASSUME NEW g \in Groups
      PROVE  /\ handles[g] = <<>> /\ ~finalized[g] /\ curMsgPosition[g] = 0 /\ msgPos[g] = 0
             /\ retryCnt[g] = 0 /\ ~finalizeFlag[g] /\ ~finishFlag[g] /\ stream[g] = <<>>
             /\ buffered[g] = <<>> /\ ~Over(g) /\ ~Marked(g) /\ ~Finalizing(g)
             /\ \A p \in Pos : /\ Message(g, p) = NoMsg /\ ~Waits(g, p) /\ sendMsgs[g][p] = NoMsg
                               /\ ~paramExt[g][p]
                               /\ commitTurnCnt[g][p] = 0 /\ finishedTurnCnt[g][p] = 0
  <2>1. retryCnt[g] = 0 /\ ~finalizeFlag[g] /\ ~finishFlag[g]
    BY <1>1 DEF PerGroup
  <2>2. \A p \in Pos : sendMsgs[g][p] = NoMsg
    BY <1>1 DEF PerPos
  <2>3. \A p \in Pos : Message(g, p) = NoMsg /\ ~Waits(g, p)
    BY <2>1, <2>2 DEF Message, Waits, NoMsg
  <2> QED
    BY <1>1, <2>1, <2>2, <2>3 DEF PerGroup, PerPos, Over, Marked, Finalizing
<1>3. RoundInv /\ GroupInv
  <2>1. RoundInv
    BY <1>1, <1>2 DEF RoundInv
  <2>2. \A g \in Groups : Idle(g)
    BY <1>2 DEF Idle
  <2>3. launch = serverLaunch
    BY <1>1
  <2> QED
    BY <1>2, <2>1, <2>2, <2>3 DEF GroupInv
<1>4. SlotInv
  BY <1>2 DEF SlotInv, SlotOK, HandOK, NoMsg
<1>5. \A g \in Groups : Len(handles[g]) = 0 /\ Len(stream[g]) = 0
  BY <1>2
<1>6. Counts
  BY <1>2, <1>5 DEF Counts, RowInv, MessageInv, FinishInv, FinishOK, EntryInv, CommitInv, CommitOK
<1>7. BoundInv /\ WaitInv /\ DoneInv
  BY <1>1, <1>5 DEF BoundInv, WaitInv, DoneInv, FinalizeCall
<1>8. C!RoomInv /\ C!ExtInv
  <2>1. MaxHandle \in Nat
    BY <1>0 DEF Constants
  <2>2. C!RoomInv
    BY <1>5, <2>1, SameData DEF C!RoomInv
  <2>3. C!ExtInv
    BY <1>1, <1>2, SameData DEF C!ExtInv
  <2> QED
    BY <2>2, <2>3
<1>9. Numbering(0, 0, 0) /\ Len(tasks) = 0
  <2>1. Len(tasks) = 0
    BY <1>1
  <2>2. C!TableNumbers(0) /\ C!LaunchedTo(0)
    BY <2>1 DEF C!TableNumbers, C!LaunchedTo
  <2>3. (0 - 0) % SeqMod = 0 /\ (Len(tasks) - 0) % SeqMod = 0 /\ Len(tasks) - 0 <= SeqMod
    BY <1>0, <2>1, Small DEF Constants
  <2> QED
    BY <1>1, <1>2, <2>1, <2>2, <2>3 DEF Numbering
<1>10. NumberInv
  BY <1>9 DEF NumberInv
<1> QED
  BY <1>3, <1>4, <1>6, <1>7, <1>8, <1>10 DEF CarefulInv, Places, Calls

\* The invariant gives the promise: the server has not failed, and when every group is
\* finalized, no message, parameter or count is left for the next launch.
LEMMA CarefulMeans ==
    ASSUME TypeInv, CarefulInv PROVE ServerDoesNotFail /\ CleanForNextLaunch
<1>1. ServerDoesNotFail
  BY DEF CarefulInv, Places, RoundInv, ServerDoesNotFail
<1>2. ASSUME \A g \in Groups : finalized[g]
      PROVE  /\ sendMsgs = PerPos(NoMsg) /\ paramExt = PerPos(FALSE)
             /\ commitTurnCnt = PerPos(0) /\ finishedTurnCnt = PerPos(0)
  <2>1. ASSUME NEW g \in Groups, NEW p \in Pos
        PROVE  /\ sendMsgs[g][p] = NoMsg /\ paramExt[g][p] = FALSE
               /\ commitTurnCnt[g][p] = 0 /\ finishedTurnCnt[g][p] = 0
    <3>1. Marked(g) /\ Idle(g) /\ Over(g)
      BY <1>2 DEF CarefulInv, Places, GroupInv, Marked, Over
    <3>2. sendMsgs[g][p] = NoMsg
      <4>1. Message(g, p) = NoMsg
        BY <3>1 DEF CarefulInv, Places, SlotInv, SlotOK
      <4> QED
        BY <3>1, <4>1 DEF Message, Idle
    <3>3. finishedTurnCnt[g][p] = 0
      BY <1>2 DEF CarefulInv, Counts, FinishInv, FinishOK
    <3>4. commitTurnCnt[g][p] = 0
      <4>1. Len(stream[g]) = 0
        BY <3>1 DEF Idle
      <4> QED
        BY <3>1, <4>1 DEF CarefulInv, Counts, CommitInv, CommitOK
    <3>5. ~paramExt[g][p]
      <4>1. ~C!ExtAhead(g, p)
        BY <1>2, Facts DEF C!ExtAhead, TypeInv, ClientTypes, C!CallOK
      <4>2. ~sendMsgs[g][p].ext
        BY <3>2 DEF NoMsg
      <4> QED
        BY <4>1, <4>2, SameData DEF CarefulInv, Calls, C!ExtInv
    <3>6. paramExt[g][p] \in BOOLEAN
      BY DEF TypeInv, AreaTypes
    <3> QED
      BY <3>2, <3>3, <3>4, <3>5, <3>6
  <2>2. /\ sendMsgs \in [Groups -> [Pos -> Msg]] /\ paramExt \in [Groups -> [Pos -> BOOLEAN]]
        /\ commitTurnCnt \in [Groups -> [Pos -> Nat]] /\ finishedTurnCnt \in [Groups -> [Pos -> Nat]]
    BY DEF TypeInv, AreaTypes
  <2>4. sendMsgs = PerPos(NoMsg)
    <3>1. \A g \in Groups, p \in Pos : sendMsgs[g][p] = NoMsg
      BY <2>1
    <3> QED
      BY <2>2, <3>1 DEF PerPos
  <2>5. paramExt = PerPos(FALSE)
    <3>1. \A g \in Groups, p \in Pos : paramExt[g][p] = FALSE
      BY <2>1
    <3> QED
      BY <2>2, <3>1 DEF PerPos
  <2>6. commitTurnCnt = PerPos(0)
    <3>1. \A g \in Groups, p \in Pos : commitTurnCnt[g][p] = 0
      BY <2>1
    <3> QED
      BY <2>2, <3>1 DEF PerPos
  <2>7. finishedTurnCnt = PerPos(0)
    <3>1. \A g \in Groups, p \in Pos : finishedTurnCnt[g][p] = 0
      BY <2>1
    <3> QED
      BY <2>2, <3>1 DEF PerPos
  <2> QED
    BY <2>4, <2>5, <2>6, <2>7
<1> QED
  BY <1>1, <1>2 DEF CleanForNextLaunch

\* To a careful author, who calls Finalize<true> after Wait for the tasks of other groups,
\* the RPC server V2 never fails, and a launch that has ended leaves areas the next one
\* finds clean: no message, no extended parameter, no commit and no finished turn.
\* For every value of the constants with numbers for all handles of a launch.
THEOREM CarefulClean ==
    ASSUME NGroups * MaxHandle <= SeqMod
    PROVE  Spec => []CarefulLeavesClean
<1>1. Init => TypeInv /\ (careful => CarefulInv)
  BY TypeInit, CarefulInit
<1>2. TypeInv /\ (careful => CarefulInv) /\ [Next]_varsV2 => (TypeInv /\ (careful => CarefulInv))'
  BY TypeStep, CarefulStep
<1>3. TypeInv /\ (careful => CarefulInv) => CarefulLeavesClean
  BY CarefulMeans DEF CarefulLeavesClean
<1> QED
  BY <1>1, <1>2, <1>3, PTL DEF Spec

----------------------------------------------------------------------------
(* The turns: none runs before its Commit, to a careful author or another.  *)

\* The rows of a table: of distinct positions, already used, and of distinct tasks.
RowPlaces ==
    \A g \in Groups : \A i \in 1 .. Len(handles[g]) :
        /\ handles[g][i].pos < curMsgPosition[g]
        /\ \A j \in 1 .. Len(handles[g]) : handles[g][i].pos = handles[g][j].pos => i = j
        /\ \A g2 \in Groups : \A j \in 1 .. Len(handles[g2]) :
              handles[g][i].task = handles[g2][j].task => g = g2 /\ i = j

\* What the table of the client, the area and the history say of the commits of a row.
RowCommit(g, r, t) ==
    /\ commitTurnCnt[g][r.pos] <= t.committed /\ t.committed <= r.commit
    /\ r.commit <= r.repeat /\ r.repeat = t.repeat
RowCommits ==
    /\ \A g \in Groups : \A i \in 1 .. Len(handles[g]) :
          RowCommit(g, handles[g][i], tasks[handles[g][i].task])
    /\ \A g \in Groups, p \in Pos : p >= curMsgPosition[g] => commitTurnCnt[g][p] = 0

\* A message read again is held by the server, and nobody writes its slot.
HandInv ==
    /\ \A g \in Groups :
        /\ retryCnt[g] = 1 => /\ msgPos[g] < curMsgPosition[g] /\ sendMsgs[g][msgPos[g]] = NoMsg
                              /\ rcvMsg[g].type \in {"prepare", "sync"}
        /\ finishFlag[g] => finalizeFlag[g]
        /\ finalizeFlag[g] => retryCnt[g] = 0
    /\ \A g \in Groups, p \in Pos :
          sendMsgs[g][p].type \in {"prepare", "sync"} => p < curMsgPosition[g]
    /\ server = "exit" => \A g \in Groups : finishFlag[g]

\* A row of group g is of position p and task t.
HasRow(g, p, t) ==
    \E i \in 1 .. Len(handles[g]) : handles[g][i].pos = p /\ handles[g][i].task = t

\* A message that waits is of a row, and its task is not launched.
Unlaunched ==
    \A g \in Groups, p \in Pos : Waits(g, p) =>
        /\ HasRow(g, p, Message(g, p).task) /\ ~tasks[Message(g, p).task].launched

\* The waits for a turn, and the kernels, of a stream are those of launched rows.
OfTurn(e) == e.type = "kernel" \/ (e.type = "waitCommit" /\ ~e.last)
TurnRow(g, e) == e.group = g /\ HasRow(g, e.pos, e.task) /\ tasks[e.task].launched
TurnRows == \A g \in Groups : \A j \in 1 .. Len(stream[g]) :
                OfTurn(stream[g][j]) => TurnRow(g, stream[g][j])

\* A kernel is behind the wait for its turn, and behind the earlier turns of its task.
WaitOf(w, e) ==
    /\ w.type = "waitCommit" /\ ~w.last
    /\ w.pos = e.pos /\ w.task = e.task /\ w.val = e.val
Kernel(s, j) ==
    /\ tasks[s[j].task].executed < s[j].val
    /\ s[j].val <= tasks[s[j].task].committed \/ \E i \in 1 .. j - 1 : WaitOf(s[i], s[j])
    /\ \A i \in 1 .. j - 1 : s[i].type = "kernel" /\ s[i].task = s[j].task => s[i].val < s[j].val
Kernels == \A g \in Groups : \A j \in 1 .. Len(stream[g]) :
                stream[g][j].type = "kernel" => Kernel(stream[g], j)

\* A task not yet launched has not run.
NotYetRun == \A t \in 1 .. Len(tasks) : ~tasks[t].launched => tasks[t].executed = 0

TurnsInv ==
    /\ RowPlaces /\ RowCommits /\ HandInv /\ Unlaunched /\ TurnRows /\ Kernels /\ NotYetRun
    /\ ExecutedIsCommitted

RowsStay ==
    /\ RowsSame
    /\ \A g \in Groups : \A i \in 1 .. Len(handles[g]) :
          /\ handles'[g][i].commit \in Nat /\ handles[g][i].commit <= handles'[g][i].commit
          /\ handles[g][i].commit <= handles[g][i].repeat
                => handles'[g][i].commit <= handles[g][i].repeat

TurnSame(t) == /\ tasks'[t].launched = tasks[t].launched /\ tasks'[t].repeat = tasks[t].repeat
               /\ tasks'[t].committed = tasks[t].committed
               /\ tasks'[t].executed = tasks[t].executed
TurnsSame == Len(tasks') = Len(tasks) /\ \A t \in 1 .. Len(tasks) : TurnSame(t)

\* Tasks are launched or committed, and new ones come; rows stay.
TurnsGo ==
    /\ Len(tasks) <= Len(tasks')
    /\ \A t \in 1 .. Len(tasks) : /\ tasks[t].launched => tasks'[t].launched
                                  /\ tasks'[t].executed = tasks[t].executed
                                  /\ tasks[t].committed <= tasks'[t].committed
RowsRemain == \A g \in Groups : \A p, t : HasRow(g, p, t) => HasRow(g, p, t)'

\* What the types say of the turns of a task.
LEMMA TurnTypes ==
    ASSUME TypeInv
    PROVE  /\ Len(tasks) \in Nat
           /\ \A t \in 1 .. Len(tasks) :
                /\ tasks[t].executed \in Nat /\ tasks[t].committed \in Nat /\ tasks[t].repeat \in Nat
                /\ tasks[t].launched \in BOOLEAN
           /\ \A g \in Groups, p \in Pos : commitTurnCnt[g][p] \in Nat
           /\ \A g \in Groups : \A i \in 1 .. Len(handles[g]) : handles[g][i].commit \in Nat
<1>1. \A t \in 1 .. Len(tasks) :
        /\ tasks[t].executed \in Nat /\ tasks[t].committed \in Nat /\ tasks[t].repeat \in Repeats
        /\ tasks[t].launched \in BOOLEAN
  BY Facts DEF Task
<1>2. \A r \in Repeats : r \in Nat
  BY ConstantsHold DEF Constants
<1>3. \A g \in Groups : \A i \in 1 .. Len(handles[g]) : handles[g][i].commit \in Nat
  BY Rows DEF Handle
<1> QED
  BY <1>1, <1>2, <1>3, Facts DEF TypeInv, AreaTypes

\* Rows that stay remain.
LEMMA RowsStayRemain == ASSUME TypeInv, RowsSame PROVE RowsRemain
<1> SUFFICES ASSUME NEW g \in Groups, NEW p, NEW t, HasRow(g, p, t) PROVE HasRow(g, p, t)'
  BY DEF RowsRemain
<1>1. PICK i \in 1 .. Len(handles[g]) : handles[g][i].pos = p /\ handles[g][i].task = t
  BY DEF HasRow
<1>2. /\ i \in 1 .. Len(handles'[g]) /\ handles'[g][i].pos = p /\ handles'[g][i].task = t
  BY <1>1 DEF RowsSame
<1> QED
  BY <1>2 DEF HasRow

\* Rows and what is known of their commits stay when positions are only used up.
LEMMA RowsStill ==
    ASSUME TypeInv, RowPlaces, RowCommits, RowsStay, TurnsSame, UNCHANGED commitTurnCnt,
           \A g \in Groups : curMsgPosition'[g] \in Nat /\ curMsgPosition[g] <= curMsgPosition'[g]
    PROVE  RowPlaces' /\ RowCommits'
<1>1. \A g \in Groups : /\ Len(handles'[g]) = Len(handles[g]) /\ Len(handles[g]) \in Nat
                        /\ curMsgPosition[g] \in Nat
                        /\ \A i \in 1 .. Len(handles[g]) : handles[g][i].pos \in Nat
  BY Rows, Facts DEF RowsStay, RowsSame
<1>2. RowPlaces'
  <2>0. \A g \in Groups : \A i \in 1 .. Len(handles[g]) :
           handles'[g][i].pos = handles[g][i].pos /\ handles'[g][i].task = handles[g][i].task
    BY DEF RowsStay, RowsSame
  <2>1. ASSUME NEW g \in Groups, NEW i \in 1 .. Len(handles[g])
        PROVE  handles'[g][i].pos < curMsgPosition'[g]
    <3>1. handles[g][i].pos < curMsgPosition[g] /\ curMsgPosition[g] <= curMsgPosition'[g]
      BY DEF RowPlaces
    <3>2. handles[g][i].pos \in Nat /\ curMsgPosition[g] \in Nat /\ curMsgPosition'[g] \in Nat
      BY <1>1
    <3>3. handles[g][i].pos < curMsgPosition'[g]
      BY <3>1, <3>2
    <3> QED
      BY <2>0, <3>3
  <2>2. ASSUME NEW g \in Groups, NEW i \in 1 .. Len(handles[g]), NEW j \in 1 .. Len(handles[g]),
               handles'[g][i].pos = handles'[g][j].pos
        PROVE  i = j
    <3>1. handles[g][i].pos = handles[g][j].pos
      BY <2>0, <2>2
    <3> QED
      BY <3>1 DEF RowPlaces
  <2>3. ASSUME NEW g \in Groups, NEW i \in 1 .. Len(handles[g]),
               NEW g2 \in Groups, NEW j \in 1 .. Len(handles[g2]),
               handles'[g][i].task = handles'[g2][j].task
        PROVE  g = g2 /\ i = j
    <3>1. handles[g][i].task = handles[g2][j].task
      BY <2>0, <2>3
    <3> QED
      BY <3>1 DEF RowPlaces
  <2> QED
    BY <1>1, <2>1, <2>2, <2>3 DEF RowPlaces
<1>3. ASSUME NEW g \in Groups, NEW i \in 1 .. Len(handles'[g])
      PROVE  RowCommit(g, handles[g][i], tasks[handles[g][i].task])'
  <2>1. /\ i \in 1 .. Len(handles[g]) /\ handles[g][i].task \in 1 .. Len(tasks)
        /\ handles[g][i].pos \in Pos
    BY <1>1, Rows
  <2>2. RowCommit(g, handles[g][i], tasks[handles[g][i].task])
    BY <2>1 DEF RowCommits
  <2>3. /\ handles'[g][i].pos = handles[g][i].pos /\ handles'[g][i].repeat = handles[g][i].repeat
        /\ handles'[g][i].task = handles[g][i].task
        /\ handles[g][i].commit <= handles'[g][i].commit
        /\ handles[g][i].commit <= handles[g][i].repeat
              => handles'[g][i].commit <= handles[g][i].repeat
    BY <2>1 DEF RowsStay, RowsSame
  <2>4. TurnSame(handles[g][i].task)
    BY <2>1 DEF TurnsSame
  <2>5. /\ tasks[handles[g][i].task].committed \in Nat /\ handles[g][i].commit \in Nat
        /\ handles'[g][i].commit \in Nat /\ handles[g][i].repeat \in Nat
    BY <2>1, TurnTypes, Rows DEF RowsStay
  <2> QED
    BY <2>2, <2>3, <2>4, <2>5 DEF RowCommit, TurnSame
<1>4. ASSUME NEW g \in Groups, NEW p \in Pos, p >= curMsgPosition'[g] PROVE commitTurnCnt'[g][p] = 0
  <2>1. p \in Nat /\ curMsgPosition[g] \in Nat /\ curMsgPosition'[g] \in Nat
    BY Facts
  <2>2. p >= curMsgPosition[g]
    BY <1>4, <2>1
  <2> QED
    BY <2>2 DEF RowCommits
<1> QED
  BY <1>2, <1>3, <1>4 DEF RowCommits

\* A row is of a task of the history.
LEMMA RowTask ==
    ASSUME TypeInv, NEW g \in Groups, NEW p, NEW t, HasRow(g, p, t)
    PROVE  t \in 1 .. Len(tasks) /\ p \in Pos
BY Rows DEF HasRow

\* Streams keep what is known of their turns when rows and tasks go on.
LEMMA TurnsStill ==
    ASSUME TypeInv, TypeInv', TurnRows, Kernels, TurnsGo, RowsRemain, UNCHANGED stream
    PROVE  TurnRows' /\ Kernels'
<1>1. ASSUME NEW g \in Groups, NEW j \in 1 .. Len(stream[g]), OfTurn(stream[g][j])
      PROVE  TurnRow(g, stream[g][j])' /\ stream[g][j].task \in 1 .. Len(tasks)
  <2>1. TurnRow(g, stream[g][j])
    BY <1>1 DEF TurnRows
  <2>2. stream[g][j].task \in 1 .. Len(tasks)
    BY <2>1, RowTask DEF TurnRow
  <2> QED
    BY <2>1, <2>2 DEF TurnRow, RowsRemain, TurnsGo
<1>2. TurnRows'
  BY <1>1 DEF TurnRows, OfTurn
<1>3. ASSUME NEW g \in Groups, NEW j \in 1 .. Len(stream[g]), stream[g][j].type = "kernel"
      PROVE  Kernel(stream[g], j)'
  <2>1. Kernel(stream[g], j)
    BY <1>3 DEF Kernels
  <2>2. stream[g][j].task \in 1 .. Len(tasks)
    BY <1>1, <1>3 DEF OfTurn
  <2>3. stream[g][j].val \in Nat
    BY Entries DEF Sqe
  <2>4. /\ tasks'[stream[g][j].task].executed = tasks[stream[g][j].task].executed
        /\ tasks[stream[g][j].task].committed <= tasks'[stream[g][j].task].committed
        /\ tasks[stream[g][j].task].committed \in Nat
    BY <2>2, TurnTypes DEF TurnsGo
  <2>5. stream[g][j].val <= tasks[stream[g][j].task].committed
            => stream[g][j].val <= tasks'[stream[g][j].task].committed
    <3>1. \A a, b, c \in Nat : a <= b /\ b <= c => a <= c
      OBVIOUS
    <3>2. tasks'[stream[g][j].task].committed \in Nat
      <4>1. tasks' \in Seq(Task) /\ stream[g][j].task \in 1 .. Len(tasks')
        <5>1. tasks' \in Seq(Task)
          BY DEF TypeInv
        <5>2. Len(tasks') \in Nat /\ Len(tasks) \in Nat
          BY <5>1, TurnTypes
        <5> QED
          BY <2>2, <5>1, <5>2 DEF TurnsGo
      <4>2. tasks'[stream[g][j].task] \in Task
        BY <4>1
      <4> QED
        BY <4>2 DEF Task
    <3> QED
      BY <2>3, <2>4, <3>1, <3>2
  <2>6. stream' = stream
    OBVIOUS
  <2> QED
    BY <2>1, <2>4, <2>5, <2>6 DEF Kernel, WaitOf
<1>4. Kernels'
  BY <1>3 DEF Kernels
<1> QED
  BY <1>2, <1>4

\* Messages that wait stay those of rows, and unlaunched.
LEMMA UnlaunchedStill ==
    ASSUME TypeInv, Unlaunched, RowsRemain,
           \A t \in 1 .. Len(tasks) : tasks'[t].launched = tasks[t].launched,
           \A g \in Groups, p \in Pos : Waits(g, p)' => Waits(g, p) /\ Message(g, p)' = Message(g, p)
    PROVE  Unlaunched'
<1> SUFFICES ASSUME NEW g \in Groups, NEW p \in Pos, Waits(g, p)'
             PROVE  (HasRow(g, p, Message(g, p).task) /\ ~tasks[Message(g, p).task].launched)'
  BY DEF Unlaunched
<1>1. Waits(g, p) /\ Message(g, p)' = Message(g, p)
  OBVIOUS
<1>2. /\ HasRow(g, p, Message(g, p).task) /\ ~tasks[Message(g, p).task].launched
      /\ Message(g, p).task \in 1 .. Len(tasks)
  BY <1>1, MessageTask DEF Unlaunched
<1>3. ASSUME NEW t, t = Message(g, p).task PROVE HasRow(g, p, t)' /\ ~tasks'[t].launched
  BY <1>2, <1>3 DEF RowsRemain
<1>4. (Message(g, p).task)' = Message(g, p).task
  BY <1>1
<1> QED
  BY <1>3, <1>4

\* A client's step that puts no message of a task, and commits nothing.
Quiet ==
    /\ OtherSide /\ RowsStay /\ TurnsSame /\ UNCHANGED commitTurnCnt
    /\ \A g \in Groups : curMsgPosition'[g] \in Nat /\ curMsgPosition[g] <= curMsgPosition'[g]
    /\ \A g \in Groups, p \in Pos :
          \/ sendMsgs'[g][p] = sendMsgs[g][p]
          \/ sendMsgs'[g][p].type = "finalize" /\ p = curMsgPosition[g]

\* It keeps the invariant.
LEMMA QuietTurns == ASSUME TypeInv, TypeInv', TurnsInv, Quiet PROVE TurnsInv'
<1>1. RowPlaces' /\ RowCommits'
  BY RowsStill DEF Quiet, TurnsInv
<1>2. /\ UNCHANGED <<server, retryCnt, rcvMsg, msgPos, finishFlag, finalizeFlag, stream>>
      /\ RowsSame /\ RowsRemain /\ TurnsGo
  <2>1. \A t \in 1 .. Len(tasks) : tasks[t].committed \in Nat
    BY TurnTypes
  <2> QED
    BY <2>1, Facts, RowsStayRemain DEF Quiet, OtherSide, serverVars, RowsStay, TurnsGo, TurnsSame, TurnSame
<1>3. \A g \in Groups : /\ curMsgPosition[g] \in Nat /\ curMsgPosition'[g] \in Nat
                        /\ curMsgPosition[g] <= curMsgPosition'[g]
                        /\ msgPos[g] \in Pos /\ msgPos[g] \in Nat
  BY Facts DEF Quiet
<1>4. HandInv'
  <2>1. ASSUME NEW g \in Groups, retryCnt'[g] = 1
        PROVE  /\ msgPos'[g] < curMsgPosition'[g] /\ sendMsgs'[g][msgPos'[g]] = NoMsg
               /\ rcvMsg'[g].type \in {"prepare", "sync"}
    <3>1. /\ msgPos[g] < curMsgPosition[g] /\ sendMsgs[g][msgPos[g]] = NoMsg
          /\ rcvMsg[g].type \in {"prepare", "sync"}
      BY <1>2, <2>1 DEF TurnsInv, HandInv
    <3>2. sendMsgs'[g][msgPos[g]] = sendMsgs[g][msgPos[g]]
      BY <1>3, <3>1 DEF Quiet
    <3> QED
      BY <1>2, <1>3, <3>1, <3>2
  <2>2. ASSUME NEW g \in Groups, NEW p \in Pos, sendMsgs'[g][p].type \in {"prepare", "sync"}
        PROVE  p < curMsgPosition'[g]
    <3>1. sendMsgs'[g][p] = sendMsgs[g][p] /\ p \in Nat
      BY <2>2, Facts DEF Quiet
    <3>2. p < curMsgPosition[g]
      BY <2>2, <3>1 DEF TurnsInv, HandInv
    <3> QED
      BY <1>3, <3>1, <3>2
  <2> QED
    BY <1>2, <2>1, <2>2 DEF TurnsInv, HandInv
<1>5. Unlaunched'
  <2>1. ASSUME NEW g \in Groups, NEW p \in Pos, Waits(g, p)'
        PROVE  Waits(g, p) /\ Message(g, p)' = Message(g, p)
    <3>1. CASE retryCnt[g] = 1 /\ p = msgPos[g]
      BY <1>2, <2>1, <3>1 DEF Waits, Message
    <3>2. CASE ~(retryCnt[g] = 1 /\ p = msgPos[g])
      <4>1. Message(g, p)' = sendMsgs'[g][p] /\ Message(g, p) = sendMsgs[g][p]
        BY <1>2, <3>2 DEF Message
      <4>2. sendMsgs'[g][p].type = "prepare"
        BY <2>1, <4>1 DEF Waits
      <4> QED
        BY <4>1, <4>2 DEF Quiet, Waits
    <3> QED
      BY <3>1, <3>2
  <2>2. \A t \in 1 .. Len(tasks) : tasks'[t].launched = tasks[t].launched
    BY DEF Quiet, TurnsSame, TurnSame
  <2> QED
    BY <1>2, <2>1, <2>2, UnlaunchedStill DEF TurnsInv
<1>6. TurnRows' /\ Kernels'
  BY <1>2, TurnsStill DEF TurnsInv
<1>7. NotYetRun' /\ ExecutedIsCommitted'
  <2>1. Len(tasks') = Len(tasks) /\ \A t \in 1 .. Len(tasks) : TurnSame(t)
    BY DEF Quiet, TurnsSame
  <2>2. DOMAIN tasks = 1 .. Len(tasks) /\ DOMAIN tasks' = 1 .. Len(tasks')
    BY DEF TypeInv
  <2>3. NotYetRun'
    BY <2>1 DEF TurnsInv, NotYetRun, TurnSame
  <2>4. ExecutedIsCommitted'
    BY <2>1, <2>2 DEF TurnsInv, ExecutedIsCommitted, TurnSame
  <2> QED
    BY <2>3, <2>4
<1> QED
  BY <1>1, <1>4, <1>5, <1>6, <1>7 DEF TurnsInv

----------------------------------------------------------------------------
(* The turns, and the client's steps.                                       *)

\* Rows and tasks that do not change stay.
LEMMA SameStay ==
    ASSUME TypeInv
    PROVE  /\ UNCHANGED handles => RowsStay
           /\ UNCHANGED tasks => TurnsSame
           /\ UNCHANGED curMsgPosition =>
                \A g \in Groups : curMsgPosition'[g] \in Nat /\ curMsgPosition[g] <= curMsgPosition'[g]
<1>1. ASSUME UNCHANGED handles PROVE RowsStay
  <2>1. \A g \in Groups : \A i \in 1 .. Len(handles[g]) : handles[g][i].commit \in Nat
    BY TurnTypes
  <2> QED
    BY <1>1, <2>1 DEF RowsStay, RowsSame
<1>2. UNCHANGED tasks => TurnsSame
  BY DEF TurnsSame, TurnSame
<1> QED
  BY <1>1, <1>2, Facts

\* A row whose count of commits grows within its repeats stays.
LEMMA RowMadeStays ==
    ASSUME TypeInv, NEW g \in Groups, NEW k \in 1 .. Len(handles[g]), NEW hd, RowMade(g, k, hd),
           hd.commit \in Nat, handles[g][k].commit <= hd.commit,
           hd.commit <= handles[g][k].repeat \/ hd.commit = handles[g][k].commit
    PROVE  RowsStay
<1>1. ASSUME NEW g2 \in Groups, NEW i \in 1 .. Len(handles[g2])
      PROVE  /\ handles'[g2][i].commit \in Nat /\ handles[g2][i].commit <= handles'[g2][i].commit
             /\ handles[g2][i].commit <= handles[g2][i].repeat
                   => handles'[g2][i].commit <= handles[g2][i].repeat
  <2>1. CASE g2 = g /\ i = k
    BY <2>1 DEF RowMade
  <2>2. CASE ~(g2 = g /\ i = k)
    <3>1. handles'[g2][i] = handles[g2][i]
      BY <2>2 DEF RowMade
    <3>2. handles[g2][i].commit \in Nat
      BY TurnTypes
    <3> QED
      BY <3>1, <3>2
  <2> QED
    BY <2>1, <2>2
<1> QED
  BY <1>1 DEF RowMade, RowsStay

\* Commit counts one more turn of its row, and no more than it repeats; Wait counts none.
LEMMA RowCallStays ==
    ASSUME TypeInv, NEW g \in Groups, NEW h \in Handles, Commit(g, h) \/ Wait(g, h)
    PROVE  RowsStay
<1> SUFFICES ASSUME NEW k, k = h + 1, NEW old, old = handles[g][k],
                    NEW hd1, hd1 = [old EXCEPT !.commit = @ + 1],
                    NEW hd2, hd2 = [old EXCEPT !.wait = @ + 1]
             PROVE  RowsStay
  OBVIOUS
<1>0. handles[g] \in Seq(Handle) /\ h \in Nat /\ Len(handles[g]) \in Nat
  BY ConstantsHold, SameData DEF TypeInv, ClientTypes, C!ClientTypeOK, Handles, Constants
<1>1. k \in 1 .. Len(handles[g]) /\ old \in Handle
  <2>1. h < Len(handles[g])
    BY DEF Commit, Wait
  <2>2. k \in 1 .. Len(handles[g])
    BY <1>0, <2>1
  <2> QED
    BY <1>0, <2>2
<1>2. /\ old.wait + 1 \in Nat /\ old.commit + 1 \in Nat /\ old.commit \in Nat /\ old.repeat \in Nat
      /\ old.commit <= old.commit + 1
  BY <1>1 DEF Handle
<1>4. CASE Wait(g, h)
  <2>1. handles' = [handles EXCEPT ![g][k] = hd2]
    BY <1>4 DEF Wait
  <2>2. /\ hd2 \in Handle /\ hd2.pos = old.pos /\ hd2.task = old.task
        /\ hd2.repeat = old.repeat /\ hd2.commit = old.commit
    BY <1>1, <1>2 DEF Handle
  <2>3. RowMade(g, k, hd2)
    BY <1>1, <2>1, <2>2, RowPut
  <2>4. hd2.commit \in Nat /\ hd2.commit = handles[g][k].commit /\ handles[g][k].commit <= hd2.commit
    BY <1>2, <2>2
  <2> QED
    BY <1>1, <2>3, <2>4, RowMadeStays
<1>5. CASE Commit(g, h)
  <2>1. handles' = [handles EXCEPT ![g][k] = hd1] /\ old.commit < old.repeat
    BY <1>5 DEF Commit
  <2>2. /\ hd1 \in Handle /\ hd1.pos = old.pos /\ hd1.task = old.task
        /\ hd1.repeat = old.repeat /\ hd1.commit = old.commit + 1
    BY <1>1, <1>2 DEF Handle
  <2>3. RowMade(g, k, hd1)
    BY <1>1, <2>1, <2>2, RowPut
  <2>4. old.commit + 1 <= old.repeat
    BY <1>2, <2>1
  <2> QED
    BY <1>1, <1>2, <2>2, <2>3, <2>4, RowMadeStays
<1> QED
  BY <1>4, <1>5

\* A call that begins commits nothing yet.
LEMMA CallQuiet ==
    ASSUME TypeInv, OtherSide, CallApi, ~NextLaunch PROVE Quiet
<1>1. CASE \E g \in Groups :
              \/ \E r \in Repeats, ext \in Exts, commit \in BOOLEAN : Prepare(g, r, ext, commit)
              \/ PrepareRefused(g)
              \/ \E g2 \in Groups, h \in Handles : InterHcclGroupSync(g, g2, h)
              \/ \E sync \in SyncModes : Finalize(g, sync)
  <2>1. Minor /\ UNCHANGED <<handles, tasks, commitTurnCnt>>
    BY <1>1, CallMinor
  <2> QED
    BY <2>1, SameStay DEF Minor, Quiet
<1>2. ASSUME NEW g \in Groups, NEW h \in Handles, Commit(g, h) \/ Wait(g, h) PROVE Quiet
  <2>1. Minor /\ UNCHANGED <<tasks, commitTurnCnt>>
    BY <1>2, RowMinor
  <2>2. RowsStay
    BY <1>2, RowCallStays
  <2> QED
    BY <2>1, <2>2, SameStay DEF Minor, Quiet
<1> QED
  BY <1>1, <1>2 DEF CallApi

\* Wait notes a turn observed, and none committed or executed.
LEMMA ObservedSame == ASSUME TypeInv, WaitReturn PROVE TurnsSame
<1> DEFINE k == handles[call.group][call.handle + 1].task
           x == handles[call.group][call.handle + 1].wait
<1>1. pc = "wait" /\ tasks' = [tasks EXCEPT ![k] = [@ EXCEPT !.observed = x]]
  BY DEF WaitReturn
<1>2. k \in 1 .. Len(tasks)
  BY <1>1, TypesThere, ConstantsHold, SameData, C!CallTask DEF C!CallTask, Constants
<1>3. tasks[k] \in Task /\ tasks \in Seq(Task)
  BY <1>2, Facts DEF TypeInv
<1> HIDE DEF k, x
<1>4. PICK e : /\ tasks' = [tasks EXCEPT ![k] = e]
               /\ e.launched = tasks[k].launched /\ e.repeat = tasks[k].repeat
               /\ e.committed = tasks[k].committed /\ e.executed = tasks[k].executed
  <2>1. PICK e : e = [tasks[k] EXCEPT !.observed = x]
    OBVIOUS
  <2>2. /\ e.launched = tasks[k].launched /\ e.repeat = tasks[k].repeat
        /\ e.committed = tasks[k].committed /\ e.executed = tasks[k].executed
    BY <1>3, <2>1 DEF Task
  <2>3. tasks' = [tasks EXCEPT ![k] = e]
    BY <1>1, <2>1
  <2> QED
    BY <2>2, <2>3
<1>5. /\ Len(tasks') = Len(tasks)
      /\ \A t \in 1 .. Len(tasks) : tasks'[t] = IF t = k THEN e ELSE tasks[t]
  BY <1>2, <1>3, <1>4
<1> QED
  BY <1>4, <1>5 DEF TurnsSame, TurnSame

\* A call that goes on without a task's message, and without a Commit, is quiet.
LEMMA ContinueQuiet ==
    ASSUME TypeInv, OtherSide,
           SendExt \/ FinalizeQueried \/ WaitReturn \/ SendFinalize \/ FinalizeDone
    PROVE  Quiet
<1>0. call.group \in Groups /\ \A g \in Groups : curMsgPosition[g] \in Nat
  BY Facts
<1>1. CASE SendExt \/ FinalizeQueried
  <2>1. UNCHANGED <<handles, tasks, commitTurnCnt, sendMsgs, curMsgPosition>>
    BY <1>1 DEF SendExt, FinalizeQueried, areaVars
  <2> QED
    BY <2>1, SameStay DEF Quiet
<1>2. CASE WaitReturn
  <2>1. UNCHANGED <<handles, commitTurnCnt, sendMsgs, curMsgPosition>>
    BY <1>2 DEF WaitReturn, areaVars
  <2> QED
    BY <1>2, <2>1, SameStay, ObservedSame DEF Quiet
<1>3. \A g \in Groups :
        curMsgPosition' = [curMsgPosition EXCEPT ![g] = @ + 1] \/ UNCHANGED curMsgPosition
          => \A g2 \in Groups :
                curMsgPosition'[g2] \in Nat /\ curMsgPosition[g2] <= curMsgPosition'[g2]
  <2>1. curMsgPosition \in [Groups -> 0 .. MsgCnt]
    BY SameData DEF TypeInv, ClientTypes, C!ClientTypeOK
  <2> QED
    BY <1>0, <2>1
<1>4. CASE SendFinalize
  <2>1. /\ UNCHANGED <<handles, tasks, commitTurnCnt>> /\ call.msg.type = "finalize"
        /\ sendMsgs' = [sendMsgs EXCEPT ![call.group][curMsgPosition[call.group]] = call.msg]
        /\ curMsgPosition' = [curMsgPosition EXCEPT ![call.group] = @ + 1]
           \/ UNCHANGED curMsgPosition
    BY <1>4 DEF SendFinalize, PutMsg, AdvancePosition
  <2>2. \A g \in Groups, p \in Pos :
          \/ sendMsgs'[g][p] = sendMsgs[g][p]
          \/ sendMsgs'[g][p].type = "finalize" /\ p = curMsgPosition[g]
    BY <2>1 DEF TypeInv, AreaTypes
  <2> QED
    BY <1>0, <1>3, <2>1, <2>2, SameStay DEF Quiet
<1>5. CASE FinalizeDone
  <2>1. /\ UNCHANGED <<handles, tasks, commitTurnCnt, sendMsgs>>
        /\ curMsgPosition' = [curMsgPosition EXCEPT ![call.group] = @ + 1]
    BY <1>5 DEF FinalizeDone, AdvancePosition
  <2> QED
    BY <1>0, <1>3, <2>1, SameStay DEF Quiet
<1> QED
  BY <1>1, <1>2, <1>4, <1>5

\* What the server has read stays when it, the slots and the positions do.
LEMMA HandKept ==
    ASSUME HandInv, UNCHANGED <<server, retryCnt, rcvMsg, msgPos, finishFlag, finalizeFlag, sendMsgs,
                                curMsgPosition>>
    PROVE  HandInv'
BY DEF HandInv

\* The places of the rows stay with the rows and the positions.
LEMMA PlacesKept == ASSUME RowPlaces, UNCHANGED <<handles, curMsgPosition>> PROVE RowPlaces'
BY DEF RowPlaces

\* A turn runs only when it is committed: the counts of a task in this order.
LEMMA CountOrder ==
    ASSUME NEW x \in Nat, NEW c1 \in Nat, NEW c2 \in Nat, NEW r \in Nat, x <= c1, c1 <= c2, c2 <= r
    PROVE  x <= c2
OBVIOUS

\* SetCommitTurnCntToGm writes the count of one row: no other row has its position.
LEMMA CommitWriteTurns ==
    ASSUME TypeInv, TypeInv', TurnsInv, OtherSide, CommitWrite PROVE TurnsInv'
<1> SUFFICES ASSUME NEW g, g = call.group, NEW k, k = call.handle + 1,
                    NEW hd, hd = handles[g][k], NEW t, t = hd.task, NEW c, c = hd.commit
             PROVE  TurnsInv'
  OBVIOUS
<1>1. /\ pc = "commit" /\ UNCHANGED <<sendMsgs, curMsgPosition, handles>>
      /\ commitTurnCnt' = [commitTurnCnt EXCEPT ![g][hd.pos] = c]
      /\ tasks' = [tasks EXCEPT ![t] = [@ EXCEPT !.committed = c]]
  BY DEF CommitWrite
<1>2. g \in Groups /\ k \in 1 .. Len(handles[g])
  BY <1>1, TypesThere, ConstantsHold, SameData, C!CallTask DEF C!CallTask, Constants
<1>3. /\ t \in 1 .. Len(tasks) /\ tasks[t] \in Task /\ hd.pos \in Pos /\ hd.pos \in Nat
      /\ c \in Nat /\ hd.repeat \in Nat
      /\ tasks[t].committed \in Nat /\ tasks[t].executed \in Nat /\ tasks[t].repeat \in Nat
      /\ commitTurnCnt[g][hd.pos] \in Nat
  <2>1. hd.task \in 1 .. Len(tasks) /\ hd.pos \in Pos /\ hd.repeat \in Nat /\ hd.commit \in Nat
    BY <1>2, Rows, TurnTypes
  <2> QED
    BY <1>2, <2>1, Facts, TurnTypes
<1>4. RowCommit(g, hd, tasks[t])
  BY <1>2 DEF TurnsInv, RowCommits
<1>5. PICK e : /\ tasks' = [tasks EXCEPT ![t] = e]
               /\ e.committed = c /\ e.launched = tasks[t].launched
               /\ e.repeat = tasks[t].repeat /\ e.executed = tasks[t].executed
  <2>1. PICK e : e = [tasks[t] EXCEPT !.committed = c]
    OBVIOUS
  <2>2. /\ e.committed = c /\ e.launched = tasks[t].launched
        /\ e.repeat = tasks[t].repeat /\ e.executed = tasks[t].executed
    BY <1>3, <2>1 DEF Task
  <2>3. tasks' = [tasks EXCEPT ![t] = e]
    BY <1>1, <2>1
  <2> QED
    BY <2>2, <2>3
<1>6. /\ Len(tasks') = Len(tasks) /\ Len(tasks) \in Nat
      /\ \A u \in 1 .. Len(tasks) : tasks'[u] = IF u = t THEN e ELSE tasks[u]
  <2>1. tasks \in Seq(Task)
    BY DEF TypeInv
  <2>2. t \in 1 .. Len(tasks)
    BY <1>3
  <2>3. tasks' = [tasks EXCEPT ![t] = e]
    BY <1>5
  <2> QED
    BY <2>1, <2>2, <2>3
<1>7. \A g2 \in Groups, q \in Pos :
         commitTurnCnt'[g2][q] = IF g2 = g /\ q = hd.pos THEN c ELSE commitTurnCnt[g2][q]
  BY <1>1 DEF TypeInv, AreaTypes
<1>8. UNCHANGED <<server, retryCnt, rcvMsg, msgPos, finishFlag, finalizeFlag, stream>>
  BY DEF OtherSide, serverVars
<1>9. RowPlaces' /\ HandInv' /\ RowsRemain
  <2>1. RowsRemain
    BY <1>1 DEF RowsRemain, HasRow
  <2>2. HandInv'
    BY <1>1, <1>8, HandKept DEF TurnsInv
  <2>3. RowPlaces'
    BY <1>1, PlacesKept DEF TurnsInv
  <2> QED
    BY <2>1, <2>2, <2>3
<1>10. RowCommits'
  <2>1. ASSUME NEW g2 \in Groups, NEW i \in 1 .. Len(handles[g2])
        PROVE  RowCommit(g2, handles[g2][i], tasks[handles[g2][i].task])'
    <3>0. handles[g2][i].pos \in Pos /\ handles[g2][i].task \in 1 .. Len(tasks)
      BY Rows
    <3>1. CASE g2 = g /\ i = k
      <4>1. commitTurnCnt'[g][hd.pos] = c /\ tasks'[t] = e
        BY <1>2, <1>3, <1>6, <1>7
      <4>2. c <= c /\ c <= hd.repeat /\ hd.repeat = e.repeat
        <5>1. c <= c
          BY <1>3
        <5>2. c <= hd.repeat /\ hd.repeat = tasks[t].repeat
          BY <1>4 DEF RowCommit
        <5> QED
          BY <1>5, <5>1, <5>2
      <4>3. handles'[g2][i] = hd
        BY <1>1, <3>1
      <4> QED
        BY <1>5, <3>1, <4>1, <4>2, <4>3 DEF RowCommit
    <3>2. CASE ~(g2 = g /\ i = k)
      <4>1. handles[g2][i].task # t /\ ~(g2 = g /\ handles[g2][i].pos = hd.pos)
        BY <1>2, <3>2 DEF TurnsInv, RowPlaces
      <4>2. RowCommit(g2, handles[g2][i], tasks[handles[g2][i].task])
        BY DEF TurnsInv, RowCommits
      <4>3. /\ tasks'[handles[g2][i].task] = tasks[handles[g2][i].task]
            /\ commitTurnCnt'[g2][handles[g2][i].pos] = commitTurnCnt[g2][handles[g2][i].pos]
        BY <1>6, <1>7, <3>0, <4>1
      <4> QED
        BY <1>1, <4>2, <4>3 DEF RowCommit
    <3> QED
      BY <3>1, <3>2
  <2>2. ASSUME NEW g2 \in Groups, NEW q \in Pos, q >= curMsgPosition[g2]
        PROVE  commitTurnCnt'[g2][q] = 0
    <3>1. hd.pos < curMsgPosition[g]
      BY <1>2 DEF TurnsInv, RowPlaces
    <3>2. ~(g2 = g /\ q = hd.pos)
      <4>1. q \in Nat /\ curMsgPosition[g2] \in Nat
        BY Facts
      <4> QED
        BY <1>3, <2>2, <3>1, <4>1
    <3> QED
      BY <1>7, <2>2, <3>2 DEF TurnsInv, RowCommits
  <2> QED
    BY <1>1, <2>1, <2>2 DEF RowCommits
<1>11. TurnsGo
  <2>1. \A u \in 1 .. Len(tasks) : tasks[u].committed \in Nat
    BY TurnTypes
  <2>2. tasks[t].committed <= c
    BY <1>4 DEF RowCommit
  <2>3. ASSUME NEW u \in 1 .. Len(tasks)
        PROVE  /\ tasks[u].launched => tasks'[u].launched
               /\ tasks'[u].executed = tasks[u].executed
               /\ tasks[u].committed <= tasks'[u].committed
    <3>1. CASE u = t
      BY <1>5, <1>6, <2>2, <3>1
    <3>2. CASE u # t
      BY <1>6, <2>1, <3>2
    <3> QED
      BY <3>1, <3>2
  <2> QED
    BY <1>6, <2>3 DEF TurnsGo
<1>16. \A u \in 1 .. Len(tasks) :
          tasks'[u].launched = tasks[u].launched /\ tasks'[u].executed = tasks[u].executed
  <2>1. ASSUME NEW u \in 1 .. Len(tasks)
        PROVE  tasks'[u].launched = tasks[u].launched /\ tasks'[u].executed = tasks[u].executed
    <3>1. CASE u = t
      BY <1>5, <1>6, <3>1
    <3>2. CASE u # t
      <4>1. tasks'[u] = tasks[u]
        BY <1>6, <3>2
      <4> QED
        BY <4>1
    <3> QED
      BY <3>1, <3>2
  <2> QED
    BY <2>1
<1>12. Unlaunched'
  <2>1. \A u \in 1 .. Len(tasks) : tasks'[u].launched = tasks[u].launched
    BY <1>16
  <2>2. \A g2 \in Groups, q \in Pos : Waits(g2, q)' => Waits(g2, q) /\ Message(g2, q)' = Message(g2, q)
    BY <1>1, <1>8 DEF Waits, Message
  <2> QED
    BY <1>9, <2>1, <2>2, UnlaunchedStill DEF TurnsInv
<1>13. TurnRows' /\ Kernels'
  BY <1>8, <1>9, <1>11, TurnsStill DEF TurnsInv
<1>14. NotYetRun'
  <2>1. ASSUME NEW u \in 1 .. Len(tasks), ~tasks'[u].launched PROVE tasks'[u].executed = 0
    <3>1. tasks'[u].launched = tasks[u].launched /\ tasks'[u].executed = tasks[u].executed
      BY <1>16
    <3> QED
      BY <2>1, <3>1 DEF TurnsInv, NotYetRun
  <2> QED
    BY <1>6, <2>1 DEF NotYetRun
<1>15. ExecutedIsCommitted'
  <2>1. DOMAIN tasks = 1 .. Len(tasks) /\ DOMAIN tasks' = 1 .. Len(tasks')
    BY DEF TypeInv
  <2>2. \A u \in 1 .. Len(tasks) :
          tasks[u].executed <= tasks[u].committed /\ tasks[u].committed <= tasks[u].repeat
    BY <2>1 DEF TurnsInv, ExecutedIsCommitted
  <2>3. e.executed <= e.committed /\ e.committed <= e.repeat
    <3>1. tasks[t].executed <= tasks[t].committed /\ tasks[t].committed <= c /\ c <= tasks[t].repeat
      BY <1>3, <1>4, <2>2 DEF RowCommit
    <3>2. tasks[t].executed <= c
      <4>1. /\ tasks[t].executed \in Nat /\ tasks[t].committed \in Nat
            /\ c \in Nat /\ tasks[t].repeat \in Nat
        BY <1>3
      <4>2. ASSUME NEW x, x = tasks[t].executed, NEW c1, c1 = tasks[t].committed,
                   NEW r, r = tasks[t].repeat
            PROVE  x <= c
        BY <3>1, <4>1, <4>2, CountOrder
      <4> QED
        BY <4>2
    <3> QED
      BY <1>5, <3>1, <3>2
  <2> QED
    BY <1>6, <2>1, <2>2, <2>3 DEF ExecutedIsCommitted
<1> QED
  BY <1>9, <1>10, <1>12, <1>13, <1>14, <1>15 DEF TurnsInv

\* A message that is put is not where the server holds one.
LEMMA PutHand ==
    ASSUME TypeInv, HandInv, NEW g, NEW p, NEW m, Put(g, p, m)
    PROVE  /\ HandInv'
           /\ \A g2 \in Groups, q \in Pos :
                 Message(g2, q)' = IF g2 = g /\ q = p THEN m ELSE Message(g2, q)
           /\ \A g2 \in Groups : /\ curMsgPosition'[g2] \in Nat
                                 /\ curMsgPosition[g2] <= curMsgPosition'[g2]
           /\ curMsgPosition'[g] = p + 1
<1>1. /\ g \in Groups /\ p \in Pos /\ p \in Nat /\ p = curMsgPosition[g]
      /\ sendMsgs' = [sendMsgs EXCEPT ![g][p] = m]
      /\ curMsgPosition' = [curMsgPosition EXCEPT ![g] = @ + 1]
      /\ UNCHANGED <<server, retryCnt, rcvMsg, msgPos, finishFlag, finalizeFlag>>
  BY Facts DEF Put, OtherSide, serverVars
<1>2. \A g2 \in Groups, q \in Pos :
        sendMsgs'[g2][q] = IF g2 = g /\ q = p THEN m ELSE sendMsgs[g2][q]
  BY <1>1 DEF TypeInv, AreaTypes
<1>3. \A g2 \in Groups : /\ curMsgPosition[g2] \in Nat
                         /\ curMsgPosition'[g2] = IF g2 = g THEN p + 1 ELSE curMsgPosition[g2]
  <2>1. curMsgPosition \in [Groups -> 0 .. MsgCnt]
    BY SameData DEF TypeInv, ClientTypes, C!ClientTypeOK
  <2> QED
    BY <1>1, <2>1, Facts
<1>4. \A g2 \in Groups : msgPos[g2] \in Pos /\ msgPos[g2] \in Nat
  BY Facts
<1>5. \A g2 \in Groups : retryCnt[g2] = 1 => ~(g2 = g /\ msgPos[g2] = p)
  BY <1>1, <1>3, <1>4 DEF HandInv
<1>6. HandInv'
  <2>1. ASSUME NEW g2 \in Groups, retryCnt[g2] = 1
        PROVE  msgPos[g2] < curMsgPosition'[g2] /\ sendMsgs'[g2][msgPos[g2]] = NoMsg
    BY <1>1, <1>2, <1>3, <1>4, <1>5, <2>1 DEF HandInv
  <2>2. ASSUME NEW g2 \in Groups, NEW q \in Pos, sendMsgs'[g2][q].type \in {"prepare", "sync"}
        PROVE  q < curMsgPosition'[g2]
    <3>1. CASE g2 = g /\ q = p
      BY <1>1, <1>3, <3>1
    <3>2. CASE ~(g2 = g /\ q = p)
      <4>1. q < curMsgPosition[g2] /\ q \in Nat
        BY <1>2, <2>2, <3>2, Facts DEF HandInv
      <4> QED
        BY <1>1, <1>3, <4>1
    <3> QED
      BY <3>1, <3>2
  <2> QED
    BY <1>1, <2>1, <2>2 DEF HandInv
<1>7. \A g2 \in Groups, q \in Pos :
        Message(g2, q)' = IF g2 = g /\ q = p THEN m ELSE Message(g2, q)
  BY <1>1, <1>2, <1>5 DEF Message
<1> QED
  BY <1>1, <1>3, <1>6, <1>7

\* InterHcclGroupSync adds neither a row nor a task.
LEMMA SyncTurns == ASSUME TypeInv, TypeInv', TurnsInv, OtherSide, SendSync PROVE TurnsInv'
<1>1. PICK g, p, m : PutSync(g, p, m)
  BY SendPuts
<1>2. /\ Put(g, p, m) /\ m.type = "sync"
      /\ UNCHANGED <<handles, tasks, commitTurnCnt, stream>>
  BY <1>1 DEF PutSync, Put, OtherSide
<1>3. /\ HandInv'
      /\ \A g2 \in Groups, q \in Pos :
            Message(g2, q)' = IF g2 = g /\ q = p THEN m ELSE Message(g2, q)
      /\ \A g2 \in Groups : /\ curMsgPosition'[g2] \in Nat
                            /\ curMsgPosition[g2] <= curMsgPosition'[g2]
  BY <1>2, PutHand DEF TurnsInv
<1>4. RowsStay /\ TurnsSame /\ RowsRemain /\ TurnsGo
  <2>1. RowsStay /\ TurnsSame
    BY <1>2, SameStay
  <2>2. TurnsGo
    BY <1>2, TurnTypes DEF TurnsGo
  <2> QED
    BY <2>1, <2>2, RowsStayRemain DEF RowsStay
<1>5. RowPlaces' /\ RowCommits'
  BY <1>2, <1>3, <1>4, RowsStill DEF TurnsInv
<1>6. Unlaunched'
  <2>1. \A g2 \in Groups, q \in Pos : Waits(g2, q)' => Waits(g2, q) /\ Message(g2, q)' = Message(g2, q)
    BY <1>2, <1>3 DEF Waits
  <2> QED
    BY <1>2, <1>4, <2>1, UnlaunchedStill DEF TurnsInv
<1>7. TurnRows' /\ Kernels'
  BY <1>2, <1>4, TurnsStill DEF TurnsInv
<1>8. NotYetRun' /\ ExecutedIsCommitted'
  BY <1>2 DEF TurnsInv, NotYetRun, ExecutedIsCommitted
<1> QED
  BY <1>3, <1>5, <1>6, <1>7, <1>8 DEF TurnsInv

\* What a Prepare's message adds: a row, and a task not launched and not committed.
Added(g, p, m, hd) ==
    /\ Put(g, p, m) /\ m.task = Len(tasks) + 1
    /\ hd.task = Len(tasks) + 1 /\ hd.pos = p /\ hd.repeat \in Nat /\ hd.commit \in {0, hd.repeat}
    /\ Len(handles'[g]) = Len(handles[g]) + 1 /\ handles'[g][Len(handles[g]) + 1] = hd
    /\ \A i \in 1 .. Len(handles[g]) : handles'[g][i] = handles[g][i]
    /\ \A g2 \in Groups \ {g} : handles'[g2] = handles[g2]
    /\ Len(tasks') = Len(tasks) + 1 /\ \A t \in 1 .. Len(tasks) : tasks'[t] = tasks[t]
    /\ tasks'[Len(tasks) + 1].repeat = hd.repeat /\ ~tasks'[Len(tasks) + 1].launched
    /\ tasks'[Len(tasks) + 1].committed = 0 /\ tasks'[Len(tasks) + 1].executed = 0

\* CommonPrepareImpl adds them.
LEMMA PrepareAdds ==
    ASSUME TypeInv, OtherSide, SendPrepare PROVE \E g, p, m, hd : Added(g, p, m, hd)
<1>1. C!SendPrepare /\ UNCHANGED <<C!serverVars, stream>>
  BY SameData DEF SendPrepare, C!SendPrepare, PutMsg, C!PutMsg, NextSeq, C!NextSeq,
     Return, C!Return, AdvancePosition, C!AdvancePosition, areaVars, C!areaVars, OtherSide,
     serverVars, C!serverVars
<1>2. PICK g, p, m, u, hd : C!Prepared(g, p, m, u, hd)
  BY <1>1, TypesThere, ConstantsHold, SameData, C!SendPrepared DEF C!SendPrepared, Constants
<1>3. Put(g, p, m)
  BY <1>2, SameData DEF SendPrepare, PutMsg, C!Prepared, C!Issued, Put, OtherSide
<1>4. /\ Len(handles'[g]) = Len(handles[g]) + 1
      /\ handles'[g][Len(handles[g]) + 1] = hd
      /\ \A i \in 1 .. Len(handles[g]) : handles'[g][i] = handles[g][i]
      /\ \A g2 \in Groups \ {g} : handles'[g2] = handles[g2]
  <2>1. C!TypeInv /\ g \in C!Groups /\ hd \in C!Handle /\ handles' = [handles EXCEPT ![g] = Append(@, hd)]
    BY <1>2, TypesThere, SameData DEF C!Prepared
  <2> QED
    BY <2>1, ConstantsHold, SameData, C!RowAdded DEF C!RowAdded, Constants
<1>5. /\ m.task = Len(tasks) + 1 /\ hd.task = Len(tasks) + 1 /\ hd.pos = p /\ hd.repeat \in Nat
      /\ hd.commit \in {0, hd.repeat}
      /\ Len(tasks') = Len(tasks) + 1 /\ \A t \in 1 .. Len(tasks) : tasks'[t] = tasks[t]
      /\ tasks'[Len(tasks) + 1].repeat = hd.repeat /\ ~tasks'[Len(tasks) + 1].launched
      /\ tasks'[Len(tasks) + 1].committed = 0 /\ tasks'[Len(tasks) + 1].executed = 0
  BY <1>2, SameData DEF C!Prepared
<1>6. Added(g, p, m, hd)
  BY <1>3, <1>4, <1>5 DEF Added
<1> QED
  BY <1>6

\* The new row is of a position not used yet, whose count is 0, and of a new task.
LEMMA PrepareTurns == ASSUME TypeInv, TypeInv', TurnsInv, OtherSide, SendPrepare PROVE TurnsInv'
<1>1. PICK g, p, m, hd : Added(g, p, m, hd)
  BY PrepareAdds
<1> SUFFICES ASSUME NEW n, n = Len(handles[g]), NEW l, l = Len(tasks) PROVE TurnsInv'
  OBVIOUS
<1>2. /\ HandInv'
      /\ \A g2 \in Groups, q \in Pos :
            Message(g2, q)' = IF g2 = g /\ q = p THEN m ELSE Message(g2, q)
      /\ \A g2 \in Groups : /\ curMsgPosition'[g2] \in Nat
                            /\ curMsgPosition[g2] <= curMsgPosition'[g2]
      /\ curMsgPosition'[g] = p + 1
  BY <1>1, PutHand DEF TurnsInv, Added
<1>3. /\ g \in Groups /\ p \in Pos /\ p \in Nat /\ p = curMsgPosition[g] /\ n \in Nat /\ l \in Nat
      /\ UNCHANGED <<commitTurnCnt, stream>>
  BY <1>1, Facts, Rows DEF Added, Put, OtherSide
<1>4. /\ m.task = l + 1 /\ hd.task = l + 1 /\ hd.pos = p /\ hd.repeat \in Nat
      /\ hd.commit \in {0, hd.repeat}
      /\ Len(handles'[g]) = n + 1 /\ handles'[g][n + 1] = hd
      /\ \A i \in 1 .. n : handles'[g][i] = handles[g][i]
      /\ \A g2 \in Groups \ {g} : handles'[g2] = handles[g2]
      /\ Len(tasks') = l + 1 /\ \A t \in 1 .. l : tasks'[t] = tasks[t]
      /\ tasks'[l + 1].repeat = hd.repeat /\ ~tasks'[l + 1].launched
      /\ tasks'[l + 1].committed = 0 /\ tasks'[l + 1].executed = 0
  BY <1>1 DEF Added
<1>5. \A g2 \in Groups : \A i \in 1 .. Len(handles'[g2]) :
        \/ g2 = g /\ i = n + 1 /\ handles'[g2][i] = hd
        \/ i \in 1 .. Len(handles[g2]) /\ handles'[g2][i] = handles[g2][i]
  <2>1. ASSUME NEW i \in 1 .. Len(handles'[g]) PROVE i = n + 1 \/ i \in 1 .. n
    BY <1>3, <1>4
  <2> QED
    BY <1>4, <2>1
<1>6. \A g2 \in Groups : \A i \in 1 .. Len(handles[g2]) :
        /\ handles[g2][i].task \in 1 .. l /\ handles[g2][i].pos \in Pos /\ handles[g2][i].pos \in Nat
        /\ handles[g2][i].pos < curMsgPosition[g2]
        /\ curMsgPosition[g2] \in Nat
  BY Rows, Facts DEF TurnsInv, RowPlaces
<1>7. \A i \in 1 .. n : handles[g][i].pos # p
  BY <1>3, <1>6
<1>8. \A g2 \in Groups : \A i \in 1 .. Len(handles[g2]) : handles[g2][i].task # l + 1
  BY <1>3, <1>6
<1>9. RowPlaces'
  <2>1. ASSUME NEW g2 \in Groups, NEW i \in 1 .. Len(handles'[g2])
        PROVE  /\ handles'[g2][i].pos < curMsgPosition'[g2]
               /\ \A j \in 1 .. Len(handles'[g2]) : handles'[g2][i].pos = handles'[g2][j].pos => i = j
               /\ \A g3 \in Groups : \A j \in 1 .. Len(handles'[g3]) :
                     handles'[g2][i].task = handles'[g3][j].task => g2 = g3 /\ i = j
    <3>1. CASE g2 = g /\ i = n + 1 /\ handles'[g2][i] = hd
      <4>1. hd.pos < curMsgPosition'[g]
        BY <1>2, <1>3, <1>4
      <4>2. ASSUME NEW j \in 1 .. Len(handles'[g2]), handles'[g2][i].pos = handles'[g2][j].pos
            PROVE  i = j
        BY <1>4, <1>5, <1>7, <3>1, <4>2
      <4>3. ASSUME NEW g3 \in Groups, NEW j \in 1 .. Len(handles'[g3]),
                   handles'[g2][i].task = handles'[g3][j].task
            PROVE  g2 = g3 /\ i = j
        <5>1. handles'[g3][j].task = l + 1
          BY <1>4, <3>1, <4>3
        <5>2. ~(j \in 1 .. Len(handles[g3]) /\ handles'[g3][j] = handles[g3][j])
          BY <1>8, <5>1
        <5>3. g3 = g /\ j = n + 1
          BY <1>5, <5>2
        <5> QED
          BY <3>1, <5>3
      <4> QED
        BY <3>1, <4>1, <4>2, <4>3
    <3>2. CASE i \in 1 .. Len(handles[g2]) /\ handles'[g2][i] = handles[g2][i]
      <4>1. handles[g2][i].pos < curMsgPosition'[g2]
        BY <1>2, <1>6, <3>2
      <4>2. ASSUME NEW j \in 1 .. Len(handles'[g2]), handles'[g2][i].pos = handles'[g2][j].pos
            PROVE  i = j
        BY <1>4, <1>5, <1>7, <3>2, <4>2 DEF TurnsInv, RowPlaces
      <4>3. ASSUME NEW g3 \in Groups, NEW j \in 1 .. Len(handles'[g3]),
                   handles'[g2][i].task = handles'[g3][j].task
            PROVE  g2 = g3 /\ i = j
        <5>1. handles'[g3][j].task = handles[g2][i].task /\ handles[g2][i].task # l + 1
          BY <1>8, <3>2, <4>3
        <5>2. ~(handles'[g3][j] = hd)
          BY <1>4, <5>1
        <5>3. j \in 1 .. Len(handles[g3]) /\ handles'[g3][j] = handles[g3][j]
          BY <1>5, <5>2
        <5>4. handles[g2][i].task = handles[g3][j].task
          BY <5>1, <5>3
        <5> QED
          BY <3>2, <5>3, <5>4 DEF TurnsInv, RowPlaces
      <4> QED
        BY <3>2, <4>1, <4>2, <4>3
    <3> QED
      BY <1>5, <3>1, <3>2
  <2> QED
    BY <2>1 DEF RowPlaces
<1>10. RowCommits'
  <2>1. ASSUME NEW g2 \in Groups, NEW i \in 1 .. Len(handles'[g2])
        PROVE  RowCommit(g2, handles[g2][i], tasks[handles[g2][i].task])'
    <3>1. CASE g2 = g /\ i = n + 1 /\ handles'[g2][i] = hd
      <4>1. commitTurnCnt[g][p] = 0
        <5>1. p >= curMsgPosition[g]
          BY <1>3
        <5> QED
          BY <1>3, <5>1 DEF TurnsInv, RowCommits
      <4>2. 0 <= hd.commit /\ hd.commit <= hd.repeat
        BY <1>4
      <4>3. /\ handles'[g2][i] = hd /\ commitTurnCnt'[g2][hd.pos] = 0
            /\ tasks'[hd.task].committed = 0 /\ tasks'[hd.task].repeat = hd.repeat
        BY <1>3, <1>4, <3>1, <4>1
      <4> QED
        BY <4>2, <4>3 DEF RowCommit
    <3>2. CASE i \in 1 .. Len(handles[g2]) /\ handles'[g2][i] = handles[g2][i]
      <4>1. RowCommit(g2, handles[g2][i], tasks[handles[g2][i].task])
        BY <3>2 DEF TurnsInv, RowCommits
      <4>2. tasks'[handles[g2][i].task] = tasks[handles[g2][i].task]
        BY <1>4, <1>6, <3>2
      <4> QED
        BY <1>3, <3>2, <4>1, <4>2 DEF RowCommit
    <3> QED
      BY <1>5, <3>1, <3>2
  <2>2. ASSUME NEW g2 \in Groups, NEW q \in Pos, q >= curMsgPosition'[g2]
        PROVE  commitTurnCnt'[g2][q] = 0
    <3>1. q >= curMsgPosition[g2]
      <4>1. q \in Nat /\ curMsgPosition[g2] \in Nat
        BY Facts
      <4> QED
        BY <1>2, <2>2, <4>1
    <3> QED
      BY <1>3, <3>1 DEF TurnsInv, RowCommits
  <2> QED
    BY <2>1, <2>2 DEF RowCommits
<1>11. RowsRemain /\ HasRow(g, p, l + 1)'
  <2>1. HasRow(g, p, l + 1)'
    <3>1. handles'[g][n + 1].pos = p /\ handles'[g][n + 1].task = l + 1 /\ n + 1 \in 1 .. Len(handles'[g])
      BY <1>3, <1>4
    <3> QED
      BY <3>1 DEF HasRow
  <2>2. ASSUME NEW g2 \in Groups, NEW q, NEW t, HasRow(g2, q, t) PROVE HasRow(g2, q, t)'
    <3>1. PICK i \in 1 .. Len(handles[g2]) : handles[g2][i].pos = q /\ handles[g2][i].task = t
      BY <2>2 DEF HasRow
    <3>2. i \in 1 .. Len(handles'[g2]) /\ handles'[g2][i] = handles[g2][i]
      BY <1>3, <1>4
    <3> QED
      BY <3>1, <3>2 DEF HasRow
  <2> QED
    BY <2>1, <2>2 DEF RowsRemain
<1>12. TurnsGo
  <2>1. \A t \in 1 .. l : tasks[t].committed \in Nat
    BY TurnTypes
  <2> QED
    BY <1>3, <1>4, <2>1 DEF TurnsGo
<1>13. Unlaunched'
  <2> SUFFICES ASSUME NEW g2 \in Groups, NEW q \in Pos, Waits(g2, q)'
               PROVE  (HasRow(g2, q, Message(g2, q).task) /\ ~tasks[Message(g2, q).task].launched)'
    BY DEF Unlaunched
  <2>1. CASE g2 = g /\ q = p
    BY <1>2, <1>4, <1>11, <2>1
  <2>2. CASE ~(g2 = g /\ q = p)
    <3>1. Message(g2, q)' = Message(g2, q) /\ Waits(g2, q)
      BY <1>2, <2>2 DEF Waits
    <3>2. /\ HasRow(g2, q, Message(g2, q).task) /\ ~tasks[Message(g2, q).task].launched
          /\ Message(g2, q).task \in 1 .. l
      BY <3>1, MessageTask DEF TurnsInv, Unlaunched
    <3>3. ASSUME NEW t, t = Message(g2, q).task PROVE HasRow(g2, q, t)' /\ ~tasks'[t].launched
      BY <1>4, <1>11, <3>2, <3>3 DEF RowsRemain
    <3>4. (Message(g2, q).task)' = Message(g2, q).task
      BY <3>1
    <3> QED
      BY <3>3, <3>4
  <2> QED
    BY <2>1, <2>2
<1>14. TurnRows' /\ Kernels'
  BY <1>3, <1>11, <1>12, TurnsStill DEF TurnsInv
<1>15. NotYetRun'
  <2>1. \A t \in 1 .. l + 1 : t \in 1 .. l \/ t = l + 1
    BY <1>3
  <2> QED
    BY <1>4, <2>1 DEF TurnsInv, NotYetRun
<1>16. ExecutedIsCommitted'
  <2>1. DOMAIN tasks = 1 .. l /\ DOMAIN tasks' = 1 .. l + 1
    BY <1>4 DEF TypeInv
  <2>2. \A t \in 1 .. l + 1 : t \in 1 .. l \/ t = l + 1
    BY <1>3
  <2>3. 0 <= hd.repeat
    BY <1>4
  <2>4. \A t \in 1 .. l : tasks[t].executed <= tasks[t].committed /\ tasks[t].committed <= tasks[t].repeat
    BY <2>1 DEF TurnsInv, ExecutedIsCommitted
  <2>5. \A t \in 1 .. l + 1 :
          tasks'[t].executed <= tasks'[t].committed /\ tasks'[t].committed <= tasks'[t].repeat
    BY <1>4, <2>2, <2>3, <2>4
  <2> QED
    BY <2>1, <2>5 DEF ExecutedIsCommitted
<1> QED
  BY <1>2, <1>9, <1>10, <1>13, <1>14, <1>15, <1>16 DEF TurnsInv

\* A launch begins when all is over: no message, count or entry is left of the last.
LEMMA LaunchTurns ==
    ASSUME TypeInv, TypeInv', CarefulInv, TurnsInv, OtherSide, NextLaunch PROVE TurnsInv'
<1>1. /\ \A g \in Groups : finalized[g]
      /\ UNCHANGED <<sendMsgs, commitTurnCnt, tasks, stream, server, retryCnt, rcvMsg, msgPos,
                     finishFlag, finalizeFlag>>
      /\ \A g \in Groups : handles'[g] = <<>> /\ curMsgPosition'[g] = 0
  BY DEF NextLaunch, areaVars, OtherSide, serverVars, PerGroup
<1>2. ASSUME NEW g \in Groups
      PROVE  /\ stream[g] = <<>> /\ retryCnt[g] = 0 /\ Len(stream[g]) = 0 /\ Len(handles'[g]) = 0
             /\ \A p \in Pos : /\ sendMsgs[g][p] = NoMsg /\ commitTurnCnt[g][p] = 0
                               /\ Message(g, p)' = NoMsg
  <2>1. Idle(g)
    <3>1. Marked(g)
      BY <1>1 DEF CarefulInv, Places, GroupInv
    <3> QED
      BY <3>1 DEF CarefulInv, Places, GroupInv, Marked
  <2>2. sendMsgs = PerPos(NoMsg) /\ commitTurnCnt = PerPos(0)
    BY <1>1, CarefulMeans DEF CleanForNextLaunch
  <2>3. \A p \in Pos : sendMsgs[g][p] = NoMsg /\ commitTurnCnt[g][p] = 0
    BY <2>2 DEF PerPos
  <2> QED
    BY <1>1, <2>1, <2>3 DEF Idle, Message
<1>3. NoMsg.type = "none"
  BY Facts
<1>4. RowPlaces' /\ RowCommits' /\ TurnRows' /\ Kernels'
  BY <1>1, <1>2 DEF RowPlaces, RowCommits, TurnRows, Kernels
<1>5. HandInv'
  BY <1>1, <1>2, <1>3 DEF TurnsInv, HandInv
<1>6. Unlaunched'
  BY <1>2, <1>3 DEF Unlaunched, Waits
<1>7. NotYetRun' /\ ExecutedIsCommitted'
  BY <1>1 DEF TurnsInv, NotYetRun, ExecutedIsCommitted
<1> QED
  BY <1>4, <1>5, <1>6, <1>7 DEF TurnsInv

\* A client's step keeps the invariant.
LEMMA ClientTurns ==
    ASSUME TypeInv, TypeInv', careful => CarefulInv, TurnsInv, ClientStep PROVE TurnsInv'
<1>1. /\ CallApi \/ ContinueCall
      /\ IF careful THEN CarefulCall ELSE CarelessCall
      /\ OtherSide
  BY DEF ClientStep, ClientNext, OtherSide
<1>2. CASE NextLaunch
  <2>1. careful
    <3>1. launch' = launch + 1 /\ launch \in Nat /\ launch # 0
      BY <1>2, SameData DEF NextLaunch, TypeInv, ClientTypes, C!ClientTypeOK
    <3> QED
      BY <1>1, <3>1 DEF CarelessCall
  <2> QED
    BY <1>1, <1>2, <2>1, LaunchTurns
<1>3. CASE CallApi /\ ~NextLaunch
  BY <1>1, <1>3, CallQuiet, QuietTurns
<1>4. CASE ContinueCall
  BY <1>1, <1>4, ContinueQuiet, QuietTurns, CommitWriteTurns, SyncTurns, PrepareTurns DEF ContinueCall
<1> QED
  BY <1>1, <1>2, <1>3, <1>4

----------------------------------------------------------------------------
(* The turns, and the server's steps.                                       *)

\* A message the server reads: its slot is clear afterwards, held or not.
LEMMA ProcessHand ==
    ASSUME TypeInv, HandInv, NEW g \in Groups, NEW type, Process(g, type)
    PROVE  /\ server = "run" /\ ~finalizeFlag[g] /\ ~finishFlag[g] /\ UNCHANGED finishFlag
           /\ SlotNow(g) = Message(g, msgPos[g]) /\ SlotNow(g).type = type /\ msgPos[g] \in Pos
           /\ sendMsgs'[g][msgPos[g]] = NoMsg
           /\ \A g2 \in Groups, q \in Pos :
                g2 # g \/ q # msgPos[g] => sendMsgs'[g2][q] = sendMsgs[g2][q]
           /\ rcvMsg'[g] = SlotNow(g)
           /\ \A g2 \in Groups : g2 # g => rcvMsg'[g2] = rcvMsg[g2]
           /\ type \in {"prepare", "sync"} => msgPos[g] < curMsgPosition[g]
           /\ type = "finalize" => retryCnt[g] = 0
<1> DEFINE p == msgPos[g]
<1>1. /\ server = "run" /\ ~finishFlag[g] /\ ~finalizeFlag[g] /\ Readable(g)
      /\ SlotNow(g).type = type /\ GiveBack(g) /\ UNCHANGED finishFlag
      /\ rcvMsg' = [rcvMsg EXCEPT ![g] = SlotNow(g)]
  BY DEF Process, At
<1>2. p \in Pos /\ retryCnt[g] \in {0, 1} /\ NoMsg.type = "none"
  BY Facts
<1>3. retryCnt[g] = 1 => /\ p < curMsgPosition[g] /\ sendMsgs[g][p] = NoMsg
                         /\ rcvMsg[g].type \in {"prepare", "sync"}
  BY DEF HandInv
<1>4. SlotNow(g) = Message(g, p)
  BY <1>1, <1>2, <1>3 DEF SlotNow, Message, Readable
<1>5. /\ sendMsgs'[g][p] = NoMsg
      /\ \A g2 \in Groups, q \in Pos : g2 # g \/ q # p => sendMsgs'[g2][q] = sendMsgs[g2][q]
  <2>1. CASE retryCnt[g] = 1
    BY <1>1, <1>3, <2>1 DEF GiveBack
  <2>2. CASE retryCnt[g] # 1
    <3>1. sendMsgs' = [sendMsgs EXCEPT ![g][p] = NoMsg]
      BY <1>1, <2>2 DEF GiveBack
    <3> QED
      BY <1>2, <3>1 DEF TypeInv, AreaTypes
  <2> QED
    BY <2>1, <2>2
<1>6. rcvMsg'[g] = SlotNow(g) /\ \A g2 \in Groups : g2 # g => rcvMsg'[g2] = rcvMsg[g2]
  BY <1>1 DEF TypeInv, ServerTypes
<1>7. type \in {"prepare", "sync"} => p < curMsgPosition[g]
  <2>1. CASE retryCnt[g] = 1
    BY <1>3, <2>1
  <2>2. CASE retryCnt[g] # 1
    BY <1>1, <1>2, <1>4, <2>2 DEF Message, HandInv
  <2> QED
    BY <2>1, <2>2
<1>8. type = "finalize" => retryCnt[g] = 0
  BY <1>1, <1>2, <1>3, <1>4 DEF Message
<1> QED
  BY <1>1, <1>2, <1>4, <1>5, <1>6, <1>7, <1>8

\* Rows and what is known of their commits stay when only launches change.
LEMMA RowsServed ==
    ASSUME TypeInv, RowPlaces, RowCommits, UNCHANGED <<handles, curMsgPosition, commitTurnCnt>>,
           \A t \in 1 .. Len(tasks) : /\ tasks'[t].committed = tasks[t].committed
                                      /\ tasks'[t].repeat = tasks[t].repeat
    PROVE  RowPlaces' /\ RowCommits'
<1>1. ASSUME NEW g \in Groups, NEW i \in 1 .. Len(handles[g])
      PROVE  RowCommit(g, handles[g][i], tasks[handles[g][i].task])'
  <2>1. handles[g][i].task \in 1 .. Len(tasks)
    BY Rows
  <2>2. RowCommit(g, handles[g][i], tasks[handles[g][i].task])
    BY DEF RowCommits
  <2> QED
    BY <2>1, <2>2 DEF RowCommit
<1>2. RowPlaces'
  BY DEF RowPlaces
<1> QED
  BY <1>1, <1>2 DEF RowCommits

\* A server's step that launches no task, and puts no turn into a stream.
LEMMA ServerStill ==
    ASSUME TypeInv, TypeInv', TurnsInv, ServerSide, UNCHANGED tasks, HandInv',
           (TurnRows' /\ Kernels') \/ UNCHANGED stream,
           \A g \in Groups, p \in Pos : Waits(g, p)' => Waits(g, p) /\ Message(g, p)' = Message(g, p)
    PROVE  TurnsInv'
<1>1. UNCHANGED <<handles, curMsgPosition, commitTurnCnt>> /\ RowsRemain /\ TurnsGo
  <2>1. TurnsGo
    BY TurnTypes DEF TurnsGo
  <2> QED
    BY <2>1 DEF ServerSide, clientVars, RowsRemain, HasRow
<1>2. RowPlaces' /\ RowCommits'
  BY <1>1, RowsServed DEF TurnsInv
<1>3. Unlaunched'
  BY <1>1, UnlaunchedStill DEF TurnsInv
<1>4. TurnRows' /\ Kernels'
  BY <1>1, TurnsStill DEF TurnsInv
<1>5. NotYetRun' /\ ExecutedIsCommitted'
  BY DEF TurnsInv, NotYetRun, ExecutedIsCommitted
<1> QED
  BY <1>2, <1>3, <1>4, <1>5 DEF TurnsInv

\* What is known of a kernel put behind the entries of a stream.
KernelAfter(g, s, i) ==
    /\ tasks'[s[i].task].executed < s[i].val
    /\ \E k \in 1 .. i - 1 : WaitOf(s[k], s[i])
    /\ \A k \in 1 .. i - 1 : s[k].type = "kernel" /\ s[k].task = s[i].task => s[k].val < s[i].val
    /\ \A j \in 1 .. Len(stream[g]) : stream[g][j].type = "kernel" => stream[g][j].task # s[i].task

\* Streams keep what is known of their turns when entries are put behind them.
LEMMA TurnsGrown ==
    ASSUME TypeInv, TypeInv', TurnRows, Kernels, TurnsGo, RowsRemain,
           NEW g \in Groups, NEW s, Grown(g, s),
           \A i \in 1 .. Len(s) : OfTurn(s[i]) =>
                s[i].group = g /\ HasRow(g, s[i].pos, s[i].task)' /\ tasks'[s[i].task].launched,
           \A i \in 1 .. Len(s) : s[i].type = "kernel" => KernelAfter(g, s, i)
    PROVE  TurnRows' /\ Kernels'
<1> SUFFICES ASSUME NEW n, n = Len(stream[g]) PROVE TurnRows' /\ Kernels'
  OBVIOUS
<1>1. /\ s \in Seq(Sqe) /\ stream'[g] = stream[g] \o s /\ stream[g] \in Seq(Sqe)
      /\ \A g2 \in Groups : g2 # g => stream'[g2] = stream[g2]
  BY DEF Grown, TypeInv
<1>2. /\ Len(stream'[g]) = n + Len(s) /\ n \in Nat /\ Len(s) \in Nat
      /\ \A i \in 1 .. n : stream'[g][i] = stream[g][i]
      /\ \A i \in 1 .. Len(s) : stream'[g][n + i] = s[i]
      /\ \A i \in 1 .. Len(stream'[g]) : i \in 1 .. n \/ i - n \in 1 .. Len(s)
  BY <1>1, Concat
<1>3. \A g2 \in Groups : Len(stream[g2]) \in Nat
  BY Entries
<1>4. ASSUME NEW g2 \in Groups, NEW j \in 1 .. Len(stream[g2]), OfTurn(stream[g2][j])
      PROVE  /\ stream[g2][j].group = g2
             /\ \E i \in 1 .. Len(handles'[g2]) : /\ handles'[g2][i].pos = stream[g2][j].pos
                                                 /\ handles'[g2][i].task = stream[g2][j].task
             /\ tasks'[stream[g2][j].task].launched
             /\ stream[g2][j].task \in 1 .. Len(tasks)
  <2>1. TurnRow(g2, stream[g2][j])
    BY <1>4 DEF TurnRows
  <2>2. stream[g2][j].task \in 1 .. Len(tasks)
    BY <2>1, RowTask DEF TurnRow
  <2>3. stream[g2][j].group = g2 /\ HasRow(g2, stream[g2][j].pos, stream[g2][j].task)
        /\ tasks[stream[g2][j].task].launched
    BY <2>1 DEF TurnRow
  <2>4. \E i \in 1 .. Len(handles'[g2]) : /\ handles'[g2][i].pos = stream[g2][j].pos
                                          /\ handles'[g2][i].task = stream[g2][j].task
    <3>1. ASSUME NEW p, NEW t, HasRow(g2, p, t)
          PROVE  \E i \in 1 .. Len(handles'[g2]) : handles'[g2][i].pos = p /\ handles'[g2][i].task = t
      <4>1. HasRow(g2, p, t)'
        BY <3>1 DEF RowsRemain
      <4> QED
        BY <4>1 DEF HasRow
    <3> QED
      BY <2>3, <3>1
  <2>5. tasks'[stream[g2][j].task].launched
    BY <2>2, <2>3 DEF TurnsGo
  <2> QED
    BY <2>2, <2>3, <2>4, <2>5
<1>5. ASSUME NEW g2 \in Groups, NEW j \in 1 .. Len(stream[g2]), stream[g2][j].type = "kernel",
             \A i \in 1 .. j : stream'[g2][i] = stream[g2][i]
      PROVE  Kernel(stream[g2], j)'
  <2>1. Kernel(stream[g2], j)
    BY <1>5 DEF Kernels
  <2>2. stream[g2][j].task \in 1 .. Len(tasks) /\ stream[g2][j].val \in Nat
    BY <1>4, <1>5, Entries DEF OfTurn, Sqe
  <2>3. /\ tasks'[stream[g2][j].task].executed = tasks[stream[g2][j].task].executed
        /\ tasks[stream[g2][j].task].committed <= tasks'[stream[g2][j].task].committed
        /\ tasks[stream[g2][j].task].committed \in Nat
    BY <2>2, TurnTypes DEF TurnsGo
  <2>4. stream[g2][j].val <= tasks[stream[g2][j].task].committed
            => stream[g2][j].val <= tasks'[stream[g2][j].task].committed
    <3>1. \A a, b, c \in Nat : a <= b /\ b <= c => a <= c
      OBVIOUS
    <3>2. tasks'[stream[g2][j].task].committed \in Nat
      <4>1. tasks' \in Seq(Task) /\ stream[g2][j].task \in 1 .. Len(tasks')
        <5>1. tasks' \in Seq(Task)
          BY DEF TypeInv
        <5>2. Len(tasks') \in Nat /\ Len(tasks) \in Nat
          BY <5>1, TurnTypes
        <5> QED
          BY <2>2, <5>1, <5>2 DEF TurnsGo
      <4>2. tasks'[stream[g2][j].task] \in Task
        BY <4>1
      <4> QED
        BY <4>2 DEF Task
    <3> QED
      BY <2>2, <2>3, <3>1, <3>2
  <2>5. /\ stream'[g2][j] = stream[g2][j]
        /\ \A i \in 1 .. j - 1 : stream'[g2][i] = stream[g2][i]
    BY <1>3, <1>5
  <2>6. (\E i \in 1 .. j - 1 : WaitOf(stream[g2][i], stream[g2][j]))
            => \E i \in 1 .. j - 1 : WaitOf(stream'[g2][i], stream'[g2][j])
    BY <2>5
  <2>7. \A i \in 1 .. j - 1 : stream'[g2][i].type = "kernel" /\ stream'[g2][i].task = stream'[g2][j].task
                                => stream'[g2][i].val < stream'[g2][j].val
    BY <2>1, <2>5 DEF Kernel
  <2> QED
    BY <2>1, <2>3, <2>4, <2>5, <2>6, <2>7 DEF Kernel, WaitOf
<1>6. ASSUME NEW i \in 1 .. Len(s), s[i].type = "kernel" PROVE Kernel(stream[g], n + i)'
  <2>1. KernelAfter(g, s, i) /\ stream'[g][n + i] = s[i]
    BY <1>2, <1>6
  <2>2. \A k \in 1 .. i - 1 : n + k \in 1 .. n + i - 1 /\ stream'[g][n + k] = s[k]
    BY <1>2
  <2>3. \E k \in 1 .. n + i - 1 : WaitOf(stream'[g][k], s[i])
    <3>1. PICK k \in 1 .. i - 1 : WaitOf(s[k], s[i])
      BY <2>1 DEF KernelAfter
    <3> QED
      BY <2>2, <3>1
  <2>4. ASSUME NEW k \in 1 .. n + i - 1, stream'[g][k].type = "kernel", stream'[g][k].task = s[i].task
        PROVE  stream'[g][k].val < s[i].val
    <3>1. CASE k \in 1 .. n
      BY <1>2, <2>1, <2>4, <3>1 DEF KernelAfter
    <3>2. CASE k \notin 1 .. n
      <4>1. k - n \in 1 .. i - 1 /\ k = n + (k - n)
        BY <1>2, <3>2
      <4>2. stream'[g][k] = s[k - n]
        BY <2>2, <4>1
      <4> QED
        BY <2>1, <2>4, <4>1, <4>2 DEF KernelAfter
    <3> QED
      BY <3>1, <3>2
  <2>5. /\ tasks'[s[i].task].executed < s[i].val
        /\ \A k \in 1 .. n + i - 1 :
              stream'[g][k].type = "kernel" /\ stream'[g][k].task = s[i].task
                 => stream'[g][k].val < s[i].val
    BY <2>1, <2>4 DEF KernelAfter
  <2> QED
    BY <2>1, <2>3, <2>5 DEF Kernel
<1>7. ASSUME NEW g2 \in Groups, NEW j \in 1 .. Len(stream'[g2])
      PROVE  /\ OfTurn(stream'[g2][j]) => TurnRow(g2, stream[g2][j])'
             /\ stream'[g2][j].type = "kernel" => Kernel(stream[g2], j)'
  <2>1. CASE g2 # g
    <3>1. stream'[g2] = stream[g2]
      BY <1>1, <2>1
    <3> QED
      BY <1>4, <1>5, <3>1 DEF TurnRow, HasRow
  <2>2. CASE g2 = g /\ j \in 1 .. n
    <3>1. /\ \A i \in 1 .. j : stream'[g2][i] = stream[g2][i]
          /\ j \in 1 .. Len(stream[g2])
      BY <1>2, <2>2
    <3>2. stream'[g2][j] = stream[g2][j]
      BY <3>1, <1>3
    <3>3. stream'[g2][j].type = "kernel" => Kernel(stream[g2], j)'
      BY <1>5, <3>1, <3>2
    <3>4. OfTurn(stream[g2][j]) => /\ stream[g2][j].group = g2
             /\ \E i \in 1 .. Len(handles'[g2]) : /\ handles'[g2][i].pos = stream[g2][j].pos
                                                 /\ handles'[g2][i].task = stream[g2][j].task
             /\ tasks'[stream[g2][j].task].launched
      BY <1>4, <3>1
    <3> QED
      BY <3>2, <3>3, <3>4 DEF TurnRow, HasRow
  <2>3. CASE g2 = g /\ j \notin 1 .. n
    <3>1. PICK i \in 1 .. Len(s) : j = n + i /\ stream'[g][j] = s[i]
      <4>1. j - n \in 1 .. Len(s) /\ j = n + (j - n)
        BY <1>2, <2>3
      <4>2. stream'[g][n + (j - n)] = s[j - n]
        BY <1>2, <4>1
      <4> QED
        BY <4>1, <4>2
    <3> QED
      BY <1>6, <2>3, <3>1 DEF TurnRow
  <2> QED
    BY <2>1, <2>2, <2>3
<1>8. TurnRows' /\ Kernels'
  BY <1>7 DEF TurnRows, Kernels, OfTurn
<1> QED
  BY <1>8

\* A message that is read leaves the others, and waits on only when it is held.
LEMMA ProcessTurns ==
    ASSUME TypeInv, HandInv, ServerSide, NEW g \in Groups, NEW type, Process(g, type),
           \A g2 \in Groups : g2 # g => /\ retryCnt'[g2] = retryCnt[g2] /\ msgPos'[g2] = msgPos[g2]
                                        /\ finalizeFlag'[g2] = finalizeFlag[g2],
           retryCnt'[g] = 1 => msgPos'[g] = msgPos[g] /\ type \in {"prepare", "sync"},
           finalizeFlag'[g] => retryCnt'[g] = 0,
           server' # "exit"
    PROVE  /\ HandInv'
           /\ \A g2 \in Groups, q \in Pos : Waits(g2, q)' =>
                /\ Waits(g2, q) /\ Message(g2, q)' = Message(g2, q)
                /\ g2 = g /\ q = msgPos[g] => retryCnt'[g] = 1
<1>1. /\ ~finishFlag[g] /\ UNCHANGED <<finishFlag, curMsgPosition>>
      /\ SlotNow(g) = Message(g, msgPos[g]) /\ SlotNow(g).type = type /\ msgPos[g] \in Pos
      /\ sendMsgs'[g][msgPos[g]] = NoMsg
      /\ \A g2 \in Groups, q \in Pos : g2 # g \/ q # msgPos[g] => sendMsgs'[g2][q] = sendMsgs[g2][q]
      /\ rcvMsg'[g] = SlotNow(g)
      /\ \A g2 \in Groups : g2 # g => rcvMsg'[g2] = rcvMsg[g2]
      /\ type \in {"prepare", "sync"} => msgPos[g] < curMsgPosition[g]
  BY ProcessHand DEF ServerSide, clientVars
<1>2. NoMsg.type = "none"
  BY Facts
<1>3. HandInv'
  <2>1. ASSUME NEW g2 \in Groups
        PROVE  /\ retryCnt'[g2] = 1 => /\ msgPos'[g2] < curMsgPosition'[g2]
                                       /\ sendMsgs'[g2][msgPos'[g2]] = NoMsg
                                       /\ rcvMsg'[g2].type \in {"prepare", "sync"}
               /\ finishFlag'[g2] => finalizeFlag'[g2]
               /\ finalizeFlag'[g2] => retryCnt'[g2] = 0
    <3>1. CASE g2 = g
      BY <1>1, <3>1
    <3>2. CASE g2 # g
      <4>1. msgPos[g2] \in Pos
        BY Facts
      <4> QED
        BY <1>1, <3>2, <4>1 DEF HandInv
    <3> QED
      BY <3>1, <3>2
  <2>2. ASSUME NEW g2 \in Groups, NEW q \in Pos, sendMsgs'[g2][q].type \in {"prepare", "sync"}
        PROVE  q < curMsgPosition'[g2]
    BY <1>1, <1>2, <2>2 DEF HandInv
  <2> QED
    BY <2>1, <2>2 DEF HandInv
<1>4. ASSUME NEW g2 \in Groups, NEW q \in Pos, Waits(g2, q)'
      PROVE  /\ Waits(g2, q) /\ Message(g2, q)' = Message(g2, q)
             /\ g2 = g /\ q = msgPos[g] => retryCnt'[g] = 1
  <2>1. CASE g2 # g
    BY <1>1, <1>4, <2>1 DEF Waits, Message
  <2>2. CASE g2 = g /\ q # msgPos[g]
    <3>1. Message(g, q)' = sendMsgs'[g][q] /\ Message(g, q) = sendMsgs[g][q]
      <4>1. ~(retryCnt'[g] = 1 /\ q = msgPos'[g]) /\ ~(retryCnt[g] = 1 /\ q = msgPos[g])
        BY <2>2
      <4>2. Message(g, q)' = sendMsgs'[g][q]
        BY <4>1 DEF Message
      <4>3. Message(g, q) = sendMsgs[g][q]
        BY <4>1 DEF Message
      <4> QED
        BY <4>2, <4>3
    <3> QED
      BY <1>1, <1>4, <2>2, <3>1 DEF Waits
  <2>3. CASE g2 = g /\ q = msgPos[g]
    <3>1. retryCnt'[g] = 1
      <4>1. SUFFICES ASSUME retryCnt'[g] # 1 PROVE FALSE
        OBVIOUS
      <4>2. Message(g, q)' = sendMsgs'[g][q]
        BY <4>1 DEF Message
      <4> QED
        BY <1>1, <1>2, <1>4, <2>3, <4>2 DEF Waits
    <3>2. Message(g, q)' = rcvMsg'[g]
      BY <2>3, <3>1 DEF Message
    <3> QED
      BY <1>1, <1>4, <2>3, <3>1, <3>2 DEF Waits
  <2> QED
    BY <2>1, <2>2, <2>3
<1> QED
  BY <1>3, <1>4

\* A Prepare ahead or behind, and a sync for a task not seen: nothing is launched.
LEMMA RejectedTurns ==
    ASSUME TypeInv, TypeInv', TurnsInv, UNCHANGED clientVars, NEW g \in Groups,
           PrepareAhead(g) \/ PrepareBehind(g) \/ GroupSyncAgain(g)
    PROVE  TurnsInv'
<1>1. PICK type \in {"prepare", "sync"} :
        /\ Process(g, type) /\ UNCHANGED commitTurnCnt
        /\ ProcessAgain(g) \/ Fail
  BY DEF PrepareAhead, PrepareBehind, GroupSyncAgain, Process
<1>2. /\ UNCHANGED <<stream, tasks, msgPos, finalizeFlag>>
      /\ server = "run" /\ server' # "exit" /\ ~finalizeFlag[g]
      /\ \A g2 \in Groups : g2 # g => retryCnt'[g2] = retryCnt[g2]
  <2>1. server = "run" /\ ~finalizeFlag[g]
    BY <1>1 DEF Process, At
  <2>2. CASE ProcessAgain(g)
    BY <2>1, <2>2 DEF ProcessAgain, TypeInv, ServerTypes
  <2>3. CASE Fail
    BY <2>1, <2>3 DEF Fail
  <2> QED
    BY <1>1, <2>1, <2>2, <2>3
<1>3. ServerSide
  BY <1>1 DEF ServerSide
<1>4. /\ HandInv'
      /\ \A g2 \in Groups, q \in Pos : Waits(g2, q)' =>
            Waits(g2, q) /\ Message(g2, q)' = Message(g2, q)
  BY <1>1, <1>2, <1>3, ProcessTurns DEF TurnsInv
<1> QED
  BY <1>2, <1>3, <1>4, ServerStill

\* A sync message is taken: its wait is put into the buffer.
LEMMA SyncTakenTurns ==
    ASSUME TypeInv, TypeInv', TurnsInv, UNCHANGED clientVars, NEW g \in Groups, GroupSync(g)
    PROVE  TurnsInv'
<1>1. Process(g, "sync") /\ Proceed(g) /\ UNCHANGED <<stream, tasks, commitTurnCnt>>
  BY DEF GroupSync, Process
<1>2. /\ UNCHANGED finalizeFlag /\ server' # "exit" /\ ~finalizeFlag[g] /\ retryCnt'[g] = 0
      /\ \A g2 \in Groups : g2 # g => /\ retryCnt'[g2] = retryCnt[g2] /\ msgPos'[g2] = msgPos[g2]
  BY <1>1 DEF Process, At, Proceed, TypeInv, ServerTypes
<1>3. ServerSide
  BY <1>1 DEF ServerSide
<1>4. /\ HandInv'
      /\ \A g2 \in Groups, q \in Pos : Waits(g2, q)' =>
            Waits(g2, q) /\ Message(g2, q)' = Message(g2, q)
  BY <1>1, <1>2, <1>3, ProcessTurns DEF TurnsInv
<1> QED
  BY <1>1, <1>3, <1>4, ServerStill

\* FINALIZE puts no turn into the stream.
LEMMA FinalizeTakenTurns ==
    ASSUME TypeInv, TypeInv', TurnsInv, UNCHANGED clientVars, NEW g \in Groups, FinalizeMsg(g)
    PROVE  TurnsInv'
<1> DEFINE r == ResetCommitTask(g)
           b == buffered[g]
           s == b \o r
<1>1. /\ Process(g, "finalize") /\ LaunchTask(g, r)
      /\ finalizeFlag' = [finalizeFlag EXCEPT ![g] = TRUE]
      /\ UNCHANGED <<server, msgPos, retryCnt, tasks, commitTurnCnt>>
  BY DEF FinalizeMsg, Process
<1>2. /\ server' # "exit" /\ retryCnt'[g] = 0
      /\ \A g2 \in Groups : g2 # g => finalizeFlag'[g2] = finalizeFlag[g2]
  <2>1. server = "run" /\ retryCnt[g] = 0
    BY <1>1, ProcessHand DEF TurnsInv
  <2> QED
    BY <1>1, <2>1 DEF TypeInv, ServerTypes
<1>3. ServerSide
  BY <1>1 DEF ServerSide
<1>4. /\ HandInv'
      /\ \A g2 \in Groups, q \in Pos : Waits(g2, q)' =>
            Waits(g2, q) /\ Message(g2, q)' = Message(g2, q)
  <2>1. Process(g, "finalize") /\ HandInv
    BY <1>1 DEF TurnsInv
  <2>2. /\ \A g2 \in Groups : g2 # g => /\ retryCnt'[g2] = retryCnt[g2] /\ msgPos'[g2] = msgPos[g2]
                                         /\ finalizeFlag'[g2] = finalizeFlag[g2]
        /\ retryCnt'[g] # 1
    BY <1>1, <1>2
  <2> QED
    BY <1>2, <1>3, <2>1, <2>2, ProcessTurns
<1>5. /\ r \in Seq(Sqe) /\ \A i \in 1 .. Len(r) : r[i].type = "waitCommit" /\ r[i].last
  <2> DEFINE e(i) == [type |-> "waitCommit", group |-> g, pos |-> i - 1, val |-> 0, last |-> TRUE,
                      task |-> 0]
  <2>1. r \in Seq(Sqe) /\ Len(r) = msgPos[g]
    BY ResetSqesType
  <2>2. \A i \in 1 .. msgPos[g] : r[i] = e(i)
    BY ResetSqesType
  <2>3. \A i : e(i).type = "waitCommit" /\ e(i).last
    OBVIOUS
  <2> HIDE DEF r, e
  <2> QED
    BY <2>1, <2>2, <2>3
<1>6. /\ b \in Seq(Sqe) /\ \A i \in 1 .. Len(b) : b[i].type = "waitFinish"
  BY DEF TypeInv, BufferOK
<1> HIDE DEF r, b
<1>7. Grown(g, s)
  BY <1>1, <1>5, LaunchTaskTypes DEF Grown, b
<1>8. \A i \in 1 .. Len(s) : ~OfTurn(s[i]) /\ s[i].type # "kernel"
  <2> SUFFICES ASSUME NEW i \in 1 .. Len(s) PROVE ~OfTurn(s[i]) /\ s[i].type # "kernel"
    OBVIOUS
  <2>1. \/ i \in 1 .. Len(b) /\ s[i] = b[i]
        \/ \E k \in 1 .. Len(r) : s[i] = r[k]
    <3>1. CASE i \in 1 .. Len(b)
      BY <1>5, <1>6, <3>1, Concat
    <3>2. CASE i - Len(b) \in 1 .. Len(r)
      <4>1. s[Len(b) + (i - Len(b))] = r[i - Len(b)]
        BY <1>5, <1>6, <3>2, Concat
      <4>2. Len(b) + (i - Len(b)) = i
        BY <1>6
      <4> QED
        BY <3>2, <4>1, <4>2
    <3> QED
      BY <1>5, <1>6, <3>1, <3>2, Concat
  <2> QED
    BY <1>5, <1>6, <2>1 DEF OfTurn
<1>9. RowsRemain /\ TurnsGo
  <2>1. TurnsGo
    BY <1>1, TurnTypes DEF TurnsGo
  <2> QED
    BY <2>1 DEF clientVars, RowsRemain, HasRow
<1>10. TurnRows' /\ Kernels'
  BY <1>7, <1>8, <1>9, TurnsGrown DEF TurnsInv
<1> QED
  BY <1>1, <1>3, <1>4, <1>10, ServerStill

\* The loop's other steps: no message is read, and none is left in the server's hand.
LEMMA LoopTurns ==
    ASSUME TypeInv, TypeInv', TurnsInv, UNCHANGED clientVars,
           \/ LoopEnds \/ KernelTimedOut \/ Relaunch
           \/ \E g \in Groups : NothingRead(g) \/ SkipGroup(g) \/ GroupDone(g)
    PROVE  TurnsInv'
<1>1. UNCHANGED <<sendMsgs, commitTurnCnt, rcvMsg, retryCnt, stream, tasks>>
  BY DEF LoopEnds, KernelTimedOut, Relaunch, NothingRead, SkipGroup, GroupDone, Unmoved, areaVars
<1>2. /\ \A g \in Groups : /\ retryCnt[g] = 1 => msgPos'[g] = msgPos[g]
                           /\ finishFlag'[g] => finalizeFlag'[g]
                           /\ finalizeFlag'[g] => finalizeFlag[g]
      /\ server' = "exit" => \A g \in Groups : finishFlag'[g]
  <2>1. CASE Relaunch
    <3>1. server = "exit" /\ server' = "run"
          /\ \A g \in Groups : ~finishFlag'[g] /\ ~finalizeFlag'[g]
      BY <2>1 DEF Relaunch, ResetServers, PerGroup
    <3>2. \A g \in Groups : retryCnt[g] = 0
      BY <3>1 DEF TurnsInv, HandInv
    <3> QED
      BY <3>1, <3>2
  <2>2. CASE \E g \in Groups : GroupDone(g)
    <3>1. PICK g \in Groups : GroupDone(g)
      BY <2>2
    <3>2. /\ UNCHANGED <<msgPos, finalizeFlag, server>> /\ server = "run" /\ finalizeFlag[g]
          /\ finishFlag' = [finishFlag EXCEPT ![g] = TRUE]
      BY <3>1 DEF GroupDone, At
    <3>3. \A g2 \in Groups : finishFlag'[g2] => g2 = g \/ finishFlag[g2]
      BY <3>2 DEF TypeInv, ServerTypes
    <3> QED
      BY <3>2, <3>3 DEF TurnsInv, HandInv
  <2>3. CASE \/ LoopEnds \/ KernelTimedOut
             \/ \E g \in Groups : NothingRead(g) \/ SkipGroup(g)
    <3>1. /\ UNCHANGED <<msgPos, finalizeFlag, finishFlag>>
          /\ server = "run"
          /\ server' = "exit" => \A g \in Groups : finishFlag[g]
      BY <2>3 DEF LoopEnds, KernelTimedOut, NothingRead, SkipGroup, Unmoved, At
    <3> QED
      BY <3>1 DEF TurnsInv, HandInv
  <2> QED
    BY <2>1, <2>2, <2>3
<1>3. HandInv'
  BY <1>1, <1>2 DEF TurnsInv, HandInv, clientVars
<1>4. \A g \in Groups, p \in Pos : Message(g, p)' = Message(g, p)
  BY <1>1, <1>2 DEF Message
<1>5. \A g \in Groups, p \in Pos : Waits(g, p)' => Waits(g, p) /\ Message(g, p)' = Message(g, p)
  BY <1>4 DEF Waits
<1> QED
  BY <1>1, <1>3, <1>5, ServerStill DEF ServerSide

\* The turns of a task: the kernel of each is the second of three entries.
LEMMA TurnNumbers ==
    /\ \A i \in Nat : i % 3 = 2 => /\ i >= 2 /\ (i - 1) % 3 = 1
                                   /\ (i - 1 + 2) \div 3 = (i + 2) \div 3
                                   /\ (i + 2) \div 3 \in Nat /\ 0 < (i + 2) \div 3
    /\ \A i, k \in Nat : i % 3 = 2 /\ k % 3 = 2 /\ k < i => (k + 2) \div 3 < (i + 2) \div 3
<1>1. ASSUME NEW i \in Nat, i % 3 = 2 PROVE \E n \in Nat : i = 3 * n + 2
  BY <1>1
<1>2. \A n \in Nat : /\ (3 * n + 2 + 2) \div 3 = n + 1 /\ (3 * n + 2 - 1 + 2) \div 3 = n + 1
                     /\ (3 * n + 2 - 1) % 3 = 1
  OBVIOUS
<1>3. ASSUME NEW i \in Nat, i % 3 = 2
      PROVE  /\ i >= 2 /\ (i - 1) % 3 = 1 /\ (i - 1 + 2) \div 3 = (i + 2) \div 3
             /\ (i + 2) \div 3 \in Nat /\ 0 < (i + 2) \div 3
  <2>1. PICK n \in Nat : i = 3 * n + 2
    BY <1>1, <1>3
  <2> QED
    BY <1>2, <2>1
<1>4. ASSUME NEW i \in Nat, NEW k \in Nat, i % 3 = 2, k % 3 = 2, k < i
      PROVE  (k + 2) \div 3 < (i + 2) \div 3
  <2>1. PICK n \in Nat : i = 3 * n + 2
    BY <1>1, <1>4
  <2>2. PICK l \in Nat : k = 3 * l + 2
    BY <1>1, <1>4
  <2>3. l < n
    BY <1>4, <2>1, <2>2
  <2> QED
    BY <1>2, <2>1, <2>2, <2>3
<1> QED
  BY <1>3, <1>4

\* The entries of a task: each kernel is behind its wait, and the turns count up.
LEMMA TurnsOrdered ==
    ASSUME NEW g \in Groups, NEW p \in Pos, NEW m \in Msg, NEW t, t = TurnSqes(g, p, m)
    PROVE  \A i \in 1 .. Len(t) :
              /\ t[i].group = g /\ t[i].pos = p /\ t[i].task = m.task
              /\ t[i].type = "kernel" =>
                    /\ 0 < t[i].val
                    /\ i - 1 \in 1 .. i - 1 /\ WaitOf(t[i - 1], t[i])
                    /\ \A k \in 1 .. i - 1 : t[k].type = "kernel" => t[k].val < t[i].val
<1> DEFINE sqe(i) ==
      [type |-> CASE i % 3 = 1 -> "waitCommit" [] i % 3 = 2 -> "kernel" [] OTHER -> "post",
       group |-> g, pos |-> p, val |-> (i + 2) \div 3, last |-> FALSE, task |-> m.task]
<1>1. Len(t) = 3 * m.repeat /\ Len(t) \in Nat
  <2>1. Len(t) = 3 * m.repeat /\ m.repeat \in Nat
    BY TurnSqesType DEF Msg
  <2> QED
    BY <2>1
<1>2. \A i \in 1 .. Len(t) : t[i] = sqe(i)
  <2>1. \A i \in 1 .. 3 * m.repeat : t[i] = sqe(i)
    BY TurnSqesType
  <2> QED
    BY <1>1, <2>1
<1>3. \A i \in Nat : /\ sqe(i).group = g /\ sqe(i).pos = p /\ sqe(i).task = m.task
                     /\ ~sqe(i).last /\ sqe(i).val = (i + 2) \div 3
  OBVIOUS
<1>4. \A i \in Nat : /\ sqe(i).type = "kernel" => i % 3 = 2
                     /\ i % 3 = 1 => sqe(i).type = "waitCommit"
  <2>1. ASSUME NEW i \in Nat PROVE i % 3 \in {0, 1, 2}
    OBVIOUS
  <2> QED
    BY <2>1
<1> HIDE DEF sqe
<1>5. ASSUME NEW i \in 1 .. Len(t), t[i].type = "kernel"
      PROVE  /\ 0 < t[i].val
             /\ i - 1 \in 1 .. i - 1 /\ WaitOf(t[i - 1], t[i])
             /\ \A k \in 1 .. i - 1 : t[k].type = "kernel" => t[k].val < t[i].val
  <2>1. i \in Nat /\ t[i] = sqe(i) /\ i % 3 = 2
    <3>1. i \in Nat /\ t[i] = sqe(i)
      BY <1>1, <1>2
    <3> QED
      BY <1>4, <1>5, <3>1
  <2>2. /\ i >= 2 /\ (i - 1) % 3 = 1 /\ (i - 1 + 2) \div 3 = (i + 2) \div 3
        /\ 0 < (i + 2) \div 3
    BY <2>1, TurnNumbers
  <2>3. i - 1 \in Nat /\ i - 1 \in 1 .. i - 1 /\ i - 1 \in 1 .. Len(t)
    BY <1>1, <2>1, <2>2
  <2>4. t[i - 1] = sqe(i - 1) /\ sqe(i - 1).type = "waitCommit"
    BY <1>2, <1>4, <2>2, <2>3
  <2>5. WaitOf(t[i - 1], t[i])
    BY <1>3, <2>1, <2>2, <2>3, <2>4 DEF WaitOf
  <2>6. ASSUME NEW k \in 1 .. i - 1, t[k].type = "kernel" PROVE t[k].val < t[i].val
    <3>1. k \in Nat /\ k < i /\ k \in 1 .. Len(t)
      BY <1>1, <2>1
    <3>2. t[k] = sqe(k) /\ k % 3 = 2
      BY <1>2, <1>4, <2>6, <3>1
    <3>3. (k + 2) \div 3 < (i + 2) \div 3
      BY <2>1, <3>1, <3>2, TurnNumbers
    <3> QED
      BY <1>3, <2>1, <3>1, <3>2, <3>3
  <2>7. 0 < t[i].val
    BY <1>3, <2>1, <2>2
  <2> QED
    BY <2>3, <2>5, <2>6, <2>7
<1>6. \A i \in 1 .. Len(t) : t[i].group = g /\ t[i].pos = p /\ t[i].task = m.task
  <2> SUFFICES ASSUME NEW i \in 1 .. Len(t) PROVE t[i].group = g /\ t[i].pos = p /\ t[i].task = m.task
    OBVIOUS
  <2>1. i \in Nat /\ t[i] = sqe(i)
    BY <1>1, <1>2
  <2> QED
    BY <1>3, <2>1
<1> QED
  BY <1>5, <1>6

\* Where the entry before the k-th of a launch is, behind n others.
LEMMA EntryBefore ==
    ASSUME NEW n \in Nat, NEW l \in Nat, NEW k \in 1 .. l, k - 1 \in 1 .. k - 1
    PROVE  /\ k - 1 \in 1 .. l /\ (n + k) - 1 = n + (k - 1)
           /\ (n + k) - 1 \in 1 .. (n + k) - 1
OBVIOUS

\* A task is launched: its entries are put behind those of launched tasks.
LEMMA PrepareTakenTurns ==
    ASSUME TypeInv, TypeInv', TurnsInv, UNCHANGED clientVars, NEW g \in Groups, PrepareTask(g)
    PROVE  TurnsInv'
<1>0. SUFFICES ASSUME NEW p, p = msgPos[g], NEW m, m = Message(g, p), NEW t, t = TurnSqes(g, p, m),
                    NEW b, b = buffered[g], NEW s, s = b \o t
             PROVE  TurnsInv'
  OBVIOUS
<1>1. /\ Process(g, "prepare") /\ Proceed(g) /\ UNCHANGED commitTurnCnt
      /\ LaunchTask(g, TurnSqes(g, p, SlotNow(g)))
      /\ tasks' = [tasks EXCEPT ![SlotNow(g).task].launched = TRUE]
  BY <1>0 DEF PrepareTask, Process
<1>2. /\ p \in Pos /\ m = SlotNow(g) /\ m \in Msg /\ m.type = "prepare"
      /\ server = "run" /\ ~finalizeFlag[g]
  <2>1. /\ p \in Pos /\ m = SlotNow(g) /\ m.type = "prepare" /\ server = "run" /\ ~finalizeFlag[g]
    BY <1>0, <1>1, ProcessHand DEF TurnsInv
  <2> QED
    BY <2>1, SlotNowType
<1>3. /\ HasRow(g, p, m.task) /\ m.task \in 1 .. Len(tasks) /\ ~tasks[m.task].launched
      /\ tasks[m.task].executed = 0
  <2>1. HasRow(g, p, m.task) /\ ~tasks[m.task].launched
    BY <1>0, <1>2 DEF TurnsInv, Unlaunched, Waits
  <2>2. m.task \in 1 .. Len(tasks)
    BY <2>1, RowTask
  <2> QED
    BY <2>1, <2>2 DEF TurnsInv, NotYetRun
<1>4. /\ Len(tasks') = Len(tasks) /\ tasks'[m.task].launched
      /\ \A i \in 1 .. Len(tasks) : /\ i # m.task => tasks'[i].launched = tasks[i].launched
                                    /\ tasks'[i].repeat = tasks[i].repeat
                                    /\ tasks'[i].committed = tasks[i].committed
                                    /\ tasks'[i].executed = tasks[i].executed
  <2>1. tasks' = [tasks EXCEPT ![m.task].launched = TRUE] /\ tasks \in Seq(Task)
    BY <1>1, <1>2 DEF TypeInv
  <2>2. \A i \in 1 .. Len(tasks) : tasks[i] \in Task
    BY <2>1
  <2>3. /\ Len(tasks') = Len(tasks)
        /\ \A i \in 1 .. Len(tasks) : i # m.task => tasks'[i] = tasks[i]
    BY <1>3, <2>1
  <2>4. tasks'[m.task] = [tasks[m.task] EXCEPT !.launched = TRUE] /\ tasks[m.task] \in Task
    <3>1. m.task \in DOMAIN tasks
      BY <1>3, <2>1
    <3> QED
      BY <1>3, <2>1, <2>2, <3>1
  <2>5. /\ tasks'[m.task].launched /\ tasks'[m.task].repeat = tasks[m.task].repeat
        /\ tasks'[m.task].committed = tasks[m.task].committed
        /\ tasks'[m.task].executed = tasks[m.task].executed
    BY <2>4 DEF Task
  <2> QED
    BY <2>3, <2>5
<1>5. ServerSide /\ UNCHANGED handles
  BY <1>1 DEF ServerSide, clientVars
<1>6. /\ retryCnt'[g] = 0 /\ UNCHANGED <<server, finalizeFlag>>
      /\ \A g2 \in Groups : g2 # g => retryCnt'[g2] = retryCnt[g2] /\ msgPos'[g2] = msgPos[g2]
  BY <1>1 DEF Proceed, TypeInv, ServerTypes
<1>7. /\ HandInv'
      /\ \A g2 \in Groups, q \in Pos : Waits(g2, q)' =>
            /\ Waits(g2, q) /\ Message(g2, q)' = Message(g2, q)
            /\ g2 # g \/ q # p
  <2>1. HandInv /\ server' # "exit" /\ retryCnt'[g] # 1
    BY <1>2, <1>6 DEF TurnsInv
  <2>2. /\ HandInv'
        /\ \A g2 \in Groups, q \in Pos : Waits(g2, q)' =>
              /\ Waits(g2, q) /\ Message(g2, q)' = Message(g2, q)
              /\ g2 = g /\ q = msgPos[g] => retryCnt'[g] = 1
    BY <1>1, <1>2, <1>5, <1>6, <2>1, ProcessTurns
  <2> QED
    BY <1>0, <2>1, <2>2
<1>8. RowPlaces' /\ RowCommits'
  BY <1>4, <1>5, RowsServed DEF TurnsInv, ServerSide, clientVars
<1>9. RowsRemain /\ TurnsGo
  <2>1. TurnsGo
    BY <1>3, <1>4, TurnTypes DEF TurnsGo
  <2> QED
    BY <1>5, <2>1 DEF RowsRemain, HasRow
<1>10. Unlaunched'
  <2> SUFFICES ASSUME NEW g2 \in Groups, NEW q \in Pos, Waits(g2, q)'
               PROVE  (HasRow(g2, q, Message(g2, q).task) /\ ~tasks[Message(g2, q).task].launched)'
    BY DEF Unlaunched
  <2>1. /\ Waits(g2, q) /\ Message(g2, q)' = Message(g2, q) /\ (g2 # g \/ q # p)
    BY <1>7
  <2>2. PICK x : x = Message(g2, q).task
    OBVIOUS
  <2>3. /\ HasRow(g2, q, x) /\ ~tasks[x].launched /\ x \in 1 .. Len(tasks)
    BY <2>1, <2>2, RowTask DEF TurnsInv, Unlaunched
  <2>4. x # m.task
    <3>1. PICK i \in 1 .. Len(handles[g]) : handles[g][i].pos = p /\ handles[g][i].task = m.task
      BY <1>3 DEF HasRow
    <3>2. PICK j \in 1 .. Len(handles[g2]) : handles[g2][j].pos = q /\ handles[g2][j].task = x
      BY <2>3 DEF HasRow
    <3> QED
      BY <2>1, <3>1, <3>2 DEF TurnsInv, RowPlaces
  <2>5. HasRow(g2, q, x)' /\ ~tasks'[x].launched
    BY <1>4, <1>9, <2>3, <2>4 DEF RowsRemain
  <2>6. (Message(g2, q).task)' = x
    BY <2>1, <2>2
  <2> QED
    BY <2>5, <2>6
<1>11. /\ t \in Seq(Sqe) /\ b \in Seq(Sqe) /\ Len(b) \in Nat /\ Len(t) \in Nat
       /\ \A i \in 1 .. Len(b) : b[i].type = "waitFinish"
  <2>1. t \in Seq(Sqe)
    BY <1>0, <1>2, TurnSqesType
  <2>2. b \in Seq(Sqe) /\ \A i \in 1 .. Len(b) : b[i].type = "waitFinish"
    BY <1>0 DEF TypeInv, BufferOK
  <2> QED
    BY <2>1, <2>2
<1>12. Grown(g, s)
  <2>1. LaunchTask(g, t)
    BY <1>0, <1>1, <1>2
  <2> QED
    BY <1>0, <1>11, <2>1, LaunchTaskTypes DEF Grown
<1>13. \A i \in 1 .. Len(t) :
          /\ t[i].group = g /\ t[i].pos = p /\ t[i].task = m.task
          /\ t[i].type = "kernel" =>
                /\ 0 < t[i].val
                /\ i - 1 \in 1 .. i - 1 /\ WaitOf(t[i - 1], t[i])
                /\ \A k \in 1 .. i - 1 : t[k].type = "kernel" => t[k].val < t[i].val
  BY <1>0, <1>2, TurnsOrdered
<1>14. /\ \A i \in 1 .. Len(b) : s[i] = b[i]
       /\ \A i \in 1 .. Len(t) : s[Len(b) + i] = t[i]
       /\ \A i \in 1 .. Len(s) : i \in 1 .. Len(b) \/ i - Len(b) \in 1 .. Len(t)
       /\ Len(s) = Len(b) + Len(t)
  <2>1. s = b \o t
    BY <1>0
  <2>2. b \in Seq(Sqe) /\ t \in Seq(Sqe)
    BY <1>11
  <2> QED
    BY <2>1, <2>2, Concat
<1>15. ASSUME NEW i \in 1 .. Len(s), OfTurn(s[i])
       PROVE  i - Len(b) \in 1 .. Len(t) /\ s[i] = t[i - Len(b)]
  <2>1. i \notin 1 .. Len(b)
    BY <1>11, <1>14, <1>15 DEF OfTurn
  <2>2. i - Len(b) \in 1 .. Len(t) /\ Len(b) + (i - Len(b)) = i
    BY <1>11, <1>14, <2>1
  <2> QED
    BY <1>14, <2>2
<1>16. \A i \in 1 .. Len(s) : OfTurn(s[i]) =>
          s[i].group = g /\ HasRow(g, s[i].pos, s[i].task)' /\ tasks'[s[i].task].launched
  <2>1. HasRow(g, p, m.task)'
    BY <1>3, <1>9 DEF RowsRemain
  <2>2. ASSUME NEW i \in 1 .. Len(s), OfTurn(s[i])
        PROVE  s[i].group = g /\ s[i].pos = p /\ s[i].task = m.task
    BY <1>13, <1>15, <2>2
  <2>3. ASSUME NEW e, e.pos = p, e.task = m.task
        PROVE  HasRow(g, e.pos, e.task)' /\ tasks'[e.task].launched
    BY <1>4, <2>1, <2>3 DEF HasRow
  <2> QED
    BY <2>2, <2>3
<1>17. ASSUME NEW i \in 1 .. Len(s), s[i].type = "kernel" PROVE KernelAfter(g, s, i)
  <2>1. PICK k \in 1 .. Len(t) : k = i - Len(b) /\ s[i] = t[k]
    BY <1>15, <1>17 DEF OfTurn
  <2>2. k \in Nat /\ i \in Nat /\ i = Len(b) + k
    BY <1>11, <1>14, <2>1
  <2>3. /\ t[k].task = m.task /\ 0 < t[k].val
        /\ k - 1 \in 1 .. k - 1 /\ WaitOf(t[k - 1], t[k])
        /\ \A l \in 1 .. k - 1 : t[l].type = "kernel" => t[l].val < t[k].val
    BY <1>13, <1>17, <2>1
  <2>4. tasks'[s[i].task].executed < s[i].val
    BY <1>3, <1>4, <2>1, <2>3
  <2>5. i - 1 \in 1 .. i - 1 /\ WaitOf(s[i - 1], s[i])
    <3>1. k - 1 \in 1 .. Len(t) /\ i - 1 = Len(b) + (k - 1) /\ i - 1 \in 1 .. i - 1
      <4>1. Len(b) \in Nat /\ Len(t) \in Nat /\ k - 1 \in 1 .. k - 1
        BY <1>11, <2>3
      <4>2. /\ k - 1 \in 1 .. Len(t) /\ (Len(b) + k) - 1 = Len(b) + (k - 1)
            /\ (Len(b) + k) - 1 \in 1 .. (Len(b) + k) - 1
        BY <4>1, EntryBefore
      <4> QED
        BY <2>2, <4>2
    <3>2. s[i - 1] = t[k - 1]
      BY <1>14, <3>1
    <3> QED
      BY <2>1, <2>3, <3>1, <3>2
  <2>6. ASSUME NEW l \in 1 .. i - 1, s[l].type = "kernel" PROVE s[l].val < s[i].val
    <3>1. l \in 1 .. Len(s)
      BY <1>11, <1>14, <2>2
    <3>2. l - Len(b) \in 1 .. Len(t) /\ s[l] = t[l - Len(b)]
      BY <1>15, <2>6, <3>1 DEF OfTurn
    <3>3. l - Len(b) \in 1 .. k - 1
      BY <1>11, <2>2, <3>2
    <3> QED
      BY <2>1, <2>3, <2>6, <3>2, <3>3
  <2>7. ASSUME NEW j \in 1 .. Len(stream[g]), stream[g][j].type = "kernel"
        PROVE  stream[g][j].task # s[i].task
    <3>1. tasks[stream[g][j].task].launched
      BY <2>7 DEF TurnsInv, TurnRows, TurnRow, OfTurn
    <3> QED
      BY <1>3, <2>1, <2>3, <3>1
  <2> QED
    BY <2>4, <2>5, <2>6, <2>7 DEF KernelAfter
<1>18. TurnRows' /\ Kernels'
  BY <1>9, <1>12, <1>16, <1>17, TurnsGrown DEF TurnsInv
<1>19. NotYetRun' /\ ExecutedIsCommitted'
  <2>1. DOMAIN tasks = 1 .. Len(tasks) /\ DOMAIN tasks' = 1 .. Len(tasks')
    BY DEF TypeInv
  <2>2. NotYetRun'
    BY <1>4 DEF TurnsInv, NotYetRun
  <2>3. ExecutedIsCommitted'
    BY <1>4, <2>1 DEF TurnsInv, ExecutedIsCommitted
  <2> QED
    BY <2>2, <2>3
<1> QED
  BY <1>7, <1>8, <1>10, <1>18, <1>19 DEF TurnsInv

\* Every step of the server keeps what is known of the turns.
LEMMA ServerTurns == ASSUME TypeInv, TypeInv', TurnsInv, ServerStep PROVE TurnsInv'
<1>1. /\ UNCHANGED clientVars
      /\ \/ LoopEnds \/ KernelTimedOut \/ Relaunch
         \/ \E g \in Groups : LoopProcess(g)
  BY DEF ServerStep, ServerNext, KernelTimedOut
<1>2. CASE \E g \in Groups : PrepareTask(g)
  BY <1>1, <1>2, PrepareTakenTurns
<1>3. CASE \E g \in Groups : PrepareAhead(g) \/ PrepareBehind(g) \/ GroupSyncAgain(g)
  BY <1>1, <1>3, RejectedTurns
<1>4. CASE \E g \in Groups : GroupSync(g)
  BY <1>1, <1>4, SyncTakenTurns
<1>5. CASE \E g \in Groups : FinalizeMsg(g)
  BY <1>1, <1>5, FinalizeTakenTurns
<1>6. CASE \/ LoopEnds \/ KernelTimedOut \/ Relaunch
           \/ \E g \in Groups : NothingRead(g) \/ SkipGroup(g) \/ GroupDone(g)
  BY <1>1, <1>6, LoopTurns
<1> QED
  BY <1>1, <1>2, <1>3, <1>4, <1>5, <1>6 DEF LoopProcess

----------------------------------------------------------------------------
(* The turns, and the streams.                                              *)

\* The head of a stream leaves it, and only it.
LEMMA TailFacts ==
    ASSUME TypeInv, NEW g \in Groups, DeviceStep(g), NEW e, e = Head(stream[g])
    PROVE  /\ e \in Sqe /\ Len(stream[g]) \in Nat /\ Len(stream[g]) > 0 /\ e = stream[g][1]
           /\ Len(stream'[g]) = Len(stream[g]) - 1
           /\ \A j \in 1 .. Len(stream'[g]) : /\ j + 1 \in 1 .. Len(stream[g])
                                              /\ stream'[g][j] = stream[g][j + 1]
           /\ \A g2 \in Groups : g2 # g => stream'[g2] = stream[g2]
           /\ UNCHANGED <<sendMsgs, clientVars, serverVars, buffered>>
<1>1. /\ stream[g] # <<>> /\ stream' = [stream EXCEPT ![g] = Tail(@)]
      /\ UNCHANGED <<sendMsgs, clientVars, serverVars, buffered>>
  BY DEF DeviceStep, StreamNext, WaitCommit, WaitFinish, RunKernel, PostFinish, Execute
<1>2. stream[g] \in Seq(Sqe) /\ Len(stream[g]) \in Nat /\ Len(stream[g]) > 0
  <2>1. stream[g] \in Seq(Sqe)
    BY DEF TypeInv
  <2> QED
    BY <1>1, <2>1
<1>3. /\ e \in Sqe /\ e = stream[g][1]
      /\ Len(Tail(stream[g])) = Len(stream[g]) - 1
      /\ \A j \in 1 .. Len(stream[g]) - 1 : Tail(stream[g])[j] = stream[g][j + 1]
  BY <1>1, <1>2
<1>4. stream'[g] = Tail(stream[g]) /\ \A g2 \in Groups : g2 # g => stream'[g2] = stream[g2]
  BY <1>1 DEF TypeInv
<1>5. \A j \in 1 .. Len(stream[g]) - 1 : j + 1 \in 1 .. Len(stream[g])
  BY <1>2
<1> QED
  BY <1>1, <1>2, <1>3, <1>4, <1>5

\* The tasks a step of a stream leaves: only a kernel runs a turn, of its task.
LEMMA TurnRun ==
    ASSUME TypeInv, NEW g \in Groups, DeviceStep(g), NEW e, e = Head(stream[g])
    PROVE  /\ Len(tasks') = Len(tasks)
           /\ \A t \in 1 .. Len(tasks) :
                /\ tasks'[t].launched = tasks[t].launched /\ tasks'[t].repeat = tasks[t].repeat
                /\ tasks'[t].committed = tasks[t].committed
                /\ \/ tasks'[t].executed = tasks[t].executed
                   \/ e.type = "kernel" /\ t = e.task /\ tasks'[t].executed = tasks[t].executed + 1
<1>1. CASE RunKernel(g)
  <2>1. e.type = "kernel" /\ tasks' = [tasks EXCEPT ![e.task].executed = @ + 1]
    BY <1>1 DEF RunKernel, Execute
  <2>2. tasks \in Seq(Task) /\ \A t \in 1 .. Len(tasks) : tasks[t] \in Task
    BY DEF TypeInv
  <2>3. /\ Len(tasks') = Len(tasks)
        /\ \A t \in 1 .. Len(tasks) : t # e.task => tasks'[t] = tasks[t]
    BY <2>1, <2>2
  <2>4. ASSUME NEW t \in 1 .. Len(tasks), t = e.task
        PROVE  /\ tasks'[t].launched = tasks[t].launched /\ tasks'[t].repeat = tasks[t].repeat
               /\ tasks'[t].committed = tasks[t].committed
               /\ tasks'[t].executed = tasks[t].executed + 1
    <3>1. tasks'[t] = [tasks[t] EXCEPT !.executed = @ + 1] /\ tasks[t] \in Task
      BY <2>1, <2>2, <2>4
    <3> QED
      BY <3>1 DEF Task
  <2> QED
    BY <2>1, <2>3, <2>4
<1>2. CASE UNCHANGED tasks
  BY <1>2
<1> QED
  BY <1>1, <1>2 DEF DeviceStep, StreamNext, WaitCommit, WaitFinish, PostFinish

\* A wait for a turn that is over was for a turn that is committed.
LEMMA WaitedCommitted ==
    ASSUME TypeInv, RowCommits, TurnRows, NEW g \in Groups, DeviceStep(g), NEW e, e = Head(stream[g]),
           e.type = "waitCommit", ~e.last
    PROVE  e.val <= tasks[e.task].committed
<1>1. e \in Sqe /\ e = stream[g][1] /\ 1 \in 1 .. Len(stream[g])
  BY TailFacts
<1>2. WaitCommit(g)
  BY DEF DeviceStep, StreamNext, WaitFinish, RunKernel, PostFinish, Execute
<1>3. LoadHalf(commitTurnCnt[e.group][e.pos]) >= e.val
  BY <1>2 DEF WaitCommit, CounterReached
<1>4. e.group = g /\ HasRow(g, e.pos, e.task)
  BY <1>1 DEF TurnRows, TurnRow, OfTurn
<1>5. PICK i \in 1 .. Len(handles[g]) : handles[g][i].pos = e.pos /\ handles[g][i].task = e.task
  BY <1>4 DEF HasRow
<1>6. commitTurnCnt[g][e.pos] <= tasks[e.task].committed
  BY <1>5 DEF RowCommits, RowCommit
<1>7. /\ e.val \in Nat /\ commitTurnCnt[g][e.pos] \in Nat /\ tasks[e.task].committed \in Nat
  <2>1. e.task \in 1 .. Len(tasks) /\ e.pos \in Pos
    BY <1>5, Rows
  <2> QED
    BY <1>1, <2>1, TurnTypes DEF Sqe
<1>8. \A c, v \in Nat : c % 65536 >= v => v <= c
  OBVIOUS
<1>9. e.val <= commitTurnCnt[g][e.pos]
  <2>1. commitTurnCnt[g][e.pos] % 65536 >= e.val
    BY <1>3, <1>4 DEF LoadHalf, Half
  <2> QED
    BY <1>7, <1>8, <2>1
<1> QED
  BY <1>6, <1>7, <1>9

\* A kernel at the head of its stream is of a committed turn, not yet run.
LEMMA HeadKernel ==
    ASSUME TypeInv, TurnRows, Kernels, NEW g \in Groups, DeviceStep(g), NEW e, e = Head(stream[g]),
           e.type = "kernel"
    PROVE  /\ e.task \in 1 .. Len(tasks) /\ e.val \in Nat
           /\ HasRow(g, e.pos, e.task) /\ tasks[e.task].launched
           /\ tasks[e.task].executed < e.val /\ e.val <= tasks[e.task].committed
<1>1. e \in Sqe /\ e = stream[g][1] /\ 1 \in 1 .. Len(stream[g])
  BY TailFacts
<1>2. HasRow(g, e.pos, e.task) /\ tasks[e.task].launched
  BY <1>1 DEF TurnRows, TurnRow, OfTurn
<1>3. Kernel(stream[g], 1)
  BY <1>1 DEF Kernels
<1>4. /\ tasks[e.task].executed < e.val
      /\ e.val <= tasks[e.task].committed \/ \E i \in 1 .. 1 - 1 : WaitOf(stream[g][i], e)
  BY <1>1, <1>3 DEF Kernel
<1> QED
  BY <1>1, <1>2, <1>4, RowTask DEF Sqe

\* Counts only fall: a wait of FINALIZE clears one.
LEMMA CountsFall ==
    ASSUME TypeInv, NEW g \in Groups, DeviceStep(g), NEW g2 \in Groups, NEW p \in Pos
    PROVE  /\ commitTurnCnt[g2][p] \in Nat /\ commitTurnCnt'[g2][p] \in Nat
           /\ commitTurnCnt'[g2][p] <= commitTurnCnt[g2][p]
<1>1. commitTurnCnt[g2][p] \in Nat
  BY TurnTypes
<1>2. CASE UNCHANGED commitTurnCnt
  BY <1>1, <1>2
<1>3. CASE WaitCommit(g)
  <2> DEFINE e == Head(stream[g])
  <2>1. commitTurnCnt' = [commitTurnCnt EXCEPT ![e.group][e.pos] = CounterAfter(@, e)]
    BY <1>3 DEF WaitCommit
  <2>2. \A c \in Nat : (c - (c % 65536)) + 0 \in Nat /\ (c - (c % 65536)) + 0 <= c
    OBVIOUS
  <2>3. \A c \in Nat : CounterAfter(c, e) \in Nat /\ CounterAfter(c, e) <= c
    BY <2>2 DEF CounterAfter, StoreHalf, LoadHalf, Half
  <2>4. \/ commitTurnCnt'[g2][p] = commitTurnCnt[g2][p]
        \/ commitTurnCnt'[g2][p] = CounterAfter(commitTurnCnt[g2][p], e)
    <3> HIDE DEF e
    <3> QED
      BY <2>1 DEF TypeInv, AreaTypes
  <2> QED
    BY <1>1, <2>3, <2>4
<1> QED
  BY <1>2, <1>3 DEF DeviceStep, StreamNext, WaitFinish, RunKernel, PostFinish

\* What is known of the kernels stays when the head of a stream is executed.
LEMMA KernelsExecuted ==
    ASSUME TypeInv, TurnsInv, NEW g \in Groups, DeviceStep(g) PROVE Kernels'
<1> DEFINE e == Head(stream[g])
<1>1. /\ e = stream[g][1] /\ Len(stream[g]) \in Nat /\ 1 \in 1 .. Len(stream[g])
      /\ Len(stream'[g]) = Len(stream[g]) - 1
      /\ \A j \in 1 .. Len(stream'[g]) : /\ j + 1 \in 1 .. Len(stream[g])
                                         /\ stream'[g][j] = stream[g][j + 1]
      /\ \A g2 \in Groups : g2 # g => stream'[g2] = stream[g2]
  BY TailFacts
<1>2. \A t \in 1 .. Len(tasks) :
        /\ tasks'[t].committed = tasks[t].committed
        /\ \/ tasks'[t].executed = tasks[t].executed
           \/ e.type = "kernel" /\ t = e.task /\ tasks'[t].executed = tasks[t].executed + 1
  BY TurnRun
<1>3. e.type = "kernel" => HasRow(g, e.pos, e.task) /\ e.val \in Nat /\ tasks[e.task].executed < e.val
  BY HeadKernel DEF TurnsInv
<1>4. e.type = "waitCommit" /\ ~e.last => e.val <= tasks[e.task].committed
  BY WaitedCommitted DEF TurnsInv
<1> HIDE DEF e
<1>5. ASSUME NEW g2 \in Groups, NEW j \in 1 .. Len(stream[g2]), stream[g2][j].type = "kernel"
      PROVE  /\ Kernel(stream[g2], j) /\ stream[g2][j].val \in Nat
             /\ HasRow(g2, stream[g2][j].pos, stream[g2][j].task)
             /\ stream[g2][j].task \in 1 .. Len(tasks)
             /\ tasks[stream[g2][j].task].executed \in Nat
  <2>1. Kernel(stream[g2], j) /\ HasRow(g2, stream[g2][j].pos, stream[g2][j].task)
    BY <1>5 DEF TurnsInv, Kernels, TurnRows, TurnRow, OfTurn
  <2>2. stream[g2][j].task \in 1 .. Len(tasks)
    BY <2>1, RowTask
  <2> QED
    BY <2>1, <2>2, Entries, TurnTypes DEF Sqe
<1>6. ASSUME NEW j \in 1 .. Len(stream'[g]), stream'[g][j].type = "kernel"
      PROVE  Kernel(stream[g], j)'
  <2> DEFINE k == stream[g][j + 1]
  <2>1. /\ j + 1 \in 1 .. Len(stream[g]) /\ stream'[g][j] = k /\ j \in Nat /\ j >= 1
    BY <1>1
  <2>2. /\ tasks[k.task].executed < k.val
        /\ k.val <= tasks[k.task].committed \/ \E i \in 1 .. j + 1 - 1 : WaitOf(stream[g][i], k)
        /\ \A i \in 1 .. j + 1 - 1 :
              stream[g][i].type = "kernel" /\ stream[g][i].task = k.task => stream[g][i].val < k.val
    <3>1. Kernel(stream[g], j + 1)
      BY <1>5, <1>6, <2>1
    <3> QED
      BY <3>1 DEF Kernel
  <2>3. k.task \in 1 .. Len(tasks) /\ k.val \in Nat /\ tasks[k.task].executed \in Nat
    BY <1>5, <1>6, <2>1
  <2>4. \A i \in 1 .. j - 1 : stream'[g][i] = stream[g][i + 1] /\ i + 1 \in 1 .. j + 1 - 1
    <3>1. ASSUME NEW i \in 1 .. j - 1 PROVE i \in 1 .. Len(stream'[g]) /\ i + 1 \in 1 .. j + 1 - 1
      BY <1>1, <2>1
    <3> QED
      BY <1>1, <3>1
  <2> HIDE DEF k
  <2>5. tasks'[k.task].executed < k.val
    <3>1. CASE tasks'[k.task].executed = tasks[k.task].executed
      BY <2>2, <3>1
    <3>2. CASE /\ e.type = "kernel" /\ k.task = e.task
               /\ tasks'[k.task].executed = tasks[k.task].executed + 1
      <4>1. 1 \in 1 .. j + 1 - 1
        BY <2>1
      <4>2. e.val < k.val
        BY <1>1, <2>2, <3>2, <4>1
      <4> QED
        BY <1>3, <2>3, <3>2, <4>2
    <3> QED
      BY <1>2, <2>3, <3>1, <3>2
  <2>6. k.val <= tasks'[k.task].committed \/ \E i \in 1 .. j - 1 : WaitOf(stream'[g][i], k)
    <3>1. CASE k.val <= tasks[k.task].committed
      BY <1>2, <2>3, <3>1
    <3>2. ASSUME NEW i \in 1 .. j + 1 - 1, WaitOf(stream[g][i], k)
          PROVE  k.val <= tasks'[k.task].committed \/ \E l \in 1 .. j - 1 : WaitOf(stream'[g][l], k)
      <4>1. CASE i = 1
        <5>1. k.val <= tasks[k.task].committed
          BY <1>1, <1>4, <3>2, <4>1 DEF WaitOf
        <5> QED
          BY <1>2, <2>3, <5>1
      <4>2. CASE i # 1
        <5>1. i - 1 \in 1 .. j - 1 /\ i - 1 + 1 = i
          BY <2>1, <4>2
        <5>2. stream'[g][i - 1] = stream[g][i]
          BY <2>4, <5>1
        <5> QED
          BY <3>2, <5>1, <5>2
      <4> QED
        BY <4>1, <4>2
    <3> QED
      BY <2>2, <3>1, <3>2
  <2>7. \A i \in 1 .. j - 1 : stream'[g][i].type = "kernel" /\ stream'[g][i].task = k.task
                                => stream'[g][i].val < k.val
    BY <2>2, <2>4
  <2> QED
    BY <2>1, <2>5, <2>6, <2>7 DEF Kernel, WaitOf
<1>7. ASSUME NEW g2 \in Groups, g2 # g, NEW j \in 1 .. Len(stream[g2]), stream[g2][j].type = "kernel"
      PROVE  Kernel(stream[g2], j)'
  <2>1. /\ Kernel(stream[g2], j) /\ stream[g2][j].task \in 1 .. Len(tasks)
        /\ HasRow(g2, stream[g2][j].pos, stream[g2][j].task)
    BY <1>5, <1>7
  <2>2. e.type = "kernel" => stream[g2][j].task # e.task
    <3> SUFFICES ASSUME e.type = "kernel" PROVE stream[g2][j].task # e.task
      OBVIOUS
    <3>1. PICK i \in 1 .. Len(handles[g]) : handles[g][i].task = e.task
      BY <1>3 DEF HasRow
    <3>2. PICK k \in 1 .. Len(handles[g2]) : handles[g2][k].task = stream[g2][j].task
      BY <2>1 DEF HasRow
    <3> QED
      BY <1>7, <3>1, <3>2 DEF TurnsInv, RowPlaces
  <2>3. /\ tasks'[stream[g2][j].task].executed = tasks[stream[g2][j].task].executed
        /\ tasks'[stream[g2][j].task].committed = tasks[stream[g2][j].task].committed
    BY <1>2, <2>1, <2>2
  <2>4. stream'[g2] = stream[g2]
    BY <1>1, <1>7
  <2> QED
    BY <2>1, <2>3, <2>4 DEF Kernel, WaitOf
<1>8. ASSUME NEW g2 \in Groups, NEW j \in 1 .. Len(stream'[g2]), stream'[g2][j].type = "kernel"
      PROVE  Kernel(stream[g2], j)'
  <2>1. CASE g2 = g
    BY <1>6, <1>8, <2>1
  <2>2. CASE g2 # g
    BY <1>1, <1>7, <1>8, <2>2
  <2> QED
    BY <2>1, <2>2
<1> QED
  BY <1>8 DEF Kernels

\* A step of a stream keeps what is known of the turns.
LEMMA StreamTurns ==
    ASSUME TypeInv, TypeInv', TurnsInv, NEW g \in Groups, DeviceStep(g) PROVE TurnsInv'
<1> DEFINE e == Head(stream[g])
<1>1. /\ e = stream[g][1] /\ Len(stream[g]) \in Nat /\ 1 \in 1 .. Len(stream[g])
      /\ \A j \in 1 .. Len(stream'[g]) : /\ j + 1 \in 1 .. Len(stream[g])
                                         /\ stream'[g][j] = stream[g][j + 1]
      /\ \A g2 \in Groups : g2 # g => stream'[g2] = stream[g2]
  BY TailFacts
<1>2. UNCHANGED <<sendMsgs, handles, curMsgPosition, server, retryCnt, rcvMsg, msgPos, finishFlag,
                  finalizeFlag>>
  BY TailFacts DEF clientVars, serverVars
<1>3. /\ Len(tasks') = Len(tasks)
      /\ \A t \in 1 .. Len(tasks) :
            /\ tasks'[t].launched = tasks[t].launched /\ tasks'[t].repeat = tasks[t].repeat
            /\ tasks'[t].committed = tasks[t].committed
            /\ \/ tasks'[t].executed = tasks[t].executed
               \/ e.type = "kernel" /\ t = e.task /\ tasks'[t].executed = tasks[t].executed + 1
  BY TurnRun
<1>4. e.type = "kernel" =>
        /\ e.task \in 1 .. Len(tasks) /\ e.val \in Nat /\ tasks[e.task].launched
        /\ tasks[e.task].executed < e.val /\ e.val <= tasks[e.task].committed
  BY HeadKernel DEF TurnsInv
<1> HIDE DEF e
<1>5. RowPlaces'
  BY <1>2 DEF TurnsInv, RowPlaces
<1>6. RowCommits'
  <2>1. ASSUME NEW g2 \in Groups, NEW i \in 1 .. Len(handles[g2])
        PROVE  RowCommit(g2, handles[g2][i], tasks[handles[g2][i].task])'
    <3>1. handles[g2][i].task \in 1 .. Len(tasks) /\ handles[g2][i].pos \in Pos
      BY Rows
    <3>2. RowCommit(g2, handles[g2][i], tasks[handles[g2][i].task])
      BY DEF TurnsInv, RowCommits
    <3>3. /\ commitTurnCnt[g2][handles[g2][i].pos] \in Nat /\ commitTurnCnt'[g2][handles[g2][i].pos] \in Nat
          /\ commitTurnCnt'[g2][handles[g2][i].pos] <= commitTurnCnt[g2][handles[g2][i].pos]
          /\ tasks[handles[g2][i].task].committed \in Nat
      BY <3>1, CountsFall, TurnTypes
    <3>4. /\ tasks'[handles[g2][i].task].committed = tasks[handles[g2][i].task].committed
          /\ tasks'[handles[g2][i].task].repeat = tasks[handles[g2][i].task].repeat
      BY <1>3, <3>1
    <3> QED
      BY <1>2, <3>2, <3>3, <3>4 DEF RowCommit
  <2>2. ASSUME NEW g2 \in Groups, NEW p \in Pos, p >= curMsgPosition[g2]
        PROVE  commitTurnCnt'[g2][p] = 0
    <3>1. commitTurnCnt[g2][p] = 0
      BY <2>2 DEF TurnsInv, RowCommits
    <3> QED
      BY <3>1, CountsFall
  <2> QED
    BY <1>2, <2>1, <2>2 DEF RowCommits
<1>7. HandInv'
  BY <1>2, HandKept DEF TurnsInv
<1>8. RowsRemain
  BY <1>2 DEF RowsRemain, HasRow
<1>9. Unlaunched'
  <2>1. \A g2 \in Groups, p \in Pos : Waits(g2, p)' => Waits(g2, p) /\ Message(g2, p)' = Message(g2, p)
    BY <1>2 DEF Waits, Message
  <2> QED
    BY <1>3, <1>8, <2>1, UnlaunchedStill DEF TurnsInv
<1>10. TurnRows'
  <2>1. ASSUME NEW g2 \in Groups, NEW j \in 1 .. Len(stream[g2]), OfTurn(stream[g2][j])
        PROVE  TurnRow(g2, stream[g2][j]) /\ tasks'[stream[g2][j].task].launched
    <3>1. TurnRow(g2, stream[g2][j])
      BY <2>1 DEF TurnsInv, TurnRows
    <3>2. stream[g2][j].task \in 1 .. Len(tasks)
      BY <3>1, RowTask DEF TurnRow
    <3> QED
      BY <1>3, <3>1, <3>2 DEF TurnRow
  <2>2. ASSUME NEW g2 \in Groups, NEW j \in 1 .. Len(stream'[g2]), OfTurn(stream'[g2][j])
        PROVE  TurnRow(g2, stream[g2][j])'
    <3>1. PICK i \in 1 .. Len(stream[g2]) : stream'[g2][j] = stream[g2][i]
      BY <1>1
    <3> QED
      BY <1>2, <2>1, <2>2, <3>1 DEF TurnRow, HasRow
  <2> QED
    BY <2>2 DEF TurnRows, OfTurn
<1>11. Kernels'
  BY KernelsExecuted
<1>12. NotYetRun' /\ ExecutedIsCommitted'
  <2>1. DOMAIN tasks = 1 .. Len(tasks) /\ DOMAIN tasks' = 1 .. Len(tasks')
    BY DEF TypeInv
  <2>2. NotYetRun'
    BY <1>3, <1>4 DEF TurnsInv, NotYetRun
  <2>3. ASSUME NEW t \in 1 .. Len(tasks)
        PROVE  /\ tasks'[t].executed <= tasks'[t].committed
               /\ tasks'[t].committed <= tasks'[t].repeat
    <3>1. /\ tasks[t].executed <= tasks[t].committed /\ tasks[t].committed <= tasks[t].repeat
          /\ tasks[t].executed \in Nat /\ tasks[t].committed \in Nat
      BY <2>1, TurnTypes DEF TurnsInv, ExecutedIsCommitted
    <3> QED
      BY <1>3, <1>4, <3>1
  <2> QED
    BY <1>3, <2>1, <2>2, <2>3 DEF ExecutedIsCommitted
<1> QED
  BY <1>5, <1>6, <1>7, <1>9, <1>10, <1>11, <1>12 DEF TurnsInv

\* A step keeps what is known of the turns.
LEMMA TurnsStep ==
    ASSUME TypeInv, TypeInv', careful => CarefulInv, TurnsInv, [Next]_varsV2 PROVE TurnsInv'
<1>1. CASE ClientStep
  BY <1>1, ClientTurns
<1>2. CASE ServerStep
  BY <1>2, ServerTurns
<1>3. CASE \E g \in Groups : DeviceStep(g)
  BY <1>3, StreamTurns
<1>4. CASE UNCHANGED varsV2
  <2>1. UNCHANGED clientVars /\ UNCHANGED serverVars
    BY <1>4 DEF varsV2, vars
  <2>2. UNCHANGED <<sendMsgs, commitTurnCnt, stream, tasks, handles, curMsgPosition, server, retryCnt,
                    rcvMsg, msgPos, finishFlag, finalizeFlag>>
    BY <1>4 DEF varsV2, vars, areaVars, clientVars, serverVars
  <2>3. HandInv'
    BY <2>2, HandKept DEF TurnsInv
  <2>4. \A g \in Groups, p \in Pos : Waits(g, p)' => Waits(g, p) /\ Message(g, p)' = Message(g, p)
    BY <2>2 DEF Waits, Message
  <2> QED
    BY <2>1, <2>2, <2>3, <2>4, ServerStill DEF ServerSide
<1> QED
  BY <1>1, <1>2, <1>3, <1>4 DEF Next, Terminated

\* At the start there are neither rows nor turns.
LEMMA TurnsInit == Init => TurnsInv
<1> SUFFICES ASSUME Init PROVE TurnsInv
  OBVIOUS
<1>1. /\ \A g \in Groups : /\ handles[g] = <<>> /\ stream[g] = <<>> /\ retryCnt[g] = 0
                           /\ ~finishFlag[g] /\ ~finalizeFlag[g]
      /\ \A g \in Groups, p \in Pos : commitTurnCnt[g][p] = 0 /\ sendMsgs[g][p] = NoMsg
      /\ server = "run" /\ tasks = <<>> /\ NoMsg.type = "none"
  BY DEF Init, InitArea, InitClient, InitServer, InitStream, Api!Init, PerGroup, PerPos, NoMsg
<1>2. Len(<<>>) = 0 /\ DOMAIN tasks = {}
  BY <1>1
<1>3. \A g \in Groups : 1 .. Len(handles[g]) = {} /\ 1 .. Len(stream[g]) = {}
  BY <1>1, <1>2
<1>4. RowPlaces /\ RowCommits /\ TurnRows /\ Kernels
  BY <1>1, <1>3 DEF RowPlaces, RowCommits, TurnRows, Kernels
<1>5. HandInv /\ Unlaunched
  BY <1>1 DEF HandInv, Unlaunched, Waits, Message
<1>6. NotYetRun /\ ExecutedIsCommitted
  BY <1>1, <1>2 DEF NotYetRun, ExecutedIsCommitted
<1> QED
  BY <1>4, <1>5, <1>6 DEF TurnsInv

\* No turn runs that was not committed, and none more than repeat times, for any
\* groups, positions and turns: to a careful author over any launches, and to one who
\* is not (CarelessCall) in his launch (AddTaskForHcclMsgV2 and KfcNotifyWait of the
\* server V2, SetCommitTurnCntToGm of the client).
THEOREM TurnsCommitted ==
    ASSUME NGroups * MaxHandle <= SeqMod
    PROVE  Spec => []ExecutedIsCommitted
<1> DEFINE Inv == TypeInv /\ (careful => CarefulInv) /\ TurnsInv
<1>1. Init => Inv
  BY TypeInit, CarefulInit, TurnsInit
<1>2. Inv /\ [Next]_varsV2 => Inv'
  <2>1. TypeInv /\ [Next]_varsV2 => TypeInv'
    BY TypeStep
  <2>2. ASSUME Inv, [Next]_varsV2 PROVE (careful => CarefulInv)'
    BY <2>2, CarefulStep
  <2>3. ASSUME Inv, [Next]_varsV2, TypeInv' PROVE TurnsInv'
    BY <2>3, TurnsStep
  <2> QED
    BY <2>1, <2>2, <2>3
<1>3. Inv => ExecutedIsCommitted
  BY DEF TurnsInv
<1> QED
  BY <1>1, <1>2, <1>3, PTL DEF Spec
==============================================================================
