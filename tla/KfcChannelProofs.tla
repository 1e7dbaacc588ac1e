-------------------------- MODULE KfcChannelProofs --------------------------
(***************************************************************************)
(* What TLAPS proves about KfcChannel for every number of groups, slots,    *)
(* handles, launches and tasks, every width of seqNum and every retry limit. *)
(* First its types; then that no message is left behind, and no turn runs    *)
(* that was not committed, although a launch may be finalized, and the next  *)
(* ones begun on the same areas, before the server and the streams are done. *)
(***************************************************************************)
EXTENDS KfcChannel, SequenceTheorems, FiniteSetTheorems, TLAPS

(* The invariant that makes TypeOK inductive.                               *)

\* A prepare message that is being sent: its handle is the next free one, and
\* there is room for it, in its group and in the history.
Preparing == pc \in {"ext", "send"} /\ call.msg.type = "prepare"

CallOK ==
    /\ \A g \in Groups : ~finalized[g] => curMsgPosition[g] < MsgCnt
    /\ pc # "ready" => ~finalized[call.group]
    /\ pc \in {"commit", "wait"} => call.handle < Len(handles[call.group])
    /\ pc = "ext" => call.msg.type = "prepare"
    /\ pc \in {"finQuery", "finDone"} => call.msg.type = "finalize"
    /\ Preparing => /\ call.msg.repeat \in Repeats
                    /\ curMsgPosition[call.group] + 1 < MsgCnt
                    /\ Len(tasks) < MaxTasks
                    /\ call.msg.handle = Len(handles[call.group])
                    /\ call.msg.handle = curHandleId[call.group]
    /\ pc = "send" /\ call.msg.type = "sync" =>
                    /\ curMsgPosition[call.group] + 1 < MsgCnt
                    /\ call.msg.handle < Len(handles[call.msg.dep])

\* The handles of a group are numbered from 0 in the order of its Prepare
\* calls; a refused Prepare leaves curHandleId at MaxHandle.
HandlesOK ==
    \A g \in Groups :
        /\ \A i \in 1 .. Len(handles[g]) : handles[g][i].task \in 1 .. Len(tasks)
        /\ curHandleId[g] < MaxHandle /\ ~(Preparing /\ call.group = g)
             => Len(handles[g]) = curHandleId[g] + 1

\* Messages and stream entries name tasks of the history, and the server's two
\* tables have the same entries.
TaskOf(m) == m.type = "prepare" => m.task \in 1 .. Len(tasks)

LinksOK ==
    /\ Len(tasks) <= MaxTasks
    /\ \A g \in Groups, p \in Pos : TaskOf(sendMsgs[g][p])
    /\ \A g \in Groups : TaskOf(rcvMsg[g])
    /\ \A g \in Groups : \A i \in 1 .. Len(stream[g]) :
          stream[g][i].type = "kernel" => stream[g][i].task \in 1 .. Len(tasks)
    /\ \A g \in Groups, h \in Handles :
          handleToMsgPos[g][h] # Unknown => handleToRepeat[g][h] # Unknown

TypeInv == TypeOK /\ CallOK /\ HandlesOK /\ LinksOK

LEMMA ConstantFacts ==
    /\ 0 \in Groups /\ 0 \in Pos /\ 0 \in Handles
    /\ NoMsg \in Msg /\ NoCall \in Call
    /\ Groups \subseteq Int /\ Pos \subseteq Nat /\ Handles \subseteq Nat
BY NGroupsAssumption, MsgCntAssumption, MaxHandleAssumption
   DEF Groups, Pos, Handles, NoMsg, Msg, MsgTypes, NoCall, ApiCall, Call

LEMMA TypeInit == Init => TypeInv
<1> SUFFICES ASSUME Init PROVE TypeInv
  OBVIOUS
<1> USE ConstantFacts, NGroupsAssumption, MsgCntAssumption, MaxHandleAssumption,
        SeqModAssumption, MaxRetryAssumption, BoundsAssumption
<1> USE DEF Init, InitArea, InitClient, InitServer, InitStream, Api!Init, FreshServer,
            PerGroup, PerPos
<1>1. AreaTypeOK
  BY DEF AreaTypeOK
<1>2. ClientTypeOK
  BY DEF ClientTypeOK, PcStates
<1>3. ServerTypeOK
  BY DEF ServerTypeOK, Unknown, MaxTimeout
<1>4. stream \in [Groups -> Seq(Sqe)] /\ tasks \in Seq(Task)
  OBVIOUS
<1>5. CallOK
  BY DEF CallOK, Preparing
<1>6. HandlesOK
  BY DEF HandlesOK, Preparing
<1>7. LinksOK
  BY DEF LinksOK, TaskOf, NoMsg, Unknown
<1> QED
  BY <1>1, <1>2, <1>3, <1>4, <1>5, <1>6, <1>7 DEF TypeInv, TypeOK

LEMMA ApiCallType ==
    ASSUME NEW g \in Groups, NEW h \in Handles, NEW m \in Msg, NEW flag \in BOOLEAN
    PROVE  /\ ApiCall(g, h, m, flag) \in Call
           /\ ApiCall(g, h, m, flag).group = g /\ ApiCall(g, h, m, flag).handle = h
           /\ ApiCall(g, h, m, flag).msg = m /\ ApiCall(g, h, m, flag).flag = flag
BY DEF ApiCall, Call

(* The client.                                                              *)

\* The message of a Prepare call.
PrepareMsg(h, r, ext) ==
    [NoMsg EXCEPT !.type = "prepare", !.handle = h, !.repeat = r, !.ext = ext]

LEMMA PrepareMsgType ==
    ASSUME NEW h \in Handles, NEW r \in Nat, NEW ext \in BOOLEAN
    PROVE  /\ PrepareMsg(h, r, ext) \in Msg
           /\ PrepareMsg(h, r, ext).type = "prepare" /\ PrepareMsg(h, r, ext).handle = h
           /\ PrepareMsg(h, r, ext).repeat = r /\ PrepareMsg(h, r, ext).task = 0
<1>1. /\ PrepareMsg(h, r, ext).type = "prepare" /\ PrepareMsg(h, r, ext).handle = h
      /\ PrepareMsg(h, r, ext).repeat = r /\ PrepareMsg(h, r, ext).task = 0
  BY DEF PrepareMsg, NoMsg
<1>2. PrepareMsg(h, r, ext) \in Msg
  BY ConstantFacts DEF PrepareMsg, Msg, MsgTypes
<1> QED
  BY <1>1, <1>2

LEMMA PrepareType ==
    ASSUME TypeInv, UNCHANGED <<serverVars, stream>>,
           NEW g \in Groups, NEW r \in Repeats, NEW ext \in BOOLEAN, NEW commit \in BOOLEAN,
           Prepare(g, r, ext, commit)
    PROVE  TypeInv'
<1> DEFINE h == curHandleId[g] + 1
           m == PrepareMsg(h, r, ext)
<1>a. /\ AreaTypeOK /\ ClientTypeOK /\ ServerTypeOK /\ CallOK /\ HandlesOK /\ LinksOK
      /\ stream \in [Groups -> Seq(Sqe)] /\ tasks \in Seq(Task)
  BY DEF TypeInv, TypeOK
<1>b. /\ curHandleId \in [Groups -> -1 .. MaxHandle] /\ curHandleId[g] \in -1 .. MaxHandle
      /\ MaxHandle \in Nat
  BY <1>a, MaxHandleAssumption DEF ClientTypeOK
<1>1. /\ pc = "ready" /\ curMsgPosition[g] + 1 < MsgCnt /\ Len(tasks) < MaxTasks
      /\ curHandleId[g] + 1 < MaxHandle /\ ~finalized[g]
  BY DEF Prepare, MaySend
<1>2. /\ UNCHANGED <<sendMsgs, paramExt, commitTurnCnt, finishedTurnCnt, primitiveId,
                     curMsgPosition, handles, deps, finalized, launch, tasks, stream>>
      /\ UNCHANGED serverVars
  BY DEF Prepare, areaVars
<1>3. /\ curHandleId' = [curHandleId EXCEPT ![g] = @ + 1]
      /\ pc' \in {"ext", "send"}
      /\ call' = ApiCall(g, curHandleId[g] + 1, m, commit)
  BY DEF Prepare, FirstStep, PrepareMsg
<1>4. curHandleId[g] + 1 \in Handles
  BY <1>b, <1>1 DEF Handles
<1>5. /\ m \in Msg /\ m.type = "prepare" /\ m.handle = h
      /\ m.repeat = r /\ m.task = 0
  <2>1. r \in Nat
    BY RepeatsAssumption
  <2>2. h \in Handles
    BY <1>4
  <2> QED
    BY <2>1, <2>2, PrepareMsgType
<1> HIDE DEF m
<1>6. /\ call' \in Call /\ call'.group = g /\ call'.handle = curHandleId[g] + 1
      /\ call'.msg = m
  BY <1>3, <1>4, <1>5, ApiCallType
<1>7. /\ curHandleId' \in [Groups -> -1 .. MaxHandle]
      /\ curHandleId'[g] = curHandleId[g] + 1
      /\ \A gg \in Groups \ {g} : curHandleId'[gg] = curHandleId[gg]
  BY <1>b, <1>1, <1>3
<1>8. AreaTypeOK'
  BY <1>a, <1>2 DEF AreaTypeOK
<1>9. ClientTypeOK'
  BY <1>a, <1>2, <1>3, <1>6, <1>7 DEF ClientTypeOK, PcStates
<1>10. ServerTypeOK'
  BY <1>a, <1>2 DEF ServerTypeOK, serverVars
<1>11. Len(handles[g]) = curHandleId[g] + 1
  BY <1>a, <1>b, <1>1 DEF HandlesOK, Preparing
<1>12. CallOK'
  BY <1>a, <1>1, <1>2, <1>3, <1>5, <1>6, <1>7, <1>11 DEF CallOK, Preparing
<1>13. HandlesOK'
  BY <1>a, <1>1, <1>2, <1>3, <1>5, <1>6, <1>7, <1>11 DEF HandlesOK, Preparing
<1>14. LinksOK'
  BY <1>a, <1>2 DEF LinksOK, TaskOf, serverVars
<1> QED
  BY <1>a, <1>2, <1>8, <1>9, <1>10, <1>12, <1>13, <1>14 DEF TypeInv, TypeOK

LEMMA PrepareRefusedType ==
    ASSUME TypeInv, UNCHANGED <<serverVars, stream>>, NEW g \in Groups, PrepareRefused(g)
    PROVE  TypeInv'
<1> USE MaxHandleAssumption
<1> USE DEF TypeInv, TypeOK, PrepareRefused, serverVars, areaVars
<1>1. AreaTypeOK' /\ ServerTypeOK'
  BY DEF AreaTypeOK, ServerTypeOK
<1>2. ClientTypeOK'
  BY DEF ClientTypeOK
<1>3. CallOK' /\ HandlesOK'
  BY DEF CallOK, HandlesOK, Preparing, ClientTypeOK
<1>4. LinksOK'
  BY DEF LinksOK, TaskOf
<1> QED
  BY <1>1, <1>2, <1>3, <1>4

LEMMA SendExtType ==
    ASSUME TypeInv, UNCHANGED <<serverVars, stream>>, SendExt
    PROVE  TypeInv'
<1> USE DEF TypeInv, TypeOK, SendExt, GoOn, serverVars
<1>1. AreaTypeOK' /\ ServerTypeOK'
  BY DEF AreaTypeOK, ServerTypeOK
<1>2. ClientTypeOK'
  BY DEF ClientTypeOK, PcStates
<1>3. CallOK' /\ HandlesOK'
  BY DEF CallOK, HandlesOK, Preparing, ClientTypeOK
<1>4. LinksOK'
  BY DEF LinksOK, TaskOf
<1> QED
  BY <1>1, <1>2, <1>3, <1>4

\* A message written into the slot of the call's group.
LEMMA PutMsgType ==
    ASSUME TypeInv, NEW type, NEW m \in Msg, PutMsg(type, m)
    PROVE  /\ AreaTypeOK'
           /\ \A g \in Groups, p \in Pos : sendMsgs'[g][p] \in {sendMsgs[g][p], m}
<1> USE DEF TypeInv, TypeOK, PutMsg
<1>1. \A g \in Groups, p \in Pos : sendMsgs'[g][p] \in {sendMsgs[g][p], m}
  BY DEF AreaTypeOK
<1>2. AreaTypeOK'
  BY DEF AreaTypeOK
<1> QED
  BY <1>1, <1>2

\* A prepare message sent: a new handle and a new task.
LEMMA SendPrepareType ==
    ASSUME TypeInv, UNCHANGED <<serverVars, stream>>, SendPrepare
    PROVE  TypeInv'
<1> DEFINE g == call.group
           r == call.msg.repeat
           m == [call.msg EXCEPT !.seq = primitiveId, !.task = Len(tasks) + 1]
           hd == [pos |-> curMsgPosition[g], repeat |-> r,
                  commit |-> IF call.flag THEN r ELSE 0,
                  wait |-> 0, task |-> Len(tasks) + 1]
           t == Api!NewTask(g, r, deps[g])
<1>a. /\ AreaTypeOK /\ ClientTypeOK /\ ServerTypeOK /\ CallOK /\ HandlesOK /\ LinksOK
      /\ stream \in [Groups -> Seq(Sqe)] /\ tasks \in Seq(Task)
      /\ stream' = stream
  BY DEF TypeInv, TypeOK
<1>1. /\ pc = "send" /\ call.msg.type = "prepare" /\ PutMsg("prepare", m)
      /\ primitiveId' = NextSeq
      /\ handles' = [handles EXCEPT ![g] = Append(@, hd)]
      /\ tasks' = Append(tasks, t)
      /\ curMsgPosition' = [curMsgPosition EXCEPT ![g] = @ + 1]
      /\ \/ pc' = "commit" /\ call' = ApiCall(g, call.msg.handle, NoMsg, TRUE)
         \/ pc' = "ready" /\ call' = NoCall
      /\ UNCHANGED <<deps, finalized, curHandleId, launch>>
  BY DEF SendPrepare, PutMsg, AdvancePosition, Return
<1>2. /\ g \in Groups /\ call.msg \in Msg /\ call.msg.handle \in Handles
      /\ r \in Repeats /\ r \in Nat
      /\ curMsgPosition[g] \in Pos /\ curMsgPosition[g] + 1 \in Pos
      /\ Len(tasks) \in Nat /\ Len(tasks) < MaxTasks
      /\ call.msg.handle = Len(handles[g]) /\ call.msg.handle = curHandleId[g]
      /\ handles[g] \in Seq(Handle) /\ Len(handles[g]) \in Nat
  <2>1. g \in Groups /\ call.msg \in Msg
    BY <1>a DEF ClientTypeOK, Call
  <2>2. call.msg.handle \in Handles
    BY <2>1 DEF Msg
  <2>3. /\ r \in Repeats /\ curMsgPosition[g] + 1 < MsgCnt /\ Len(tasks) < MaxTasks
        /\ call.msg.handle = Len(handles[g]) /\ call.msg.handle = curHandleId[g]
    BY <1>a, <1>1 DEF CallOK, Preparing
  <2>a. \A n \in Repeats : n \in Nat
    BY RepeatsAssumption
  <2>4. r \in Nat
    BY <2>3, <2>a
  <2>5. Len(tasks) \in Nat
    BY <1>a, LenProperties
  <2>6. handles[g] \in Seq(Handle) /\ Len(handles[g]) \in Nat
    BY <1>a, <2>1, LenProperties DEF ClientTypeOK
  <2>7. curMsgPosition[g] \in 0 .. MsgCnt
    BY <1>a, <2>1 DEF ClientTypeOK
  <2>8. curMsgPosition[g] + 1 \in Pos /\ curMsgPosition[g] \in Pos
    BY <2>3, <2>7, MsgCntAssumption DEF Pos
  <2> QED
    BY <2>1, <2>2, <2>3, <2>4, <2>5, <2>6, <2>8
<1>3. m \in Msg /\ m.task = Len(tasks) + 1 /\ m.type = "prepare"
  <2>1. primitiveId \in Nat
    BY <1>a, SeqModAssumption DEF ClientTypeOK
  <2>2. call.msg \in Msg /\ Len(tasks) + 1 \in Nat /\ call.msg.type = "prepare"
    BY <1>1, <1>2
  <2> HIDE DEF g, r, hd, t
  <2> QED
    BY <2>1, <2>2 DEF Msg
<1>4. hd \in Handle /\ hd.task = Len(tasks) + 1
  BY <1>2 DEF Handle
<1>5. t \in Task
  BY <1>a, <1>2 DEF Api!NewTask, Task, ClientTypeOK
<1> HIDE DEF g, r, m, hd, t
<1>6. AreaTypeOK' /\ \A gg \in Groups, p \in Pos : sendMsgs'[gg][p] \in {sendMsgs[gg][p], m}
  BY <1>1, <1>3, PutMsgType
<1>7. tasks' \in Seq(Task) /\ Len(tasks') = Len(tasks) + 1
  BY <1>a, <1>1, <1>5
<1>8. /\ handles' \in [Groups -> Seq(Handle)]
      /\ handles'[g] = Append(handles[g], hd)
      /\ Len(handles'[g]) = Len(handles[g]) + 1
      /\ handles'[g][Len(handles[g]) + 1] = hd
      /\ \A i \in 1 .. Len(handles[g]) : handles'[g][i] = handles[g][i]
      /\ \A gg \in Groups \ {g} : handles'[gg] = handles[gg]
  <2>1. Append(handles[g], hd) \in Seq(Handle)
    BY <1>2, <1>4
  <2>2. handles \in [Groups -> Seq(Handle)]
    BY <1>a DEF ClientTypeOK
  <2>3. /\ handles' \in [Groups -> Seq(Handle)] /\ handles'[g] = Append(handles[g], hd)
        /\ \A gg \in Groups \ {g} : handles'[gg] = handles[gg]
    BY <1>1, <1>2, <2>1, <2>2
  <2> QED
    <3>1. /\ Len(Append(handles[g], hd)) = Len(handles[g]) + 1
          /\ Append(handles[g], hd)[Len(handles[g]) + 1] = hd
          /\ \A i \in 1 .. Len(handles[g]) : Append(handles[g], hd)[i] = handles[g][i]
      <4>1. handles[g] \in Seq(Handle) /\ hd \in Handle
        BY <1>2, <1>4
      <4> QED
        BY <4>1, AppendProperties
    <3> QED
      BY <2>3, <3>1
<1>9. ClientTypeOK'
  <2>1. primitiveId' \in 0 .. SeqMod - 1
    BY <1>a, <1>1, SeqModAssumption DEF ClientTypeOK, NextSeq
  <2>2. call' \in Call /\ pc' \in PcStates
    <3>1. ApiCall(g, call.msg.handle, NoMsg, TRUE) \in Call
      BY <1>2, ConstantFacts, ApiCallType
    <3>2. NoCall \in Call
      BY ConstantFacts
    <3> QED
      BY <1>1, <3>1, <3>2 DEF PcStates
  <2>3. curMsgPosition' \in [Groups -> 0 .. MsgCnt]
    BY <1>a, <1>1, <1>2, MsgCntAssumption DEF ClientTypeOK, Pos
  <2> QED
    BY <1>a, <1>1, <1>8, <2>1, <2>2, <2>3 DEF ClientTypeOK
<1>10. ServerTypeOK'
  BY <1>a DEF ServerTypeOK, serverVars
<1>11. CallOK'
  <2>1. \A gg \in Groups : ~finalized'[gg] => curMsgPosition'[gg] < MsgCnt
    BY <1>a, <1>1, <1>2, MsgCntAssumption DEF CallOK, ClientTypeOK, Pos
  <2>2. pc' # "ready" => /\ pc' = "commit" /\ ~finalized'[call'.group]
                         /\ call'.handle < Len(handles'[call'.group])
    BY <1>a, <1>1, <1>2, <1>8 DEF CallOK, ApiCall, g
  <2>3. pc' \in {"ready", "commit"}
    BY <1>1
  <2> QED
    BY <2>1, <2>2, <2>3 DEF CallOK, Preparing
<1>12. HandlesOK'
  <2> SUFFICES ASSUME NEW gg \in Groups
               PROVE  /\ \A i \in 1 .. Len(handles'[gg]) :
                            handles'[gg][i].task \in 1 .. Len(tasks')
                      /\ curHandleId'[gg] < MaxHandle => Len(handles'[gg]) = curHandleId'[gg] + 1
    BY DEF HandlesOK
  <2>1. CASE gg = g
    BY <2>1, <1>a, <1>1, <1>2, <1>4, <1>7, <1>8 DEF HandlesOK
  <2>2. CASE gg # g
    BY <2>2, <1>a, <1>1, <1>2, <1>7, <1>8 DEF HandlesOK, Preparing, g
  <2> QED
    BY <2>1, <2>2
<1>13. LinksOK'
  <2>1. UNCHANGED <<rcvMsg, handleToMsgPos, handleToRepeat>>
    BY DEF serverVars
  <2> QED
    <3>1. \A gg \in Groups, p \in Pos : TaskOf(sendMsgs[gg][p])'
      <4> SUFFICES ASSUME NEW gg \in Groups, NEW p \in Pos PROVE TaskOf(sendMsgs[gg][p])'
        OBVIOUS
      <4>1. TaskOf(sendMsgs[gg][p])
        BY <1>a DEF LinksOK
      <4>2. sendMsgs'[gg][p] = sendMsgs[gg][p] \/ sendMsgs'[gg][p] = m
        BY <1>6
      <4> QED
        BY <4>1, <4>2, <1>2, <1>3, <1>7 DEF TaskOf
    <3>2. \A gg \in Groups : TaskOf(rcvMsg[gg])'
      BY <2>1, <1>a, <1>2, <1>7 DEF LinksOK, TaskOf
    <3>3. \A gg \in Groups : \A i \in 1 .. Len(stream'[gg]) :
              stream'[gg][i].type = "kernel" => stream'[gg][i].task \in 1 .. Len(tasks')
      BY <1>a, <1>2, <1>7 DEF LinksOK
    <3> QED
      BY <2>1, <1>a, <1>2, <1>7, <3>1, <3>2, <3>3, BoundsAssumption DEF LinksOK
<1> QED
  BY <1>a, <1>6, <1>7, <1>9, <1>10, <1>11, <1>12, <1>13 DEF TypeInv, TypeOK

\* One field of a task, or of a row of the handle table, is changed.
LEMMA TaskUpdate ==
    ASSUME NEW s \in Seq(Task), NEW k \in 1 .. Len(s), NEW e \in Task
    PROVE  /\ [s EXCEPT ![k] = e] \in Seq(Task)
           /\ Len([s EXCEPT ![k] = e]) = Len(s)
BY ExceptSeq

LEMMA HandleUpdate ==
    ASSUME NEW tab \in [Groups -> Seq(Handle)], NEW g \in Groups,
           NEW k \in 1 .. Len(tab[g]), NEW e \in Handle, e.task = tab[g][k].task,
           NEW tab2, tab2 = [tab EXCEPT ![g][k] = e]
    PROVE  /\ tab2 \in [Groups -> Seq(Handle)]
           /\ \A gg \in Groups : /\ Len(tab2[gg]) = Len(tab[gg])
                                 /\ \A i \in 1 .. Len(tab[gg]) :
                                       tab2[gg][i].task = tab[gg][i].task
<1>1. tab[g] \in Seq(Handle)
  OBVIOUS
<1>2. /\ [tab[g] EXCEPT ![k] = e] \in Seq(Handle)
      /\ Len([tab[g] EXCEPT ![k] = e]) = Len(tab[g])
      /\ \A i \in 1 .. Len(tab[g]) : [tab[g] EXCEPT ![k] = e][i] = IF i = k THEN e ELSE tab[g][i]
  BY <1>1, ExceptSeq
<1>3. tab2[g] = [tab[g] EXCEPT ![k] = e] /\ \A gg \in Groups \ {g} : tab2[gg] = tab[gg]
  OBVIOUS
<1>4. tab2 \in [Groups -> Seq(Handle)]
  BY <1>2
<1> QED
  BY <1>2, <1>3, <1>4

\* A step that leaves the tables, the messages and the tasks alone.
LEMMA LinksKept ==
    ASSUME LinksOK, UNCHANGED <<sendMsgs, rcvMsg, stream, handleToMsgPos, handleToRepeat>>,
           Len(tasks') = Len(tasks)
    PROVE  LinksOK'
BY DEF LinksOK, TaskOf

LEMMA InterHcclGroupSyncType ==
    ASSUME TypeInv, UNCHANGED <<serverVars, stream>>,
           NEW g \in Groups, NEW g2 \in Groups, NEW h \in Handles,
           InterHcclGroupSync(g, g2, h)
    PROVE  TypeInv'
<1> USE DEF TypeInv, TypeOK
<1> DEFINE m == [NoMsg EXCEPT !.type = "sync", !.handle = h, !.dep = g2]
<1>1. /\ pc = "ready" /\ ~finalized[g] /\ curMsgPosition[g] + 1 < MsgCnt
      /\ h < Len(handles[g2])
      /\ pc' = "send" /\ call' = ApiCall(g, 0, m, FALSE)
      /\ UNCHANGED <<areaVars, primitiveId, curHandleId, curMsgPosition, handles, deps,
                     finalized, launch, tasks>>
  BY DEF InterHcclGroupSync, MaySend
<1>2. AreaTypeOK' /\ ServerTypeOK' /\ LinksOK'
  BY <1>1, LinksKept DEF AreaTypeOK, ServerTypeOK, areaVars, serverVars
<1>3. m \in Msg /\ m.type = "sync" /\ m.handle = h /\ m.dep = g2
  BY DEF NoMsg, Msg, MsgTypes
<1> HIDE DEF m
<1>4. call' \in Call /\ call'.group = g /\ call'.msg = m
  BY <1>1, <1>3, ConstantFacts DEF ApiCall, Call
<1>5. ClientTypeOK'
  BY <1>1, <1>4 DEF ClientTypeOK, PcStates
<1>6. CallOK' /\ HandlesOK'
  BY <1>1, <1>3, <1>4 DEF CallOK, HandlesOK, Preparing
<1> QED
  BY <1>1, <1>2, <1>5, <1>6

LEMMA SendSyncType ==
    ASSUME TypeInv, UNCHANGED <<serverVars, stream>>, SendSync
    PROVE  TypeInv'
<1> DEFINE g == call.group
           m == call.msg
<1> USE DEF TypeInv, TypeOK
<1>1. /\ pc = "send" /\ m.type = "sync" /\ PutMsg("sync", m)
      /\ deps' = [deps EXCEPT ![g] = @ \cup {handles[m.dep][m.handle + 1].task}]
      /\ curMsgPosition' = [curMsgPosition EXCEPT ![g] = @ + 1]
      /\ pc' = "ready" /\ call' = NoCall
      /\ UNCHANGED <<primitiveId, handles, finalized, tasks, curHandleId, launch>>
  BY DEF SendSync, PutMsg, AdvancePosition, Return
<1>2. /\ g \in Groups /\ m \in Msg /\ m.dep \in Groups /\ m.handle \in Handles
      /\ curMsgPosition[g] \in 0 .. MsgCnt /\ curMsgPosition[g] + 1 < MsgCnt
      /\ m.handle < Len(handles[m.dep])
  BY <1>1 DEF ClientTypeOK, Call, Msg, CallOK
<1> HIDE DEF g, m
<1>3. AreaTypeOK' /\ \A gg \in Groups, p \in Pos : sendMsgs'[gg][p] \in {sendMsgs[gg][p], m}
  BY <1>1, <1>2, PutMsgType
<1>4. ClientTypeOK'
  <2>1. handles[m.dep][m.handle + 1].task \in 1 .. MaxTasks
    <3>1. m.handle + 1 \in 1 .. Len(handles[m.dep])
      <4>1. handles[m.dep] \in Seq(Handle) /\ m.handle \in Nat
        BY <1>2, ConstantFacts DEF ClientTypeOK
      <4> QED
        BY <1>2, <4>1, LenProperties
    <3>2. handles[m.dep][m.handle + 1].task \in 1 .. Len(tasks)
      BY <1>2, <3>1 DEF HandlesOK
    <3> QED
      BY <3>2, BoundsAssumption DEF LinksOK
  <2>2. deps' \in [Groups -> SUBSET (1 .. MaxTasks)]
    BY <1>1, <2>1 DEF ClientTypeOK
  <2>3. curMsgPosition' \in [Groups -> 0 .. MsgCnt]
    BY <1>1, <1>2, MsgCntAssumption DEF ClientTypeOK
  <2> QED
    BY <1>1, <2>2, <2>3, ConstantFacts DEF ClientTypeOK, PcStates
<1>5. ServerTypeOK'
  BY DEF ServerTypeOK, serverVars
<1>6. CallOK'
  <2>1. \A gg \in Groups : ~finalized'[gg] => curMsgPosition'[gg] < MsgCnt
    BY <1>1, <1>2 DEF CallOK, ClientTypeOK
  <2> QED
    BY <1>1, <2>1 DEF CallOK, Preparing
<1>7. HandlesOK'
  BY <1>1 DEF HandlesOK, Preparing, m
<1>8. LinksOK'
  <2>1. \A gg \in Groups, p \in Pos : TaskOf(sendMsgs'[gg][p])
    BY <1>1, <1>3 DEF LinksOK, TaskOf
  <2> QED
    BY <1>1, <2>1 DEF LinksOK, TaskOf, serverVars
<1> QED
  BY <1>1, <1>3, <1>4, <1>5, <1>6, <1>7, <1>8

\* Commit and Wait mark a row of the handle table and go on with the call.
LEMMA MarkHandle ==
    ASSUME TypeInv, UNCHANGED <<serverVars, stream>>,
           NEW g \in Groups, NEW h \in Handles, NEW state \in {"commit", "wait"},
           NEW hd \in Handle, hd.task = handles[g][h + 1].task,
           pc = "ready", ~finalized[g], h < Len(handles[g]),
           handles' = [handles EXCEPT ![g][h + 1] = hd],
           pc' = state, call' = ApiCall(g, h, NoMsg, FALSE),
           UNCHANGED <<areaVars, primitiveId, curHandleId, curMsgPosition, deps, finalized,
                       launch, tasks>>
    PROVE  TypeInv'
<1> USE DEF TypeInv, TypeOK
<1>1. AreaTypeOK' /\ ServerTypeOK' /\ LinksOK'
  BY LinksKept DEF AreaTypeOK, ServerTypeOK, areaVars, serverVars
<1>2. h + 1 \in 1 .. Len(handles[g])
  BY ConstantFacts DEF ClientTypeOK
<1>3. /\ handles' \in [Groups -> Seq(Handle)]
      /\ \A gg \in Groups : /\ Len(handles'[gg]) = Len(handles[gg])
                            /\ \A i \in 1 .. Len(handles[gg]) :
                                  handles'[gg][i].task = handles[gg][i].task
  BY <1>2, HandleUpdate DEF ClientTypeOK
<1>4. call' \in Call /\ call'.group = g /\ call'.handle = h
  BY ConstantFacts DEF ApiCall, Call
<1>5. ClientTypeOK'
  BY <1>3, <1>4 DEF ClientTypeOK, PcStates
<1>6. CallOK'
  BY <1>3, <1>4 DEF CallOK, Preparing
<1>7. HandlesOK'
  BY <1>3, <1>4 DEF HandlesOK, Preparing
<1> QED
  BY <1>1, <1>5, <1>6, <1>7

LEMMA CommitType ==
    ASSUME TypeInv, UNCHANGED <<serverVars, stream>>,
           NEW g \in Groups, NEW h \in Handles, Commit(g, h)
    PROVE  TypeInv'
<1> DEFINE hd == [handles[g][h + 1] EXCEPT !.commit = @ + 1]
<1>1. handles[g][h + 1] \in Handle
  BY ConstantFacts, ElementOfSeq DEF TypeInv, TypeOK, ClientTypeOK, Commit
<1>2. hd \in Handle /\ hd.task = handles[g][h + 1].task
  BY <1>1 DEF Handle
<1>3. handles' = [handles EXCEPT ![g][h + 1] = hd]
  BY DEF Commit
<1>4. /\ pc = "ready" /\ ~finalized[g] /\ h < Len(handles[g])
      /\ pc' = "commit" /\ call' = ApiCall(g, h, NoMsg, FALSE)
      /\ UNCHANGED <<areaVars, primitiveId, curHandleId, curMsgPosition, deps, finalized,
                     launch, tasks>>
  BY DEF Commit
<1> HIDE DEF hd
<1> QED
  BY <1>2, <1>3, <1>4, MarkHandle

LEMMA WaitType ==
    ASSUME TypeInv, UNCHANGED <<serverVars, stream>>,
           NEW g \in Groups, NEW h \in Handles, Wait(g, h)
    PROVE  TypeInv'
<1> DEFINE hd == [handles[g][h + 1] EXCEPT !.wait = @ + 1]
<1>1. handles[g][h + 1] \in Handle
  BY ConstantFacts, ElementOfSeq DEF TypeInv, TypeOK, ClientTypeOK, Wait
<1>2. hd \in Handle /\ hd.task = handles[g][h + 1].task
  BY <1>1 DEF Handle
<1>3. handles' = [handles EXCEPT ![g][h + 1] = hd]
  BY DEF Wait
<1>4. /\ pc = "ready" /\ ~finalized[g] /\ h < Len(handles[g])
      /\ pc' = "wait" /\ call' = ApiCall(g, h, NoMsg, FALSE)
      /\ UNCHANGED <<areaVars, primitiveId, curHandleId, curMsgPosition, deps, finalized,
                     launch, tasks>>
  BY DEF Wait
<1> HIDE DEF hd
<1> QED
  BY <1>2, <1>3, <1>4, MarkHandle

\* CommitWrite and WaitReturn end a call and note its effect on a task.
LEMMA CallTask ==
    ASSUME TypeInv, pc \in {"commit", "wait"}
    PROVE  /\ call.group \in Groups
           /\ call.handle + 1 \in 1 .. Len(handles[call.group])
           /\ handles[call.group][call.handle + 1] \in Handle
           /\ handles[call.group][call.handle + 1].task \in 1 .. Len(tasks)
           /\ tasks[handles[call.group][call.handle + 1].task] \in Task
<1>1. /\ call.group \in Groups /\ call.handle \in Handles
      /\ call.handle < Len(handles[call.group])
      /\ handles[call.group] \in Seq(Handle) /\ tasks \in Seq(Task)
  BY DEF TypeInv, TypeOK, ClientTypeOK, Call, CallOK
<1>2. call.handle + 1 \in 1 .. Len(handles[call.group])
  <2>1. call.handle \in Nat /\ Len(handles[call.group]) \in Nat
    BY <1>1, ConstantFacts, LenProperties
  <2> QED
    BY <1>1, <2>1
<1>3. handles[call.group][call.handle + 1].task \in 1 .. Len(tasks)
  BY <1>1, <1>2 DEF TypeInv, HandlesOK
<1>4. handles[call.group][call.handle + 1] \in Handle
  BY <1>1, <1>2, ElementOfSeq
<1>5. tasks[handles[call.group][call.handle + 1].task] \in Task
  BY <1>1, <1>3, ElementOfSeq
<1> QED
  BY <1>1, <1>2, <1>3, <1>4, <1>5

LEMMA CommitWriteType ==
    ASSUME TypeInv, UNCHANGED <<serverVars, stream>>, CommitWrite
    PROVE  TypeInv'
<1> DEFINE g == call.group
           hd == handles[g][call.handle + 1]
           e == [tasks[hd.task] EXCEPT !.committed = hd.commit]
<1>1. /\ pc = "commit" /\ pc' = "ready" /\ call' = NoCall
      /\ commitTurnCnt' = [commitTurnCnt EXCEPT ![g][hd.pos] = hd.commit]
      /\ tasks' = [tasks EXCEPT ![hd.task] = e]
      /\ UNCHANGED <<sendMsgs, paramExt, finishedTurnCnt, primitiveId, curHandleId,
                     curMsgPosition, handles, deps, finalized, launch>>
  BY DEF CommitWrite, Return
<1>2. g \in Groups /\ hd \in Handle /\ hd.task \in 1 .. Len(tasks) /\ tasks[hd.task] \in Task
  BY <1>1, CallTask
<1>3. hd.commit \in Nat
  BY <1>2 DEF Handle
<1>4. e \in Task
  BY <1>2, <1>3 DEF Task
<1> HIDE DEF g, hd, e
<1> USE DEF TypeInv, TypeOK
<1>5. tasks' \in Seq(Task) /\ Len(tasks') = Len(tasks)
  BY <1>1, <1>2, <1>4, TaskUpdate
<1>6. AreaTypeOK'
  BY <1>1, <1>2, <1>3 DEF AreaTypeOK
<1>7. ClientTypeOK' /\ ServerTypeOK'
  BY <1>1, ConstantFacts DEF ClientTypeOK, ServerTypeOK, serverVars, PcStates
<1>8. CallOK' /\ HandlesOK'
  BY <1>1, <1>5 DEF CallOK, HandlesOK, Preparing
<1>9. LinksOK'
  BY <1>1, <1>5, LinksKept DEF serverVars
<1> QED
  BY <1>5, <1>6, <1>7, <1>8, <1>9

LEMMA WaitReturnType ==
    ASSUME TypeInv, UNCHANGED <<serverVars, stream>>, WaitReturn
    PROVE  TypeInv'
<1> DEFINE hd == handles[call.group][call.handle + 1]
           e == [tasks[hd.task] EXCEPT !.observed = hd.wait]
<1>1. /\ pc = "wait" /\ pc' = "ready" /\ call' = NoCall
      /\ tasks' = [tasks EXCEPT ![hd.task] = e]
      /\ UNCHANGED <<areaVars, primitiveId, curHandleId, curMsgPosition, handles, deps,
                     finalized, launch>>
  BY DEF WaitReturn, Return
<1>2. hd \in Handle /\ hd.task \in 1 .. Len(tasks) /\ tasks[hd.task] \in Task
  BY <1>1, CallTask
<1>3. hd.wait \in Nat
  BY <1>2 DEF Handle
<1>4. e \in Task
  BY <1>2, <1>3 DEF Task
<1> HIDE DEF hd, e
<1> USE DEF TypeInv, TypeOK
<1>5. tasks' \in Seq(Task) /\ Len(tasks') = Len(tasks)
  BY <1>1, <1>2, <1>4, TaskUpdate
<1>6. AreaTypeOK'
  BY <1>1 DEF AreaTypeOK, areaVars
<1>7. ClientTypeOK' /\ ServerTypeOK'
  BY <1>1, ConstantFacts DEF ClientTypeOK, ServerTypeOK, serverVars, PcStates
<1>8. CallOK' /\ HandlesOK'
  BY <1>1, <1>5 DEF CallOK, HandlesOK, Preparing
<1>9. LinksOK'
  BY <1>1, <1>5, LinksKept DEF serverVars, areaVars
<1> QED
  BY <1>5, <1>6, <1>7, <1>8, <1>9

LEMMA FinalizeType ==
    ASSUME TypeInv, UNCHANGED <<serverVars, stream>>,
           NEW g \in Groups, NEW sync \in BOOLEAN, Finalize(g, sync)
    PROVE  TypeInv'
<1> DEFINE m == [NoMsg EXCEPT !.type = "finalize"]
<1> USE DEF TypeInv, TypeOK
<1>1. /\ pc = "ready" /\ ~finalized[g] /\ pc' \in {"finQuery", "send"}
      /\ call' = ApiCall(g, 0, m, sync)
      /\ UNCHANGED <<areaVars, primitiveId, curHandleId, curMsgPosition, handles, deps,
                     finalized, launch, tasks>>
  BY DEF Finalize, MayFinalize
<1>2. m \in Msg /\ m.type = "finalize"
  BY ConstantFacts DEF NoMsg, Msg, MsgTypes
<1> HIDE DEF m
<1>3. call' \in Call /\ call'.group = g /\ call'.msg = m
  BY <1>1, <1>2, ConstantFacts DEF ApiCall, Call
<1>4. AreaTypeOK' /\ ServerTypeOK' /\ LinksOK'
  BY <1>1, LinksKept DEF AreaTypeOK, ServerTypeOK, areaVars, serverVars
<1>5. ClientTypeOK'
  BY <1>1, <1>3 DEF ClientTypeOK, PcStates
<1>6. CallOK' /\ HandlesOK'
  BY <1>1, <1>2, <1>3 DEF CallOK, HandlesOK, Preparing
<1> QED
  BY <1>1, <1>4, <1>5, <1>6

LEMMA FinalizeQueriedType ==
    ASSUME TypeInv, UNCHANGED <<serverVars, stream>>, FinalizeQueried
    PROVE  TypeInv'
<1> USE DEF TypeInv, TypeOK, FinalizeQueried, GoOn
<1>1. AreaTypeOK' /\ ServerTypeOK' /\ LinksOK'
  BY LinksKept DEF AreaTypeOK, ServerTypeOK, areaVars, serverVars
<1>2. ClientTypeOK'
  BY DEF ClientTypeOK, PcStates
<1>3. CallOK' /\ HandlesOK'
  BY DEF CallOK, HandlesOK, Preparing
<1> QED
  BY <1>1, <1>2, <1>3

LEMMA SendFinalizeType ==
    ASSUME TypeInv, UNCHANGED <<serverVars, stream>>, SendFinalize
    PROVE  TypeInv'
<1> DEFINE g == call.group
           m == call.msg
<1> USE DEF TypeInv, TypeOK
<1>1. /\ pc = "send" /\ m.type = "finalize" /\ PutMsg("finalize", m)
      /\ primitiveId' = 0
      /\ \/ pc' = "finDone" /\ UNCHANGED <<call, curMsgPosition, finalized>>
         \/ /\ pc' = "ready" /\ call' = NoCall
            /\ curMsgPosition' = [curMsgPosition EXCEPT ![g] = @ + 1]
            /\ finalized' = [finalized EXCEPT ![g] = TRUE]
      /\ UNCHANGED <<handles, deps, tasks, curHandleId, launch>>
  BY DEF SendFinalize, PutMsg, AdvancePosition, Return, GoOn
<1>2. /\ g \in Groups /\ m \in Msg
      /\ curMsgPosition[g] \in 0 .. MsgCnt /\ curMsgPosition[g] < MsgCnt
  BY <1>1 DEF ClientTypeOK, Call, CallOK
<1> HIDE DEF g, m
<1>3. AreaTypeOK' /\ \A gg \in Groups, p \in Pos : sendMsgs'[gg][p] \in {sendMsgs[gg][p], m}
  BY <1>1, <1>2, PutMsgType
<1>4. curMsgPosition' \in [Groups -> 0 .. MsgCnt]
  <2>1. curMsgPosition \in [Groups -> 0 .. MsgCnt] /\ curMsgPosition[g] + 1 \in 0 .. MsgCnt
    BY <1>2, MsgCntAssumption DEF ClientTypeOK
  <2>2. \/ curMsgPosition' = curMsgPosition
        \/ curMsgPosition' = [curMsgPosition EXCEPT ![g] = @ + 1]
    BY <1>1
  <2> QED
    BY <1>2, <2>1, <2>2
<1>5. primitiveId' \in 0 .. SeqMod - 1
  BY <1>1, SeqModAssumption
<1>6. finalized' \in [Groups -> BOOLEAN]
  BY <1>1, <1>2 DEF ClientTypeOK
<1>7. ClientTypeOK' /\ ServerTypeOK'
  BY <1>1, <1>4, <1>5, <1>6, ConstantFacts
     DEF ClientTypeOK, PcStates, ServerTypeOK, serverVars
<1>8. CallOK'
  <2>1. \A gg \in Groups : ~finalized'[gg] => curMsgPosition'[gg] < MsgCnt
    BY <1>1, <1>2 DEF CallOK, ClientTypeOK
  <2> QED
    BY <1>1, <2>1 DEF CallOK, Preparing, m
<1>9. HandlesOK'
  BY <1>1 DEF HandlesOK, Preparing, m
<1>10. LinksOK'
  <2>1. \A gg \in Groups, p \in Pos : TaskOf(sendMsgs'[gg][p])
    BY <1>1, <1>3 DEF LinksOK, TaskOf
  <2> QED
    BY <1>1, <2>1 DEF LinksOK, TaskOf, serverVars
<1> QED
  BY <1>1, <1>3, <1>7, <1>8, <1>9, <1>10

LEMMA FinalizeDoneType ==
    ASSUME TypeInv, UNCHANGED <<serverVars, stream>>, FinalizeDone
    PROVE  TypeInv'
<1> DEFINE g == call.group
<1> USE DEF TypeInv, TypeOK
<1>1. /\ pc = "finDone" /\ pc' = "ready" /\ call' = NoCall
      /\ ResetFinishedTurnCnt(g)
      /\ curMsgPosition' = [curMsgPosition EXCEPT ![g] = @ + 1]
      /\ finalized' = [finalized EXCEPT ![g] = TRUE]
      /\ UNCHANGED <<sendMsgs, paramExt, commitTurnCnt, primitiveId, curHandleId, handles,
                     deps, launch, tasks>>
  BY DEF FinalizeDone, AdvancePosition, Return
<1>2. /\ g \in Groups /\ curMsgPosition[g] \in 0 .. MsgCnt /\ curMsgPosition[g] < MsgCnt
  BY <1>1 DEF ClientTypeOK, Call, CallOK
<1> HIDE DEF g
<1>3. AreaTypeOK'
  BY <1>1, <1>2 DEF AreaTypeOK, ResetFinishedTurnCnt
<1>4. curMsgPosition' \in [Groups -> 0 .. MsgCnt] /\ finalized' \in [Groups -> BOOLEAN]
  <2>1. curMsgPosition' \in [Groups -> 0 .. MsgCnt]
    BY <1>1, <1>2, MsgCntAssumption DEF ClientTypeOK
  <2>2. finalized' \in [Groups -> BOOLEAN]
    BY <1>1, <1>2 DEF ClientTypeOK
  <2> QED
    BY <2>1, <2>2
<1>5. ClientTypeOK' /\ ServerTypeOK' /\ LinksOK'
  BY <1>1, <1>4, ConstantFacts, LinksKept DEF ClientTypeOK, PcStates, ServerTypeOK, serverVars
<1>6. CallOK'
  <2>1. \A gg \in Groups : ~finalized'[gg] => curMsgPosition'[gg] < MsgCnt
    BY <1>1, <1>2 DEF CallOK, ClientTypeOK
  <2> QED
    BY <1>1, <2>1 DEF CallOK, Preparing
<1>7. HandlesOK'
  <2>1. ~Preparing
    BY <1>1 DEF Preparing
  <2> QED
    BY <1>1, <2>1 DEF HandlesOK, Preparing
<1> QED
  BY <1>1, <1>3, <1>5, <1>6, <1>7

LEMMA NextLaunchType ==
    ASSUME TypeInv, UNCHANGED <<serverVars, stream>>, NextLaunch
    PROVE  TypeInv'
<1> USE MsgCntAssumption, MaxHandleAssumption, BoundsAssumption
<1> USE DEF TypeInv, TypeOK, NextLaunch, PerGroup
<1>1. AreaTypeOK' /\ ServerTypeOK' /\ LinksOK'
  BY LinksKept DEF AreaTypeOK, ServerTypeOK, areaVars, serverVars
<1>2. handles' \in [Groups -> Seq(Handle)] /\ \A g \in Groups : Len(handles'[g]) = 0
  OBVIOUS
<1>3. ClientTypeOK'
  BY <1>2 DEF ClientTypeOK
<1>4. CallOK' /\ HandlesOK'
  BY <1>2 DEF CallOK, HandlesOK, Preparing
<1> QED
  BY <1>1, <1>3, <1>4

\* Any step of the client.
LEMMA ClientType == TypeInv /\ ClientNext => TypeInv'
<1> SUFFICES ASSUME TypeInv, ClientNext PROVE TypeInv'
  OBVIOUS
<1> USE DEF ClientNext
<1>1. ASSUME NEW g \in Groups, NEW r \in Repeats, NEW ext \in Exts, NEW commit \in BOOLEAN,
             Prepare(g, r, ext, commit)
      PROVE  TypeInv'
  BY <1>1, PrepareType, ClientConstants
<1>2. ASSUME NEW g \in Groups, PrepareRefused(g) PROVE TypeInv'
  BY <1>2, PrepareRefusedType
<1>3. ASSUME NEW g \in Groups, NEW g2 \in Groups, NEW h \in Handles, InterHcclGroupSync(g, g2, h)
      PROVE  TypeInv'
  BY <1>3, InterHcclGroupSyncType
<1>4. ASSUME NEW g \in Groups, NEW h \in Handles, Commit(g, h) \/ Wait(g, h) PROVE TypeInv'
  BY <1>4, CommitType, WaitType
<1>5. ASSUME NEW g \in Groups, NEW sync \in SyncModes, Finalize(g, sync) PROVE TypeInv'
  BY <1>5, FinalizeType, ClientConstants
<1>6. CASE NextLaunch
  BY <1>6, NextLaunchType
<1>7. CASE ContinueCall
  BY <1>7, SendExtType, SendPrepareType, SendSyncType, SendFinalizeType, CommitWriteType,
     WaitReturnType, FinalizeQueriedType, FinalizeDoneType DEF ContinueCall
<1> QED
  BY <1>1, <1>2, <1>3, <1>4, <1>5, <1>6, <1>7 DEF CallApi

(* The server.                                                              *)

\* What a step of the server or of a stream leaves alone.
LEMMA ClientKept ==
    ASSUME TypeInv, UNCHANGED clientVars, Len(tasks') = Len(tasks)
    PROVE  ClientTypeOK' /\ CallOK' /\ HandlesOK'
<1>1. ClientTypeOK'
  BY DEF TypeInv, TypeOK, ClientTypeOK, clientVars
<1>2. CallOK' /\ HandlesOK'
  BY DEF TypeInv, CallOK, HandlesOK, Preparing, clientVars
<1> QED
  BY <1>1, <1>2

LEMMA VisitType ==
    ASSUME NEW g \in Groups, Visit(g) PROVE visit' \in Groups /\ UNCHANGED serverLaunch
BY NGroupsAssumption DEF Visit, Groups

LEMMA CurrentMsgType ==
    ASSUME TypeInv, NEW g \in Groups
    PROVE  CurrentMsg(g) \in Msg /\ TaskOf(CurrentMsg(g))
<1>1. sendMsgs[g][msgPos[g]] \in Msg /\ rcvMsg[g] \in Msg /\ msgPos[g] \in Pos
  BY DEF TypeInv, TypeOK, AreaTypeOK, ServerTypeOK
<1>2. TaskOf(sendMsgs[g][msgPos[g]]) /\ TaskOf(rcvMsg[g])
  BY <1>1 DEF TypeInv, LinksOK
<1> QED
  BY <1>1, <1>2 DEF CurrentMsg

LEMMA TakeMsgType ==
    ASSUME TypeInv, NEW g \in Groups, TakeMsg(g), UNCHANGED <<commitTurnCnt, finishedTurnCnt>>
    PROVE  /\ AreaTypeOK'
           /\ \A gg \in Groups, p \in Pos : TaskOf(sendMsgs'[gg][p])
<1>a. AreaTypeOK /\ \A gg \in Groups, p \in Pos : TaskOf(sendMsgs[gg][p])
  BY DEF TypeInv, TypeOK, LinksOK
<1>1. CASE UNCHANGED <<sendMsgs, paramExt>>
  BY <1>1, <1>a DEF AreaTypeOK
<1>2. CASE /\ sendMsgs' = [sendMsgs EXCEPT ![g][msgPos[g]] = NoMsg]
           /\ paramExt' = [paramExt EXCEPT ![g][msgPos[g]] = @ /\ ~CurrentMsg(g).ext]
  <2>1. TaskOf(NoMsg)
    BY DEF TaskOf, NoMsg
  <2>2. sendMsgs' \in [Groups -> [Pos -> Msg]]
    BY <1>2, <1>a, ConstantFacts DEF AreaTypeOK
  <2>3. \A gg \in Groups, p \in Pos : sendMsgs'[gg][p] \in {sendMsgs[gg][p], NoMsg}
    BY <1>2, <1>a DEF AreaTypeOK
  <2>4. paramExt' \in [Groups -> [Pos -> BOOLEAN]]
    <3>1. (paramExt[g][msgPos[g]] /\ ~CurrentMsg(g).ext) \in BOOLEAN
      OBVIOUS
    <3>2. paramExt \in [Groups -> [Pos -> BOOLEAN]]
      BY <1>a DEF AreaTypeOK
    <3> QED
      BY <1>2, <3>1, <3>2
  <2> QED
    BY <1>2, <1>a, <2>1, <2>2, <2>3, <2>4 DEF AreaTypeOK
<1> QED
  BY <1>1, <1>2 DEF TakeMsg

LEMMA ServeType ==
    ASSUME TypeInv, NEW g \in Groups, NEW type, Serve(g, type)
    PROVE  /\ AreaTypeOK'
           /\ \A gg \in Groups, p \in Pos : TaskOf(sendMsgs'[gg][p])
           /\ CurrentMsg(g) \in Msg /\ CurrentMsg(g).type = type /\ TaskOf(CurrentMsg(g))
           /\ visit' \in Groups
           /\ UNCHANGED <<server, finishFlag, timeout, serverLaunch>>
BY CurrentMsgType, TakeMsgType, VisitType DEF Serve

\* The server's tables, as NextMsg and RetryMsg leave them.
ReceiveTypeOK ==
    /\ rcvMsg \in [Groups -> Msg] /\ msgPos \in [Groups -> Pos]
    /\ retryCnt \in [Groups -> 0 .. MaxRetry + 1]
    /\ \A g \in Groups : TaskOf(rcvMsg[g])

LEMMA NextMsgType ==
    ASSUME TypeInv, NEW g \in Groups, NextMsg(g), Len(tasks') = Len(tasks)
    PROVE  ReceiveTypeOK'
<1>a. ServerTypeOK /\ \A gg \in Groups : TaskOf(rcvMsg[gg])
  BY DEF TypeInv, TypeOK, LinksOK
<1>1. rcvMsg' \in [Groups -> Msg] /\ \A gg \in Groups : rcvMsg'[gg] \in {rcvMsg[gg], NoMsg}
  BY <1>a, ConstantFacts DEF ServerTypeOK, NextMsg
<1>2. msgPos' \in [Groups -> Pos]
  BY <1>a, MsgCntAssumption DEF ServerTypeOK, NextMsg, Pos
<1>3. retryCnt' \in [Groups -> 0 .. MaxRetry + 1]
  BY <1>a, MaxRetryAssumption DEF ServerTypeOK, NextMsg
<1>4. \A gg \in Groups : TaskOf(rcvMsg[gg])'
  BY <1>a, <1>1 DEF TaskOf, NoMsg
<1> QED
  BY <1>1, <1>2, <1>3, <1>4 DEF ReceiveTypeOK

\* A message is kept for the next visit.
LEMMA RetryType ==
    ASSUME TypeInv, NEW g \in Groups, NEW type, Serve(g, type), RetryMsg(g), UNCHANGED clientVars
    PROVE  TypeInv'
<1>a. ServerTypeOK /\ LinksOK /\ stream \in [Groups -> Seq(Sqe)] /\ tasks \in Seq(Task)
  BY DEF TypeInv, TypeOK
<1>1. /\ rcvMsg' = [rcvMsg EXCEPT ![g] = CurrentMsg(g)]
      /\ retryCnt' = [retryCnt EXCEPT ![g] = @ + 1] /\ retryCnt[g] <= MaxRetry
      /\ UNCHANGED <<msgPos, expectSeqNum, finalizeFlag, handleToMsgPos, handleToRepeat,
                     stream, tasks>>
  BY DEF RetryMsg, Serve
<1>2. /\ CurrentMsg(g) \in Msg /\ TaskOf(CurrentMsg(g))
      /\ AreaTypeOK' /\ visit' \in Groups
      /\ \A gg \in Groups, p \in Pos : TaskOf(sendMsgs'[gg][p])
      /\ UNCHANGED <<server, finishFlag, timeout, serverLaunch>>
  BY ServeType
<1>3. rcvMsg' \in [Groups -> Msg] /\ \A gg \in Groups : rcvMsg'[gg] \in {rcvMsg[gg], CurrentMsg(g)}
  BY <1>a, <1>1, <1>2 DEF ServerTypeOK
<1>4. retryCnt' \in [Groups -> 0 .. MaxRetry + 1]
  BY <1>a, <1>1, MaxRetryAssumption DEF ServerTypeOK
<1>5. ServerTypeOK'
  BY <1>a, <1>1, <1>2, <1>3, <1>4 DEF ServerTypeOK
<1>6. LinksOK'
  <2>1. \A gg \in Groups : TaskOf(rcvMsg'[gg])
    BY <1>a, <1>2, <1>3 DEF LinksOK
  <2> QED
    BY <1>a, <1>1, <1>2, <2>1 DEF LinksOK, TaskOf
<1> QED
  BY <1>a, <1>1, <1>2, <1>5, <1>6, ClientKept DEF TypeInv, TypeOK

LEMMA TaskSqesType ==
    ASSUME NEW g \in Groups, NEW p \in Pos, NEW m \in Msg
    PROVE  /\ TaskSqes(g, p, m) \in Seq(Sqe)
           /\ \A i \in 1 .. Len(TaskSqes(g, p, m)) : TaskSqes(g, p, m)[i].task = m.task
<1> DEFINE sqe(i) == LET turn == (i + 2) \div 3 IN
              [type |-> CASE i % 3 = 1 -> "waitCommit" [] i % 3 = 2 -> "kernel" [] OTHER -> "post",
               group |-> g, pos |-> p, val |-> turn, last |-> turn = m.repeat, task |-> m.task]
<1>1. 3 * m.repeat \in Nat /\ m.task \in Nat
  BY DEF Msg
<1>2. ASSUME NEW i \in 1 .. 3 * m.repeat PROVE sqe(i) \in Sqe /\ sqe(i).task = m.task
  <2>1. (i + 2) \div 3 \in Nat
    BY <1>1
  <2>2. (CASE i % 3 = 1 -> "waitCommit" [] i % 3 = 2 -> "kernel" [] OTHER -> "post") \in SqeTypes
    BY DEF SqeTypes
  <2>3. ((i + 2) \div 3 = m.repeat) \in BOOLEAN
    OBVIOUS
  <2> QED
    BY <1>1, <2>1, <2>2, <2>3 DEF Sqe
<1>3. TaskSqes(g, p, m) = [i \in 1 .. 3 * m.repeat |-> sqe(i)]
  BY DEF TaskSqes
<1> HIDE DEF sqe
<1>4. TaskSqes(g, p, m) \in [1 .. 3 * m.repeat -> Sqe]
  BY <1>2, <1>3
<1> QED
  BY <1>1, <1>2, <1>3, <1>4

\* Every entry of the streams s2 is one of s or of sqes.
EntriesFrom(s2, s, sqes) ==
    \A gg \in Groups : \A i \in 1 .. Len(s2[gg]) :
        \/ \E j \in 1 .. Len(s[gg]) : s2[gg][i] = s[gg][j]
        \/ \E j \in 1 .. Len(sqes) : s2[gg][i] = sqes[j]

\* Entries added to a stream.
LEMMA EnqueueType ==
    ASSUME NEW s \in [Groups -> Seq(Sqe)], NEW g \in Groups, NEW sqes \in Seq(Sqe)
    PROVE  LET s2 == [s EXCEPT ![g] = @ \o sqes]
           IN s2 \in [Groups -> Seq(Sqe)] /\ EntriesFrom(s2, s, sqes)
<1> DEFINE s2 == [s EXCEPT ![g] = @ \o sqes]
<1>1. s[g] \in Seq(Sqe)
  OBVIOUS
<1>2. /\ s[g] \o sqes \in Seq(Sqe)
      /\ Len(s[g] \o sqes) = Len(s[g]) + Len(sqes)
      /\ \A i \in 1 .. Len(s[g]) + Len(sqes) : (s[g] \o sqes)[i] =
             IF i <= Len(s[g]) THEN s[g][i] ELSE sqes[i - Len(s[g])]
  BY <1>1, ConcatProperties
<1>3. Len(s[g]) \in Nat /\ Len(sqes) \in Nat
  BY <1>1, LenProperties
<1>4. s2[g] = s[g] \o sqes /\ \A gg \in Groups \ {g} : s2[gg] = s[gg]
  OBVIOUS
<1>5. s2 \in [Groups -> Seq(Sqe)]
  BY <1>2
<1>6. ASSUME NEW i \in 1 .. Len(s2[g])
      PROVE  \/ \E j \in 1 .. Len(s[g]) : s2[g][i] = s[g][j]
             \/ \E j \in 1 .. Len(sqes) : s2[g][i] = sqes[j]
  <2>1. CASE i <= Len(s[g])
    BY <2>1, <1>2, <1>3, <1>4
  <2>2. CASE i > Len(s[g])
    <3>1. i - Len(s[g]) \in 1 .. Len(sqes) /\ s2[g][i] = sqes[i - Len(s[g])]
      BY <2>2, <1>2, <1>3, <1>4
    <3> QED
      BY <3>1
  <2> QED
    BY <2>1, <2>2, <1>2, <1>3, <1>4
<1>7. ASSUME NEW gg \in Groups, NEW i \in 1 .. Len(s2[gg])
      PROVE  \/ \E j \in 1 .. Len(s[gg]) : s2[gg][i] = s[gg][j]
             \/ \E j \in 1 .. Len(sqes) : s2[gg][i] = sqes[j]
  <2>1. CASE gg = g
    BY <2>1, <1>6
  <2>2. CASE gg # g
    <3>1. s2[gg] = s[gg]
      BY <2>2, <1>4
    <3> QED
      BY <3>1
  <2> QED
    BY <2>1, <2>2
<1> HIDE DEF s2
<1>8. EntriesFrom(s2, s, sqes)
  BY <1>7 DEF EntriesFrom
<1> QED
  BY <1>5, <1>8 DEF s2

LEMMA PrepareProcessType ==
    ASSUME TypeInv, UNCHANGED clientVars, NEW g \in Groups, PrepareProcess(g)
    PROVE  TypeInv'
<1> DEFINE m == CurrentMsg(g)
           sqes == TaskSqes(g, msgPos[g], m)
           e == [tasks[m.task] EXCEPT !.launched = TRUE]
<1>a. /\ ServerTypeOK /\ LinksOK /\ stream \in [Groups -> Seq(Sqe)] /\ tasks \in Seq(Task)
  BY DEF TypeInv, TypeOK
<1>1. /\ Serve(g, "prepare") /\ NextMsg(g)
      /\ stream' = [stream EXCEPT ![g] = @ \o sqes]
      /\ handleToMsgPos' = [handleToMsgPos EXCEPT ![g][m.handle] = msgPos[g]]
      /\ handleToRepeat' = [handleToRepeat EXCEPT ![g][m.handle] = m.repeat]
      /\ expectSeqNum' = expectSeqNum + 1
      /\ tasks' = [tasks EXCEPT ![m.task] = e]
      /\ UNCHANGED finalizeFlag
  BY DEF PrepareProcess, Enqueue
<1>2. /\ m \in Msg /\ m.task \in 1 .. Len(tasks)
      /\ AreaTypeOK' /\ visit' \in Groups
      /\ \A gg \in Groups, p \in Pos : TaskOf(sendMsgs'[gg][p])
      /\ UNCHANGED <<server, finishFlag, timeout, serverLaunch>>
  BY <1>1, ServeType DEF TaskOf
<1>3. m.handle \in Handles /\ m.repeat \in Nat /\ msgPos[g] \in Pos
  BY <1>a, <1>2 DEF Msg, ServerTypeOK
<1>4. sqes \in Seq(Sqe) /\ \A i \in 1 .. Len(sqes) : sqes[i].task = m.task
  BY <1>2, <1>3, TaskSqesType
<1>5. tasks[m.task] \in Task
  BY <1>a, <1>2, ElementOfSeq
<1>6. e \in Task
  BY <1>5 DEF Task
<1> HIDE DEF m, sqes, e
<1>7. tasks' \in Seq(Task) /\ Len(tasks') = Len(tasks)
  BY <1>a, <1>1, <1>2, <1>6, TaskUpdate
<1>8. stream' \in [Groups -> Seq(Sqe)] /\ EntriesFrom(stream', stream, sqes)
  <2>1. stream' = [stream EXCEPT ![g] = @ \o sqes]
    BY <1>1
  <2>2. stream \in [Groups -> Seq(Sqe)] /\ sqes \in Seq(Sqe)
    BY <1>a, <1>4
  <2> QED
    BY <2>1, <2>2, EnqueueType
<1>9. /\ handleToMsgPos' \in [Groups -> [Handles -> Pos \cup {Unknown}]]
      /\ handleToRepeat' \in [Groups -> [Handles -> Nat \cup {Unknown}]]
  BY <1>a, <1>1, <1>3 DEF ServerTypeOK
<1>10. ReceiveTypeOK'
  BY <1>1, <1>7, NextMsgType
<1>11. ServerTypeOK'
  <2>1. expectSeqNum' \in Nat /\ finalizeFlag' \in [Groups -> BOOLEAN]
    BY <1>a, <1>1 DEF ServerTypeOK
  <2>2. /\ server' \in {"run", "exit", "fail"} /\ finishFlag' \in [Groups -> BOOLEAN]
        /\ timeout' \in [Groups -> 0 .. MaxTimeout] /\ serverLaunch' \in 1 .. Launches
    BY <1>a, <1>2 DEF ServerTypeOK
  <2> QED
    BY <1>2, <1>9, <1>10, <2>1, <2>2 DEF ServerTypeOK, ReceiveTypeOK
<1>12. LinksOK'
  <2>1. \A gg \in Groups : \A i \in 1 .. Len(stream'[gg]) :
           stream'[gg][i].type = "kernel" => stream'[gg][i].task \in 1 .. Len(tasks)
    <3> SUFFICES ASSUME NEW gg \in Groups, NEW i \in 1 .. Len(stream'[gg]),
                        stream'[gg][i].type = "kernel"
                 PROVE  stream'[gg][i].task \in 1 .. Len(tasks)
      OBVIOUS
    <3>1. CASE \E j \in 1 .. Len(stream[gg]) : stream'[gg][i] = stream[gg][j]
      BY <3>1, <1>a DEF LinksOK
    <3>2. CASE \E j \in 1 .. Len(sqes) : stream'[gg][i] = sqes[j]
      BY <3>2, <1>2, <1>4
    <3> QED
      BY <1>8, <3>1, <3>2 DEF EntriesFrom
  <2>2. \A gg \in Groups, h \in Handles :
           handleToMsgPos'[gg][h] # Unknown => handleToRepeat'[gg][h] # Unknown
    <3> SUFFICES ASSUME NEW gg \in Groups, NEW h \in Handles, handleToMsgPos'[gg][h] # Unknown
                 PROVE  handleToRepeat'[gg][h] # Unknown
      OBVIOUS
    <3>1. CASE gg = g /\ h = m.handle
      BY <3>1, <1>a, <1>1, <1>3 DEF ServerTypeOK, Unknown
    <3>2. CASE ~(gg = g /\ h = m.handle)
      <4>1. /\ handleToMsgPos'[gg][h] = handleToMsgPos[gg][h]
            /\ handleToRepeat'[gg][h] = handleToRepeat[gg][h]
        BY <3>2, <1>a, <1>1 DEF ServerTypeOK
      <4> QED
        BY <4>1, <1>a DEF LinksOK
    <3> QED
      BY <3>1, <3>2
  <2> QED
    BY <1>a, <1>2, <1>7, <1>10, <2>1, <2>2 DEF LinksOK, ReceiveTypeOK, TaskOf
<1> QED
  BY <1>2, <1>7, <1>8, <1>11, <1>12, ClientKept DEF TypeInv, TypeOK

LEMMA SyncSqeType ==
    ASSUME TypeInv, NEW m \in Msg, SyncKnown(m)
    PROVE  SyncSqe(m) \in Sqe /\ SyncSqe(m).type = "waitFinish"
<1>1. m.dep \in Groups /\ m.handle \in Handles
  BY DEF Msg
<1>2. handleToMsgPos[m.dep][m.handle] \in Pos
  BY <1>1 DEF TypeInv, TypeOK, ServerTypeOK, SyncKnown
<1>3. handleToRepeat[m.dep][m.handle] \in Nat
  BY <1>1 DEF TypeInv, TypeOK, ServerTypeOK, SyncKnown, LinksOK
<1> QED
  BY <1>1, <1>2, <1>3 DEF SyncSqe, Sqe, SqeTypes

LEMMA InterGroupSyncProcessType ==
    ASSUME TypeInv, UNCHANGED clientVars, NEW g \in Groups, InterGroupSyncProcess(g)
    PROVE  TypeInv'
<1> DEFINE m == CurrentMsg(g)
           sqe == SyncSqe(m)
<1>a. /\ ServerTypeOK /\ LinksOK /\ stream \in [Groups -> Seq(Sqe)] /\ tasks \in Seq(Task)
  BY DEF TypeInv, TypeOK
<1>1. /\ Serve(g, "sync") /\ NextMsg(g) /\ SyncKnown(m)
      /\ \E s \in SyncStreams(g) : stream' = [stream EXCEPT ![s] = @ \o <<sqe>>]
      /\ UNCHANGED <<expectSeqNum, finalizeFlag, handleToMsgPos, handleToRepeat, tasks>>
  BY DEF InterGroupSyncProcess, Enqueue
<1>2. /\ m \in Msg
      /\ AreaTypeOK' /\ visit' \in Groups
      /\ \A gg \in Groups, p \in Pos : TaskOf(sendMsgs'[gg][p])
      /\ UNCHANGED <<server, finishFlag, timeout, serverLaunch>>
  BY <1>1, ServeType
<1>3. sqe \in Sqe /\ sqe.type = "waitFinish"
  BY <1>1, <1>2, SyncSqeType
<1> HIDE DEF m, sqe
<1>4. PICK s \in Groups : stream' = [stream EXCEPT ![s] = @ \o <<sqe>>]
  BY <1>1 DEF SyncStreams
<1>5. <<sqe>> \in Seq(Sqe) /\ \A j \in 1 .. Len(<<sqe>>) : <<sqe>>[j] = sqe
  BY <1>3
<1>6. stream' \in [Groups -> Seq(Sqe)] /\ EntriesFrom(stream', stream, <<sqe>>)
  BY <1>a, <1>4, <1>5, EnqueueType
<1>7. ReceiveTypeOK'
  BY <1>1, NextMsgType
<1>8. ServerTypeOK'
  BY <1>a, <1>1, <1>2, <1>7 DEF ServerTypeOK, ReceiveTypeOK
<1>9. LinksOK'
  <2>1. \A gg \in Groups : \A i \in 1 .. Len(stream'[gg]) :
           stream'[gg][i].type = "kernel" => stream'[gg][i].task \in 1 .. Len(tasks)
    <3> SUFFICES ASSUME NEW gg \in Groups, NEW i \in 1 .. Len(stream'[gg]),
                        stream'[gg][i].type = "kernel"
                 PROVE  stream'[gg][i].task \in 1 .. Len(tasks)
      OBVIOUS
    <3>1. \E j \in 1 .. Len(stream[gg]) : stream'[gg][i] = stream[gg][j]
      BY <1>3, <1>5, <1>6 DEF EntriesFrom
    <3> QED
      BY <3>1, <1>a DEF LinksOK
  <2> QED
    BY <1>a, <1>1, <1>2, <1>7, <2>1 DEF LinksOK, ReceiveTypeOK, TaskOf
<1> QED
  BY <1>a, <1>1, <1>2, <1>6, <1>8, <1>9, ClientKept DEF TypeInv, TypeOK

LEMMA FinalizeProcessType ==
    ASSUME TypeInv, UNCHANGED clientVars, NEW g \in Groups, FinalizeProcess(g)
    PROVE  TypeInv'
<1>a. /\ ServerTypeOK /\ LinksOK /\ stream \in [Groups -> Seq(Sqe)] /\ tasks \in Seq(Task)
  BY DEF TypeInv, TypeOK
<1>1. /\ Serve(g, "finalize")
      /\ finalizeFlag' = [finalizeFlag EXCEPT ![g] = TRUE]
      /\ UNCHANGED <<rcvMsg, msgPos, retryCnt, expectSeqNum, handleToMsgPos, handleToRepeat,
                     stream, tasks>>
  BY DEF FinalizeProcess
<1>2. /\ AreaTypeOK' /\ visit' \in Groups
      /\ \A gg \in Groups, p \in Pos : TaskOf(sendMsgs'[gg][p])
      /\ UNCHANGED <<server, finishFlag, timeout, serverLaunch>>
  BY <1>1, ServeType
<1>3. finalizeFlag' \in [Groups -> BOOLEAN]
  BY <1>a, <1>1 DEF ServerTypeOK
<1>4. ServerTypeOK'
  BY <1>a, <1>1, <1>2, <1>3 DEF ServerTypeOK
<1>5. LinksOK'
  BY <1>a, <1>1, <1>2 DEF LinksOK, TaskOf
<1> QED
  BY <1>a, <1>1, <1>2, <1>4, <1>5, ClientKept DEF TypeInv, TypeOK

LEMMA GroupFinishType ==
    ASSUME TypeInv, UNCHANGED clientVars, NEW g \in Groups, GroupFinish(g)
    PROVE  TypeInv'
<1>a. /\ AreaTypeOK /\ ServerTypeOK /\ LinksOK
      /\ stream \in [Groups -> Seq(Sqe)] /\ tasks \in Seq(Task)
  BY DEF TypeInv, TypeOK
<1> USE DEF GroupFinish
<1>1. visit' \in Groups /\ UNCHANGED serverLaunch
  BY VisitType
<1>2. AreaTypeOK'
  BY <1>a, FinalizeCntAssumption DEF AreaTypeOK
<1>3. finishFlag' \in [Groups -> BOOLEAN] /\ server' \in {"run", "exit", "fail"}
  BY <1>a DEF ServerTypeOK
<1>4. ServerTypeOK'
  BY <1>a, <1>1, <1>3 DEF ServerTypeOK
<1>5. LinksOK'
  BY <1>a, LinksKept
<1> QED
  BY <1>a, <1>2, <1>4, <1>5, ClientKept DEF TypeInv, TypeOK

\* The visits that change no message, and those that end the server.
LEMMA OtherVisitsType ==
    ASSUME TypeInv, UNCHANGED clientVars, NEW g \in Groups,
           Finished(g) \/ InTime(g) \/ TimedOut(g) \/ RetryExceeded(g)
    PROVE  TypeInv'
<1>a. /\ AreaTypeOK /\ ServerTypeOK /\ LinksOK
      /\ stream \in [Groups -> Seq(Sqe)] /\ tasks \in Seq(Task)
  BY DEF TypeInv, TypeOK
<1>1. /\ visit' \in Groups /\ UNCHANGED serverLaunch
      /\ UNCHANGED OtherServerVars
  BY VisitType DEF Finished, InTime, TimedOut, RetryExceeded
<1>2. /\ server' \in {server, "fail"}
      /\ \/ timeout' = timeout
         \/ timeout[g] # MaxTimeout /\ timeout' = [timeout EXCEPT ![g] = @ + 1]
  BY DEF Finished, InTime, TimedOut, RetryExceeded
<1>3. timeout' \in [Groups -> 0 .. MaxTimeout]
  <2>1. timeout \in [Groups -> 0 .. 2]
    BY <1>a DEF ServerTypeOK, MaxTimeout
  <2>2. CASE timeout' = timeout
    BY <2>1, <2>2 DEF MaxTimeout
  <2>3. CASE timeout[g] # MaxTimeout /\ timeout' = [timeout EXCEPT ![g] = @ + 1]
    BY <2>1, <2>3 DEF MaxTimeout
  <2> QED
    BY <1>2, <2>2, <2>3
<1>4. AreaTypeOK'
  BY <1>a, <1>1 DEF AreaTypeOK, OtherServerVars, areaVars
<1>5. ServerTypeOK'
  BY <1>a, <1>1, <1>2, <1>3 DEF ServerTypeOK, OtherServerVars
<1>6. LinksOK'
  BY <1>a, <1>1, LinksKept DEF OtherServerVars, areaVars
<1> QED
  BY <1>a, <1>1, <1>4, <1>5, <1>6, ClientKept DEF TypeInv, TypeOK, OtherServerVars

LEMMA NoOpHandleType ==
    ASSUME TypeInv, UNCHANGED clientVars, NEW g \in Groups, NoOpHandle(g)
    PROVE  TypeInv'
<1>a. /\ AreaTypeOK /\ ServerTypeOK /\ LinksOK
      /\ stream \in [Groups -> Seq(Sqe)] /\ tasks \in Seq(Task)
  BY DEF TypeInv, TypeOK
<1> USE DEF NoOpHandle
<1>1. visit' \in Groups /\ UNCHANGED serverLaunch
  BY VisitType
<1>2. AreaTypeOK' /\ \A gg \in Groups, p \in Pos : TaskOf(sendMsgs'[gg][p])
  <2>1. CASE UNCHANGED <<sendMsgs, paramExt>>
    BY <1>a, <2>1 DEF AreaTypeOK, LinksOK
  <2>2. CASE TakeMsg(g)
    BY <2>2, TakeMsgType
  <2> QED
    BY <2>1, <2>2
<1>3. ServerTypeOK'
  BY <1>a, <1>1 DEF ServerTypeOK
<1>4. LinksOK'
  BY <1>a, <1>2 DEF LinksOK, TaskOf
<1> QED
  BY <1>a, <1>2, <1>3, <1>4, ClientKept DEF TypeInv, TypeOK

LEMMA RestartServerType ==
    ASSUME TypeInv, UNCHANGED clientVars, RestartServer
    PROVE  TypeInv'
<1>a. /\ AreaTypeOK /\ ServerTypeOK /\ LinksOK
      /\ stream \in [Groups -> Seq(Sqe)] /\ tasks \in Seq(Task)
  BY DEF TypeInv, TypeOK
<1> USE ConstantFacts, MaxRetryAssumption DEF RestartServer, FreshServer, PerGroup
<1>1. AreaTypeOK'
  BY <1>a DEF AreaTypeOK, areaVars
<1>2. ServerTypeOK'
  BY <1>a, BoundsAssumption DEF ServerTypeOK, MaxTimeout
<1>3. LinksOK'
  BY <1>a DEF LinksOK, TaskOf, NoMsg, areaVars, Unknown
<1> QED
  BY <1>a, <1>1, <1>2, <1>3, ClientKept DEF TypeInv, TypeOK

\* Any step of the server.
LEMMA ServerType == TypeInv /\ ServerNext => TypeInv'
<1> SUFFICES ASSUME TypeInv, ServerNext PROVE TypeInv'
  OBVIOUS
<1> USE DEF ServerNext
<1>1. CASE RestartServer
  BY <1>1, RestartServerType
<1>2. ASSUME NEW g \in Groups, GroupServerProcess(g) PROVE TypeInv'
  <2>1. CASE PrepareProcess(g)
    BY <2>1, PrepareProcessType
  <2>2. CASE PrepareRetry(g)
    BY <2>2, RetryType DEF PrepareRetry
  <2>3. CASE InterGroupSyncProcess(g)
    BY <2>3, InterGroupSyncProcessType
  <2>4. CASE InterGroupSyncRetry(g)
    BY <2>4, RetryType DEF InterGroupSyncRetry
  <2>5. CASE FinalizeProcess(g)
    BY <2>5, FinalizeProcessType
  <2>6. CASE GroupFinish(g)
    BY <2>6, GroupFinishType
  <2>7. CASE Finished(g) \/ InTime(g) \/ TimedOut(g) \/ RetryExceeded(g)
    BY <2>7, OtherVisitsType
  <2>8. CASE NoOpHandle(g)
    BY <2>8, NoOpHandleType
  <2> QED
    BY <1>2, <2>1, <2>2, <2>3, <2>4, <2>5, <2>6, <2>7, <2>8 DEF GroupServerProcess
<1> QED
  BY <1>1, <1>2

(* The streams.                                                             *)

\* The head of a stream is executed: what is left of it was there before.
LEMMA ExecuteType ==
    ASSUME TypeInv, NEW g \in Groups, NEW type, Execute(g, type)
    PROVE  /\ Head(stream[g]) \in Sqe /\ Head(stream[g]).type = type
           /\ type = "kernel" => Head(stream[g]).task \in 1 .. Len(tasks)
           /\ stream' \in [Groups -> Seq(Sqe)]
           /\ \A gg \in Groups : \A i \in 1 .. Len(stream'[gg]) :
                 \E j \in 1 .. Len(stream[gg]) : stream'[gg][i] = stream[gg][j]
<1>1. /\ stream \in [Groups -> Seq(Sqe)] /\ stream[g] \in Seq(Sqe) /\ stream[g] # <<>>
      /\ Head(stream[g]).type = type /\ stream' = [stream EXCEPT ![g] = Tail(@)]
  BY DEF TypeInv, TypeOK, Execute
<1>2. /\ Head(stream[g]) \in Sqe /\ Tail(stream[g]) \in Seq(Sqe)
      /\ Len(Tail(stream[g])) = Len(stream[g]) - 1
      /\ \A i \in 1 .. Len(Tail(stream[g])) : Tail(stream[g])[i] = stream[g][i + 1]
  BY <1>1, HeadTailProperties
<1>3. Len(stream[g]) \in Nat \ {0} /\ Head(stream[g]) = stream[g][1]
  BY <1>1, EmptySeq
<1>4. type = "kernel" => Head(stream[g]).task \in 1 .. Len(tasks)
  BY <1>1, <1>3 DEF TypeInv, LinksOK
<1>5. stream' \in [Groups -> Seq(Sqe)]
  BY <1>1, <1>2
<1>6. ASSUME NEW gg \in Groups, NEW i \in 1 .. Len(stream'[gg])
      PROVE  \E j \in 1 .. Len(stream[gg]) : stream'[gg][i] = stream[gg][j]
  <2>1. CASE gg = g
    <3>1. stream'[gg] = Tail(stream[g])
      BY <2>1, <1>1
    <3>2. i + 1 \in 1 .. Len(stream[g]) /\ stream'[gg][i] = stream[g][i + 1]
      BY <3>1, <1>2, <1>3
    <3> QED
      BY <2>1, <3>2
  <2>2. CASE gg # g
    <3>1. stream'[gg] = stream[gg]
      BY <2>2, <1>1
    <3> QED
      BY <3>1
  <2> QED
    BY <2>1, <2>2
<1> QED
  BY <1>1, <1>2, <1>4, <1>5, <1>6

LEMMA StoreHalfType ==
    ASSUME NEW cnt \in Nat, NEW val \in Nat
    PROVE  StoreHalf(cnt, val) \in Nat
BY DEF StoreHalf, LoadHalf, Half

LEMMA StreamType == ASSUME TypeInv, NEW g \in Groups, StreamNext(g) PROVE TypeInv'
<1> DEFINE sqe == Head(stream[g])
<1>a. /\ AreaTypeOK /\ ServerTypeOK /\ LinksOK /\ tasks \in Seq(Task)
  BY DEF TypeInv, TypeOK
<1>1. PICK type \in SqeTypes : Execute(g, type)
  BY DEF StreamNext, WaitCommit, WaitFinish, RunKernel, PostFinish, SqeTypes
<1>2. /\ sqe \in Sqe /\ sqe.type = type
      /\ type = "kernel" => sqe.task \in 1 .. Len(tasks)
      /\ stream' \in [Groups -> Seq(Sqe)]
      /\ \A gg \in Groups : \A i \in 1 .. Len(stream'[gg]) :
            \E j \in 1 .. Len(stream[gg]) : stream'[gg][i] = stream[gg][j]
      /\ UNCHANGED <<sendMsgs, paramExt, clientVars, serverVars>>
  <2>1. UNCHANGED <<sendMsgs, paramExt, clientVars, serverVars>>
    BY <1>1 DEF Execute
  <2> QED
    BY <1>1, <2>1, ExecuteType
<1>3. sqe.group \in Groups /\ sqe.pos \in Pos /\ sqe.val \in Nat
  BY <1>2 DEF Sqe
<1> HIDE DEF sqe
<1>4. tasks' \in Seq(Task) /\ Len(tasks') = Len(tasks)
  <2>1. CASE RunKernel(g)
    <3> DEFINE e == [tasks[sqe.task] EXCEPT !.executed = @ + 1]
    <3>1. tasks' = [tasks EXCEPT ![sqe.task] = e]
      BY <2>1 DEF RunKernel, sqe
    <3>2. sqe.task \in 1 .. Len(tasks)
      BY <2>1, <1>1, <1>2 DEF RunKernel, Execute, sqe
    <3>3. e \in Task
      <4>1. tasks[sqe.task] \in Task
        BY <3>2, <1>a, ElementOfSeq
      <4> QED
        BY <4>1 DEF Task
    <3> HIDE DEF e
    <3> QED
      BY <3>1, <3>2, <3>3, <1>a, TaskUpdate
  <2>2. CASE UNCHANGED tasks
    BY <2>2, <1>a
  <2> QED
    BY <2>1, <2>2 DEF StreamNext, WaitCommit, WaitFinish, PostFinish
<1>5. AreaTypeOK'
  <2>1. CASE WaitCommit(g)
    <3> DEFINE c == CounterAfter(commitTurnCnt[sqe.group][sqe.pos], sqe)
    <3>1. commitTurnCnt[sqe.group][sqe.pos] \in Nat
      BY <1>a, <1>3 DEF AreaTypeOK
    <3>2. c \in Nat
      BY <3>1, StoreHalfType DEF CounterAfter
    <3>3. /\ commitTurnCnt' = [commitTurnCnt EXCEPT ![sqe.group][sqe.pos] = c]
          /\ UNCHANGED finishedTurnCnt
      BY <2>1 DEF WaitCommit, sqe
    <3> HIDE DEF c
    <3> QED
      BY <1>a, <1>2, <1>3, <3>2, <3>3 DEF AreaTypeOK
  <2>2. CASE PostFinish(g)
    <3> DEFINE c == StoreHalf(finishedTurnCnt[sqe.group][sqe.pos], sqe.val)
    <3>1. finishedTurnCnt[sqe.group][sqe.pos] \in Nat
      BY <1>a, <1>3 DEF AreaTypeOK
    <3>2. c \in Nat
      BY <1>3, <3>1, StoreHalfType
    <3>3. /\ finishedTurnCnt' = [finishedTurnCnt EXCEPT ![sqe.group][sqe.pos] = c]
          /\ UNCHANGED commitTurnCnt
      BY <2>2 DEF PostFinish, sqe
    <3> HIDE DEF c
    <3> QED
      BY <1>a, <1>2, <1>3, <3>2, <3>3 DEF AreaTypeOK
  <2>3. CASE UNCHANGED <<commitTurnCnt, finishedTurnCnt>>
    BY <2>3, <1>a, <1>2 DEF AreaTypeOK
  <2> QED
    BY <2>1, <2>2, <2>3 DEF StreamNext, WaitFinish, RunKernel
<1>6. ServerTypeOK'
  BY <1>a, <1>2 DEF ServerTypeOK, serverVars
<1>7. LinksOK'
  <2>1. \A gg \in Groups : \A i \in 1 .. Len(stream'[gg]) :
           stream'[gg][i].type = "kernel" => stream'[gg][i].task \in 1 .. Len(tasks)
    <3> SUFFICES ASSUME NEW gg \in Groups, NEW i \in 1 .. Len(stream'[gg]),
                        stream'[gg][i].type = "kernel"
                 PROVE  stream'[gg][i].task \in 1 .. Len(tasks)
      OBVIOUS
    <3>1. PICK j \in 1 .. Len(stream[gg]) : stream'[gg][i] = stream[gg][j]
      BY <1>2
    <3> QED
      BY <3>1, <1>a DEF LinksOK
  <2> QED
    BY <1>a, <1>2, <1>4, <2>1 DEF LinksOK, TaskOf, serverVars
<1> QED
  BY <1>2, <1>4, <1>5, <1>6, <1>7, ClientKept DEF TypeInv, TypeOK

----------------------------------------------------------------------------
\* Every reachable state is well typed: in particular no call, message, table
\* or stream entry names a handle, a position or a task that does not exist.
LEMMA TypeStep == TypeInv /\ [Next]_vars => TypeInv'
<1> SUFFICES ASSUME TypeInv, [Next]_vars PROVE TypeInv'
  OBVIOUS
<1>1. CASE ClientNext
  BY <1>1, ClientType
<1>2. CASE ServerNext
  BY <1>2, ServerType
<1>3. ASSUME NEW g \in Groups, StreamNext(g) PROVE TypeInv'
  BY <1>3, StreamType
<1>4. CASE UNCHANGED vars
  BY <1>4 DEF vars, areaVars, clientVars, serverVars, TypeInv, TypeOK, AreaTypeOK,
     ClientTypeOK, ServerTypeOK, CallOK, HandlesOK, LinksOK, Preparing, TaskOf
<1> QED
  BY <1>1, <1>2, <1>3, <1>4 DEF Next, Terminated

LEMMA TypeInvariant == Spec => []TypeInv
<1> QED
  BY TypeInit, TypeStep, PTL DEF Spec

\* The type invariant of the channel.
THEOREM TypeCorrect == Spec => []TypeOK
<1>1. TypeInv => TypeOK
  BY DEF TypeInv
<1> QED
  BY <1>1, TypeInvariant, PTL

----------------------------------------------------------------------------
(* ExtensionFirst.  Between SendExt and SendPrepare the extension is there   *)
(* and the message of an earlier launch that used it is gone: otherwise the *)
(* server, taking that message, would take the new extension with it.       *)

ExtensionPending ==
    pc = "send" /\ call.msg.ext =>
        /\ call.msg.type = "prepare"
        /\ paramExt[call.group][curMsgPosition[call.group]]
        /\ ~sendMsgs[call.group][curMsgPosition[call.group]].ext

ExtensionInv ==
    /\ ExtensionFirst
    /\ ExtensionPending
    /\ pc \in {"finQuery", "finDone"} => ~call.msg.ext

LEMMA ExtensionInit == Init => ExtensionInv
BY DEF Init, InitArea, InitClient, PerPos, ExtensionInv, ExtensionFirst, ExtensionPending, NoMsg

LEMMA ExtensionClient ==
    ASSUME TypeInv, ExtensionInv, ClientNext
    PROVE  ExtensionInv'
<1>t. /\ AreaTypeOK /\ ClientTypeOK /\ CallOK
  BY DEF TypeInv, TypeOK
<1>e. ExtensionFirst /\ ExtensionPending /\ (pc \in {"finQuery", "finDone"} => ~call.msg.ext)
  BY DEF ExtensionInv
<1>1. ASSUME UNCHANGED <<sendMsgs, paramExt>>,
             \/ pc' \in {"ready", "ext", "commit", "wait"}
             \/ pc' = "send" /\ ~call'.msg.ext
             \/ pc' \in {"finQuery", "finDone"} /\ ~call'.msg.ext
      PROVE  ExtensionInv'
  BY <1>1, <1>e DEF ExtensionInv, ExtensionFirst, ExtensionPending
<1>2. ASSUME NEW type, NEW m \in Msg, PutMsg(type, m), m.ext = call.msg.ext, call.msg.ext \in BOOLEAN,
             \/ pc' \in {"ready", "commit"}
             \/ pc' = "finDone" /\ call' = call /\ ~call.msg.ext
      PROVE  ExtensionInv'
  <2> DEFINE g == call.group
             p == curMsgPosition[g]
  <2>1. /\ sendMsgs' = [sendMsgs EXCEPT ![g][p] = m] /\ UNCHANGED paramExt /\ pc = "send"
    BY <1>2 DEF PutMsg
  <2>2. \A gg \in Groups, pp \in Pos : \/ sendMsgs'[gg][pp] = sendMsgs[gg][pp]
                                       \/ gg = g /\ pp = p /\ sendMsgs'[gg][pp] = m
    BY <1>t, <2>1 DEF AreaTypeOK
  <2>3. call.msg.ext => paramExt[g][p]
    BY <1>e, <2>1 DEF ExtensionPending
  <2> HIDE DEF g, p
  <2>4. ExtensionFirst'
    <3> SUFFICES ASSUME NEW gg \in Groups, NEW pp \in Pos, sendMsgs'[gg][pp].ext
                 PROVE  paramExt'[gg][pp]
      BY DEF ExtensionFirst
    <3>1. CASE sendMsgs'[gg][pp] = sendMsgs[gg][pp]
      BY <3>1, <1>e, <2>1 DEF ExtensionFirst
    <3>2. CASE gg = g /\ pp = p /\ sendMsgs'[gg][pp] = m
      BY <3>2, <1>2, <2>1, <2>3
    <3> QED
      BY <2>2, <3>1, <3>2
  <2> QED
    BY <1>2, <2>4 DEF ExtensionInv, ExtensionPending
<1>3. ASSUME NEW g \in Groups, NEW r \in Repeats, NEW ext \in Exts, NEW commit \in BOOLEAN,
             Prepare(g, r, ext, commit)
      PROVE  ExtensionInv'
  <2>1. pc' = FirstStep(ext) /\ call'.msg.ext = ext /\ UNCHANGED <<sendMsgs, paramExt>>
    BY <1>3 DEF Prepare, ApiCall, NoMsg, areaVars
  <2>2. ext \in BOOLEAN
    BY ClientConstants
  <2> QED
    BY <1>1, <2>1, <2>2 DEF FirstStep
<1>4. ASSUME NEW g \in Groups, NEW g2 \in Groups, NEW h \in Handles, InterHcclGroupSync(g, g2, h)
      PROVE  ExtensionInv'
  <2>1. UNCHANGED <<sendMsgs, paramExt>>
    BY <1>4 DEF InterHcclGroupSync, areaVars
  <2> DEFINE m == [NoMsg EXCEPT !.type = "sync", !.handle = h, !.dep = g2]
  <2>2. pc' = "send" /\ call' = ApiCall(g, 0, m, FALSE)
    BY <1>4 DEF InterHcclGroupSync
  <2>3. ~m.ext
    BY DEF NoMsg
  <2> HIDE DEF m
  <2>4. ~call'.msg.ext
    BY <2>2, <2>3 DEF ApiCall
  <2> QED
    BY <1>1, <2>1, <2>2, <2>4
<1>5. ASSUME NEW g \in Groups, NEW sync \in SyncModes, Finalize(g, sync)
      PROVE  ExtensionInv'
  <2>1. UNCHANGED <<sendMsgs, paramExt>> /\ pc' \in {"finQuery", "send"} /\ ~call'.msg.ext
    BY <1>5 DEF Finalize, ApiCall, NoMsg, areaVars
  <2> QED
    BY <1>1, <2>1
<1>6. ASSUME \/ \E g \in Groups : \/ PrepareRefused(g)
                                  \/ \E h \in Handles : Commit(g, h) \/ Wait(g, h)
             \/ NextLaunch \/ CommitWrite \/ WaitReturn \/ FinalizeDone
      PROVE  ExtensionInv'
  <2>1. UNCHANGED <<sendMsgs, paramExt>> /\ pc' \in {"ready", "commit", "wait"}
    BY <1>6 DEF PrepareRefused, Commit, Wait, NextLaunch, CommitWrite, WaitReturn, FinalizeDone,
       Return, areaVars
  <2> QED
    BY <1>1, <2>1
<1>7. CASE FinalizeQueried
  <2>1. UNCHANGED <<sendMsgs, paramExt>> /\ pc' = "send" /\ ~call'.msg.ext
    BY <1>7, <1>e DEF FinalizeQueried, GoOn, areaVars
  <2> QED
    BY <1>1, <2>1
<1>8. CASE SendExt
  <2> DEFINE g == call.group
             p == curMsgPosition[g]
  <2>1. /\ pc = "ext" /\ ~paramExt[g][p] /\ paramExt' = [paramExt EXCEPT ![g][p] = TRUE]
        /\ pc' = "send" /\ UNCHANGED <<sendMsgs, call, curMsgPosition>>
    BY <1>8 DEF SendExt, ExtFree, GoOn
  <2>2. g \in Groups /\ p \in Pos /\ call.msg.type = "prepare"
    <3>1. g \in Groups /\ p \in 0 .. MsgCnt
      BY <1>t DEF ClientTypeOK, Call
    <3>2. call.msg.type = "prepare" /\ p + 1 < MsgCnt
      BY <1>t, <2>1 DEF CallOK, Preparing
    <3> QED
      BY <3>1, <3>2, MsgCntAssumption DEF Pos
  <2> HIDE DEF g, p
  <2>3. /\ paramExt'[g][p]
        /\ \A gg \in Groups, pp \in Pos : paramExt[gg][pp] => paramExt'[gg][pp]
    BY <1>t, <2>1, <2>2 DEF AreaTypeOK
  <2>4. ~sendMsgs'[g][p].ext
    BY <1>e, <2>1, <2>2 DEF ExtensionFirst
  <2>5. ExtensionFirst'
    BY <1>e, <2>1, <2>3 DEF ExtensionFirst
  <2> QED
    BY <2>1, <2>2, <2>3, <2>4, <2>5 DEF ExtensionInv, ExtensionPending, g, p
<1>9. CASE SendPrepare
  <2> DEFINE m == [call.msg EXCEPT !.seq = primitiveId, !.task = Len(tasks) + 1]
  <2>1. PutMsg("prepare", m) /\ pc' \in {"ready", "commit"}
    BY <1>9 DEF SendPrepare, Return
  <2>2. call.msg \in Msg /\ primitiveId \in Nat /\ Len(tasks) + 1 \in Nat
    <3>1. tasks \in Seq(Task)
      BY DEF TypeInv, TypeOK
    <3> QED
      BY <1>t, <3>1, LenProperties, SeqModAssumption DEF ClientTypeOK, Call
  <2>3. m \in Msg /\ m.ext = call.msg.ext /\ call.msg.ext \in BOOLEAN
    BY <2>2 DEF Msg
  <2> HIDE DEF m
  <2> QED
    BY <1>2, <2>1, <2>3
<1>10. CASE SendSync \/ SendFinalize
  <2>1. call.msg \in Msg /\ call.msg.ext \in BOOLEAN
    BY <1>t DEF ClientTypeOK, Call, Msg
  <2>2. CASE SendSync
    <3>1. PutMsg("sync", call.msg) /\ pc' = "ready"
      BY <2>2 DEF SendSync, Return
    <3> QED
      BY <1>2, <2>1, <3>1
  <2>3. CASE SendFinalize
    <3>1. /\ PutMsg("finalize", call.msg)
          /\ pc' = "ready" \/ (pc' = "finDone" /\ call' = call)
      BY <2>3 DEF SendFinalize, Return, GoOn
    <3>2. ~call.msg.ext
      BY <3>1, <1>e DEF PutMsg, ExtensionPending
    <3> QED
      BY <1>2, <2>1, <3>1, <3>2
  <2> QED
    BY <1>10, <2>2, <2>3
<1> QED
  BY <1>3, <1>4, <1>5, <1>6, <1>7, <1>8, <1>9, <1>10
     DEF ClientNext, CallApi, ContinueCall

\* A server that takes an AlltoAllV message takes the extension of the same slot.
LEMMA ExtensionTaken ==
    ASSUME TypeInv, ExtensionInv, NEW g \in Groups, TakeMsg(g), UNCHANGED clientVars
    PROVE  ExtensionInv'
<1>t. AreaTypeOK /\ ClientTypeOK
  BY DEF TypeInv, TypeOK
<1>e. ExtensionFirst /\ ExtensionPending /\ (pc \in {"finQuery", "finDone"} => ~call.msg.ext)
  BY DEF ExtensionInv
<1>1. CASE UNCHANGED <<sendMsgs, paramExt>>
  BY <1>1, <1>e DEF ExtensionInv, ExtensionFirst, ExtensionPending, clientVars
<1>2. CASE ~(retryCnt[g] > 0)
  <2> DEFINE q == msgPos[g]
  <2>1. /\ sendMsgs' = [sendMsgs EXCEPT ![g][q] = NoMsg]
        /\ paramExt' = [paramExt EXCEPT ![g][q] = @ /\ ~sendMsgs[g][q].ext]
    BY <1>2 DEF TakeMsg, CurrentMsg
  <2> HIDE DEF q
  <2>2. \A gg \in Groups, pp \in Pos :
           \/ gg = g /\ pp = q /\ sendMsgs'[gg][pp] = NoMsg
           \/ sendMsgs'[gg][pp] = sendMsgs[gg][pp] /\ paramExt'[gg][pp] = paramExt[gg][pp]
    BY <1>t, <2>1 DEF AreaTypeOK
  <2>3. \A gg \in Groups, pp \in Pos :
           paramExt[gg][pp] /\ ~sendMsgs[gg][pp].ext => paramExt'[gg][pp]
    BY <1>t, <2>1 DEF AreaTypeOK
  <2>4. ExtensionFirst'
    <3> SUFFICES ASSUME NEW gg \in Groups, NEW pp \in Pos, sendMsgs'[gg][pp].ext
                 PROVE  paramExt'[gg][pp]
      BY DEF ExtensionFirst
    <3>1. sendMsgs'[gg][pp] # NoMsg
      BY DEF NoMsg
    <3> QED
      BY <2>2, <3>1, <1>e DEF ExtensionFirst
  <2>5. ExtensionPending'
    <3> SUFFICES ASSUME pc = "send", call.msg.ext
                 PROVE  /\ call.msg.type = "prepare"
                        /\ paramExt'[call.group][curMsgPosition[call.group]]
                        /\ ~sendMsgs'[call.group][curMsgPosition[call.group]].ext
      BY DEF ExtensionPending, clientVars
    <3> DEFINE gg == call.group
               pp == curMsgPosition[gg]
    <3>1. call.msg.type = "prepare" /\ paramExt[gg][pp] /\ ~sendMsgs[gg][pp].ext
      BY <1>e DEF ExtensionPending
    <3>2. gg \in Groups /\ pp \in Pos
      <4>1. gg \in Groups /\ pp \in 0 .. MsgCnt
        BY <1>t DEF ClientTypeOK, Call
      <4>2. pp + 1 < MsgCnt
        BY <3>1 DEF TypeInv, CallOK, Preparing
      <4> QED
        BY <4>1, <4>2, MsgCntAssumption DEF Pos
    <3>3. ~NoMsg.ext
      BY DEF NoMsg
    <3> HIDE DEF gg, pp
    <3>4. paramExt'[gg][pp]
      BY <2>3, <3>1, <3>2
    <3>5. ~sendMsgs'[gg][pp].ext
      BY <2>2, <3>1, <3>2, <3>3
    <3> QED
      BY <3>1, <3>4, <3>5 DEF gg, pp
  <2> QED
    BY <2>4, <2>5, <1>e DEF ExtensionInv, clientVars
<1> QED
  BY <1>1, <1>2 DEF TakeMsg

LEMMA ExtensionStep == TypeInv /\ ExtensionInv /\ [Next]_vars => ExtensionInv'
<1> SUFFICES ASSUME TypeInv, ExtensionInv, [Next]_vars PROVE ExtensionInv'
  OBVIOUS
<1>0. ASSUME UNCHANGED <<sendMsgs, paramExt, clientVars>> PROVE ExtensionInv'
  BY <1>0 DEF ExtensionInv, ExtensionFirst, ExtensionPending, clientVars
<1>1. CASE ClientNext
  BY <1>1, ExtensionClient
<1>2. CASE ServerNext
  <2>1. ASSUME NEW g \in Groups, GroupServerProcess(g), NEW type, Serve(g, type)
        PROVE  ExtensionInv'
    BY <1>2, <2>1, ExtensionTaken DEF Serve, ServerNext
  <2>2. ASSUME NEW g \in Groups,
               GroupFinish(g) \/ Finished(g) \/ InTime(g) \/ TimedOut(g) \/ RetryExceeded(g)
        PROVE  ExtensionInv'
    BY <1>0, <1>2, <2>2
       DEF ServerNext, GroupFinish, Finished, InTime, TimedOut, RetryExceeded, OtherServerVars,
           areaVars
  <2>3. ASSUME NEW g \in Groups, NoOpHandle(g) PROVE ExtensionInv'
    BY <1>0, <1>2, <2>3, ExtensionTaken DEF ServerNext, NoOpHandle
  <2>4. CASE RestartServer
    BY <1>0, <1>2, <2>4 DEF ServerNext, RestartServer, areaVars
  <2> QED
    BY <1>2, <2>1, <2>2, <2>3, <2>4
       DEF ServerNext, GroupServerProcess, PrepareProcess, PrepareRetry, InterGroupSyncProcess,
           InterGroupSyncRetry, FinalizeProcess
<1>3. ASSUME NEW g \in Groups, StreamNext(g) PROVE ExtensionInv'
  BY <1>0, <1>3 DEF StreamNext, WaitCommit, WaitFinish, RunKernel, PostFinish, Execute
<1>4. CASE UNCHANGED vars
  BY <1>0, <1>4 DEF vars, areaVars
<1> QED
  BY <1>1, <1>2, <1>3, <1>4 DEF Next, Terminated

\* An AlltoAllV message is never visible to the server without its extension,
\* for any number of groups, slots and launches (CommonPrepareImpl writes the
\* extension first; SendMsgToServer waits until the last one was taken).
THEOREM ExtensionFirstCorrect == Spec => []ExtensionFirst
<1>1. ExtensionInv => ExtensionFirst
  BY DEF ExtensionInv
<1> QED
  BY <1>1, TypeInvariant, ExtensionInit, ExtensionStep, PTL DEF Spec

----------------------------------------------------------------------------
(* Where the messages are.                                                  *)

\* Whether the client has sent FINALIZE to group g in this launch, and the
\* position after its last message.
Finalizing(g) == pc = "finDone" /\ call.group = g
Part == {"open", "closed"}
Sent(g) == IF finalized[g] \/ Finalizing(g) THEN "closed" ELSE "open"
End(g) == IF Finalizing(g) THEN curMsgPosition[g] + 1 ELSE curMsgPosition[g]

\* The next slot the server reads: that of a message being retried is free.
From(g) == IF retryCnt[g] > 0 THEN msgPos[g] + 1 ELSE msgPos[g]

\* The slots from a to b hold messages; FINALIZE is the last if they are closed.
Full(g, a, b, part) ==
    \A p \in Pos : a <= p /\ p < b =>
        /\ sendMsgs[g][p] # NoMsg
        /\ sendMsgs[g][p].type = "finalize" <=> part = "closed" /\ p = b - 1
        /\ sendMsgs[g][p].type # "finalize" => p + 1 < MsgCnt

\* What is left of the messages of the server's launch, which end at b, and
\* the messages of the next launch, which end at e.
Layout(g, e, s, b, t) ==
    /\ Full(g, 0, e, s)
    /\ s = "closed" => e > 0
    /\ t = "closed" => b > 0
    /\ finalizeFlag[g] => t = "closed"
    /\ ~finalizeFlag[g] => /\ e <= From(g) /\ From(g) <= b
                           /\ t = "closed" => From(g) < b
                           /\ Full(g, From(g), b, t)
    /\ \A p \in Pos : e <= p /\ (finalizeFlag[g] \/ p < From(g) \/ p >= b)
                        => sendMsgs[g][p] = NoMsg

\* The client may be a launch behind the server, or two ahead: then it cannot
\* send, as slot 0 holds a message of the launch between.
Placed(g) ==
    \/ /\ launch + 1 = serverLaunch /\ Sent(g) = "closed"
       /\ Layout(g, 0, "open", 0, "open")
    \/ /\ launch = serverLaunch
       /\ Layout(g, 0, "open", End(g), Sent(g))
    \/ /\ launch = serverLaunch + 1
       /\ \E b \in 0 .. MsgCnt : Layout(g, End(g), Sent(g), b, "closed")
    \/ /\ launch = serverLaunch + 2 /\ End(g) = 0 /\ Sent(g) = "open"
       /\ \E e, b \in 0 .. MsgCnt : Layout(g, e, "closed", b, "closed")

\* A server that gave up reads no more.
Abandoned(g) ==
    \/ launch + 1 = serverLaunch /\ msgPos[g] = 0 /\ ~finalizeFlag[g]
    \/ /\ launch = serverLaunch
       /\ IF finalizeFlag[g] THEN Sent(g) = "closed" ELSE msgPos[g] <= End(g)
       /\ \A p \in Pos : p < msgPos[g] \/ finalizeFlag[g] => sendMsgs[g][p] = NoMsg
    \/ launch > serverLaunch

RetryInv ==
    /\ \A g \in Groups : retryCnt[g] > 0 =>
          /\ ~finalizeFlag[g] /\ rcvMsg[g].type \in {"prepare", "sync"}
          /\ msgPos[g] + 1 < MsgCnt
    /\ \A g \in Groups : finishFlag[g] => finalizeFlag[g]
    /\ server = "exit" => \A g \in Groups : finishFlag[g]

PlaceInv ==
    /\ RetryInv
    /\ server # "fail" => \A g \in Groups : Placed(g)
    /\ server = "fail" => \A g \in Groups : Abandoned(g)

----------------------------------------------------------------------------
(* What a turn that runs was committed by.                                  *)

Committing(g, i) == pc = "commit" /\ call.group = g /\ call.handle + 1 = i

\* The rows of the client's tables describe tasks of its launch.
TableInv ==
    /\ \A g \in Groups : \A i \in 1 .. Len(handles[g]) :
        LET hd == handles[g][i]
            t == tasks[hd.task]
        IN /\ t.group = g /\ t.repeat = hd.repeat
           /\ hd.commit <= hd.repeat /\ hd.pos < curMsgPosition[g]
           /\ IF Committing(g, i) THEN t.committed < hd.commit ELSE t.committed = hd.commit
    /\ \A g \in Groups : \A i, j \in 1 .. Len(handles[g]) :
        i # j => /\ handles[g][i].pos # handles[g][j].pos
                 /\ handles[g][i].task # handles[g][j].task

FullyCommitted(t) == tasks[t].committed = tasks[t].repeat

\* The tasks of earlier launches are committed, and those of a finalized group.
InTable(t) == \E g \in Groups : \E i \in 1 .. Len(handles[g]) : handles[g][i].task = t
CommittedInv ==
    /\ \A t \in 1 .. Len(tasks) : FullyCommitted(t) \/ InTable(t)
    /\ \A g \in Groups :
        \/ finalized[g]
        \/ pc \in {"finQuery", "send", "finDone"} /\ call.msg.type = "finalize" /\ call.group = g
        => CommittedAll(g)

\* The task t of group g that waits at position p, in whatever form.
At(g, p, t) ==
    /\ tasks[t].group = g
    /\ \A i \in 1 .. Len(handles[g]) : handles[g][i].task = t => handles[g][i].pos = p

NotLaunched(g, p, m) ==
    /\ At(g, p, m.task) /\ ~tasks[m.task].launched
    /\ tasks[m.task].executed = 0 /\ tasks[m.task].repeat = m.repeat

InSlot(g, p) == sendMsgs[g][p].type = "prepare"
InHand(g) == retryCnt[g] > 0 /\ rcvMsg[g].type = "prepare"

MessageInv ==
    /\ \A g \in Groups, p \in Pos : InSlot(g, p) =>
        /\ NotLaunched(g, p, sendMsgs[g][p])
        /\ \A q \in Pos : InSlot(g, q) /\ p # q => sendMsgs[g][p].task # sendMsgs[g][q].task
    /\ \A g \in Groups : InHand(g) =>
        /\ NotLaunched(g, msgPos[g], rcvMsg[g])
        /\ \A p \in Pos : InSlot(g, p) => sendMsgs[g][p].task # rcvMsg[g].task

\* The entries of a stream.
EntryOK(e, g) ==
    e.type # "waitFinish" =>
        /\ e.task \in 1 .. Len(tasks)
        /\ e.group = g /\ At(g, e.pos, e.task) /\ tasks[e.task].launched
        /\ e.val \in 1 .. tasks[e.task].repeat
        /\ e.last <=> e.val = tasks[e.task].repeat
EntryInv == \A g \in Groups : \A j \in 1 .. Len(stream[g]) : EntryOK(stream[g][j], g)

\* A kernel comes after the wait for its commit; the turns of a task in order.
KernelOK(g, j) ==
    LET e == stream[g][j] IN
    e.type = "kernel" =>
        /\ tasks[e.task].executed < e.val
        /\ j = 1 => e.val <= tasks[e.task].committed
        /\ j > 1 => stream[g][j - 1] = [e EXCEPT !.type = "waitCommit"]
        /\ \A k \in 1 .. j - 1 :
            stream[g][k].type = "kernel" /\ stream[g][k].task = e.task
                => stream[g][k].val < e.val
KernelInv == \A g \in Groups : \A j \in 1 .. Len(stream[g]) : KernelOK(g, j)

\* The count at a position, as the stream reads it, belongs to the task that is
\* next there; it was committed that far, or in an earlier launch altogether.
Low(g, p) == LoadHalf(commitTurnCnt[g][p])
Covered(g, p, t) == Low(g, p) <= tasks[t].committed \/ FullyCommitted(t)
LastWait(e, p) == e.type = "waitCommit" /\ e.last /\ e.pos = p
NoneBefore(g, p, j) == \A k \in 1 .. j - 1 : ~LastWait(stream[g][k], p)
NoneLeft(g, p) == NoneBefore(g, p, Len(stream[g]) + 1)

CountOK(g, p) ==
    /\ \A j \in 1 .. Len(stream[g]) :
        stream[g][j].type = "waitCommit" /\ stream[g][j].pos = p /\ NoneBefore(g, p, j)
            => Covered(g, p, stream[g][j].task)
    /\ NoneLeft(g, p) =>
        IF InHand(g) /\ msgPos[g] = p THEN Covered(g, p, rcvMsg[g].task)
        ELSE IF InSlot(g, p) THEN Covered(g, p, sendMsgs[g][p].task)
        ELSE Low(g, p) = 0
CountInv == \A g \in Groups, p \in Pos : CountOK(g, p)

\* What is still to be committed is still waited for.
Pending(t) ==
    \E g \in Groups :
        \/ \E p \in Pos : InSlot(g, p) /\ sendMsgs[g][p].task = t
        \/ InHand(g) /\ rcvMsg[g].task = t
        \/ \E j \in 1 .. Len(stream[g]) :
            stream[g][j].type = "waitCommit" /\ stream[g][j].last /\ stream[g][j].task = t
PendingInv == \A t \in 1 .. Len(tasks) : FullyCommitted(t) \/ Pending(t)

TurnsInv ==
    \A t \in 1 .. Len(tasks) :
        tasks[t].executed <= tasks[t].committed /\ tasks[t].committed <= tasks[t].repeat

CommitInv ==
    /\ TableInv /\ CommittedInv /\ MessageInv /\ EntryInv /\ KernelInv
    /\ CountInv /\ PendingInv /\ TurnsInv

----------------------------------------------------------------------------
(* No message is left behind.                                               *)

LEMMA PlaceTypes ==
    ASSUME TypeInv, NEW g \in Groups
    PROVE  /\ MsgCnt \in Nat /\ MsgCnt > 1
           /\ msgPos[g] \in 0 .. MsgCnt - 1 /\ retryCnt[g] \in Nat
           /\ curMsgPosition[g] \in 0 .. MsgCnt
           /\ finalizeFlag[g] \in BOOLEAN /\ finalized[g] \in BOOLEAN
           /\ launch \in Nat /\ serverLaunch \in Nat
           /\ sendMsgs \in [Groups -> [Pos -> Msg]] /\ Pos = 0 .. MsgCnt - 1
           /\ Sent(g) \in Part /\ End(g) \in 0 .. MsgCnt
           /\ From(g) \in 0 .. MsgCnt
<1>1. /\ AreaTypeOK /\ ClientTypeOK /\ ServerTypeOK /\ CallOK
  BY DEF TypeInv, TypeOK
<1>2. MsgCnt \in Nat /\ MsgCnt > 1 /\ Pos = 0 .. MsgCnt - 1
  BY MsgCntAssumption DEF Pos
<1>3. /\ msgPos[g] \in 0 .. MsgCnt - 1 /\ retryCnt[g] \in Nat
      /\ finalizeFlag[g] \in BOOLEAN /\ serverLaunch \in Nat
  BY <1>1, <1>2, MaxRetryAssumption, BoundsAssumption DEF ServerTypeOK
<1>4. /\ curMsgPosition[g] \in 0 .. MsgCnt /\ finalized[g] \in BOOLEAN /\ launch \in Nat
  BY <1>1, BoundsAssumption DEF ClientTypeOK
<1>5. sendMsgs \in [Groups -> [Pos -> Msg]]
  BY <1>1 DEF AreaTypeOK
<1>6. Finalizing(g) => curMsgPosition[g] < MsgCnt
  BY <1>1 DEF Finalizing, CallOK
<1> QED
  BY <1>2, <1>3, <1>4, <1>5, <1>6 DEF Sent, End, From, Finalizing, Part

\* What the server has of a group, and what is in the slots, stays.
LEMMA LayoutSame ==
    ASSUME NEW g \in Groups, sendMsgs'[g] = sendMsgs[g], From(g)' = From(g),
           finalizeFlag'[g] = finalizeFlag[g],
           NEW e, NEW s, NEW b, NEW t, Layout(g, e, s, b, t)
    PROVE  Layout(g, e, s, b, t)'
BY DEF Layout, Full

\* The next message of the server's launch is put into its slot.
LEMMA LayoutPutOwn ==
    ASSUME TypeInv, NEW g \in Groups, NEW b \in Pos, NEW m \in Msg, m.type # "none",
           NEW fin \in Part, fin = "closed" <=> m.type = "finalize",
           m.type # "finalize" => b + 1 < MsgCnt,
           sendMsgs' = [sendMsgs EXCEPT ![g][b] = m],
           From(g)' = From(g), finalizeFlag'[g] = finalizeFlag[g],
           Layout(g, 0, "open", b, "open")
    PROVE  Layout(g, 0, "open", b + 1, fin)'
<1> SUFFICES ASSUME NEW c, c = b + 1, NEW e, e = 0, NEW s, s = "open"
             PROVE  Layout(g, e, s, c, fin)'
  OBVIOUS
<1>1. /\ sendMsgs'[g][b] = m /\ m # NoMsg
      /\ \A p \in Pos \ {b} : sendMsgs'[g][p] = sendMsgs[g][p]
  BY PlaceTypes DEF NoMsg
<1>2. /\ b \in Nat /\ From(g) \in Nat /\ \A p \in Pos : p \in Nat /\ p < MsgCnt
      /\ MsgCnt \in Nat
  BY PlaceTypes
<1>3. ~finalizeFlag[g] /\ From(g) <= b
  BY DEF Layout
<1>4. Full(g, From(g), c, fin)' /\ Full(g, 0, e, s)'
  BY <1>1, <1>2, <1>3 DEF Layout, Full
<1>5. \A p \in Pos : p < From(g) \/ p >= c => sendMsgs'[g][p] = NoMsg
  BY <1>1, <1>2, <1>3 DEF Layout
<1> QED
  BY <1>2, <1>3, <1>4, <1>5 DEF Layout

\* A message of the next launch: it waits for the server to read the slot.
LEMMA LayoutPutNext ==
    ASSUME TypeInv, NEW g \in Groups, NEW e \in Pos, NEW m \in Msg, m.type # "none",
           NEW fin \in Part, fin = "closed" <=> m.type = "finalize",
           m.type # "finalize" => e + 1 < MsgCnt, sendMsgs[g][e] = NoMsg,
           sendMsgs' = [sendMsgs EXCEPT ![g][e] = m],
           From(g)' = From(g), finalizeFlag'[g] = finalizeFlag[g],
           NEW b \in 0 .. MsgCnt, Layout(g, e, "open", b, "closed")
    PROVE  Layout(g, e + 1, fin, b, "closed")'
<1> SUFFICES ASSUME NEW c, c = e + 1, NEW t, t = "closed" PROVE Layout(g, c, fin, b, t)'
  OBVIOUS
<1>1. /\ sendMsgs'[g][e] = m /\ m # NoMsg
      /\ \A p \in Pos \ {e} : sendMsgs'[g][p] = sendMsgs[g][p]
  BY PlaceTypes DEF NoMsg
<1>2. /\ e \in Nat /\ b \in Nat /\ From(g) \in Nat
      /\ \A p \in Pos : p \in Nat /\ p < MsgCnt
      /\ MsgCnt \in Nat
  BY PlaceTypes
<1>3. ~finalizeFlag[g] => e < From(g)
  <2>1. ~finalizeFlag[g] => e <= From(g) /\ (From(g) <= e /\ e < b => sendMsgs[g][e] # NoMsg)
                            /\ From(g) < b
    BY DEF Layout, Full
  <2> QED
    BY <1>2, <2>1
<1>4. Full(g, 0, c, fin)'
  BY <1>1, <1>2 DEF Layout, Full
<1>5. ~finalizeFlag[g] => Full(g, From(g), b, t)'
  BY <1>1, <1>2, <1>3 DEF Layout, Full
<1>6. \A p \in Pos : c <= p /\ (finalizeFlag[g] \/ p < From(g) \/ p >= b)
                        => sendMsgs'[g][p] = NoMsg
  BY <1>1, <1>2 DEF Layout
<1>7. b > 0 /\ c > 0 /\ (~finalizeFlag[g] => c <= From(g) /\ From(g) < b)
  <2>1. b > 0 /\ (~finalizeFlag[g] => From(g) < b)
    BY DEF Layout
  <2> QED
    BY <1>2, <1>3, <2>1
<1> QED
  BY <1>2, <1>4, <1>5, <1>6, <1>7 DEF Layout

\* The server takes the next message, and goes on behind it or keeps a copy.
LEMMA LayoutTake ==
    ASSUME TypeInv, NEW g \in Groups, NEW f \in Pos, f = From(g), ~finalizeFlag[g],
           sendMsgs[g][f] # NoMsg,
           sendMsgs' = [sendMsgs EXCEPT ![g][f] = NoMsg],
           \/ /\ sendMsgs[g][f].type # "finalize"
              /\ ~finalizeFlag'[g] /\ From(g)' = f + 1
           \/ sendMsgs[g][f].type = "finalize" /\ finalizeFlag'[g] = TRUE,
           NEW e \in 0 .. MsgCnt, NEW s \in Part, NEW b \in 0 .. MsgCnt, NEW t \in Part,
           Layout(g, e, s, b, t)
    PROVE  Layout(g, e, s, b, t)' /\ (sendMsgs[g][f].type # "finalize" => f + 1 < MsgCnt)
<1>1. /\ sendMsgs'[g][f] = NoMsg
      /\ \A p \in Pos \ {f} : sendMsgs'[g][p] = sendMsgs[g][p]
  BY PlaceTypes
<1>2. /\ e \in Nat /\ b \in Nat /\ f \in Nat
      /\ \A p \in Pos : p \in Nat /\ p < MsgCnt
      /\ MsgCnt \in Nat
  BY PlaceTypes
<1>3. /\ e <= f /\ f <= b /\ Full(g, 0, e, s) /\ Full(g, f, b, t) /\ (s = "closed" => e > 0)
      /\ (t = "closed" => f < b)
      /\ \A p \in Pos : e <= p /\ (p < f \/ p >= b) => sendMsgs[g][p] = NoMsg
  BY DEF Layout
<1>4. f < b
  BY <1>2, <1>3
<1>5. /\ sendMsgs[g][f].type = "finalize" <=> t = "closed" /\ f = b - 1
      /\ sendMsgs[g][f].type # "finalize" => f + 1 < MsgCnt
  BY <1>2, <1>3, <1>4 DEF Full
<1>6. Full(g, 0, e, s)'
  BY <1>1, <1>2, <1>3 DEF Full
<1>7. CASE sendMsgs[g][f].type = "finalize"
  <2>1. finalizeFlag'[g] /\ t = "closed" /\ f = b - 1
    BY <1>5, <1>7
  <2>2. \A p \in Pos : e <= p => sendMsgs'[g][p] = NoMsg
    BY <1>1, <1>2, <1>3, <2>1
  <2> QED
    BY <1>2, <1>3, <1>6, <1>7, <2>1, <2>2 DEF Layout
<1>8. CASE sendMsgs[g][f].type # "finalize"
  <2>1. ~finalizeFlag'[g] /\ From(g)' = f + 1 /\ (t = "closed" => f + 1 < b)
    BY <1>2, <1>4, <1>5, <1>8
  <2>2. Full(g, f + 1, b, t)'
    BY <1>1, <1>2, <1>3 DEF Full
  <2>3. \A p \in Pos : e <= p /\ (p < f + 1 \/ p >= b) => sendMsgs'[g][p] = NoMsg
    BY <1>1, <1>2, <1>3
  <2> QED
    BY <1>2, <1>3, <1>4, <1>5, <1>6, <2>1, <2>2, <2>3 DEF Layout
<1> QED
  BY <1>7, <1>8

\* What a step of the client means for the slots of a group: it is none of
\* their business, it puts the next message, or it is the next launch.
SlotsKept == /\ sendMsgs' = sendMsgs /\ launch' = launch
             /\ \A g \in Groups : End(g)' = End(g) /\ Sent(g)' = Sent(g)

PartAfter(m) == IF m.type = "finalize" THEN "closed" ELSE "open"
SlotFilled(g, m) ==
    /\ pc = "send" /\ Sent(g) = "open" /\ End(g) = curMsgPosition[g] /\ launch' = launch
    /\ m.type # "none" /\ (m.type # "finalize" => End(g) + 1 < MsgCnt)
    /\ sendMsgs[g][End(g)] = NoMsg
    /\ sendMsgs' = [sendMsgs EXCEPT ![g][End(g)] = m]
    /\ End(g)' = End(g) + 1 /\ Sent(g)' = PartAfter(m)
    /\ \A g2 \in Groups \ {g} : End(g2)' = End(g2) /\ Sent(g2)' = Sent(g2)

LaunchBegun == /\ sendMsgs' = sendMsgs /\ launch' = launch + 1
               /\ \A g \in Groups : Sent(g) = "closed" /\ Sent(g)' = "open" /\ End(g)' = 0

LEMMA SameEnd ==
    ASSUME pc # "finDone", pc' # "finDone", UNCHANGED <<curMsgPosition, finalized>>
    PROVE  \A g \in Groups : End(g)' = End(g) /\ Sent(g)' = Sent(g)
BY DEF End, Sent, Finalizing

LEMMA PutFills ==
    ASSUME TypeInv, NEW type \in {"prepare", "sync", "finalize"}, NEW m \in Msg, m.type = type,
           PutMsg(type, m),
           \/ /\ type # "finalize" /\ curMsgPosition[call.group] + 1 < MsgCnt
              /\ AdvancePosition(call.group) /\ UNCHANGED finalized /\ pc' # "finDone"
           \/ /\ type = "finalize" /\ pc' = "finDone"
              /\ UNCHANGED <<curMsgPosition, finalized, call>>
           \/ /\ type = "finalize" /\ AdvancePosition(call.group) /\ pc' # "finDone"
              /\ finalized' = [finalized EXCEPT ![call.group] = TRUE]
    PROVE  \E g \in Groups : SlotFilled(g, m)
<1>1. /\ AreaTypeOK /\ ClientTypeOK /\ CallOK
  BY DEF TypeInv, TypeOK
<1> SUFFICES ASSUME NEW g \in Groups, g = call.group PROVE SlotFilled(g, m)
  BY <1>1 DEF ClientTypeOK, Call
<1>2. /\ pc = "send" /\ ~finalized[g]
      /\ curMsgPosition \in [Groups -> 0 .. MsgCnt] /\ finalized \in [Groups -> BOOLEAN]
  BY <1>1 DEF PutMsg, CallOK, ClientTypeOK
<1>3. /\ Sent(g) = "open" /\ End(g) = curMsgPosition[g]
      /\ \A g2 \in Groups : ~Finalizing(g2)
  BY <1>2 DEF Sent, End, Finalizing
<1>4. /\ sendMsgs[g][curMsgPosition[g]] = NoMsg /\ launch' = launch
      /\ sendMsgs' = [sendMsgs EXCEPT ![g][curMsgPosition[g]] = m]
  BY DEF PutMsg
<1>5. /\ End(g)' = End(g) + 1 /\ Sent(g)' = PartAfter(m)
      /\ \A g2 \in Groups \ {g} : End(g2)' = End(g2) /\ Sent(g2)' = Sent(g2)
  <2>1. CASE UNCHANGED <<curMsgPosition, finalized, call>> /\ pc' = "finDone"
             /\ type = "finalize"
    BY <1>2, <1>3, <2>1 DEF End, Sent, Finalizing, PartAfter
  <2>2. CASE AdvancePosition(g) /\ UNCHANGED finalized /\ pc' # "finDone"
             /\ type # "finalize"
    BY <1>2, <1>3, <2>2 DEF End, Sent, Finalizing, AdvancePosition, PartAfter
  <2>3. CASE /\ AdvancePosition(g) /\ pc' # "finDone" /\ type = "finalize"
             /\ finalized' = [finalized EXCEPT ![g] = TRUE]
    BY <1>2, <1>3, <2>3 DEF End, Sent, Finalizing, AdvancePosition, PartAfter
  <2> QED
    BY <2>1, <2>2, <2>3
<1> QED
  BY <1>2, <1>3, <1>4, <1>5 DEF SlotFilled

LEMMA ClientPlace ==
    ASSUME TypeInv, ClientNext
    PROVE  \/ SlotsKept
           \/ \E g \in Groups, m \in Msg : SlotFilled(g, m)
           \/ LaunchBegun
<1>a. /\ AreaTypeOK /\ ClientTypeOK /\ CallOK /\ Len(tasks) \in Nat
  BY LenProperties DEF TypeInv, TypeOK
<1>b. call.msg \in Msg
  BY <1>a DEF ClientTypeOK, Call
<1>1. CASE \E g \in Groups :
            \/ \E r \in Repeats, ext \in Exts, commit \in BOOLEAN : Prepare(g, r, ext, commit)
            \/ PrepareRefused(g)
            \/ \E g2 \in Groups, h \in Handles : InterHcclGroupSync(g, g2, h)
            \/ \E h \in Handles : Commit(g, h) \/ Wait(g, h)
            \/ \E sync \in SyncModes : Finalize(g, sync)
  <2>1. /\ pc = "ready" /\ pc' \in {"ready", "ext", "send", "commit", "wait", "finQuery"}
        /\ UNCHANGED <<sendMsgs, launch, curMsgPosition, finalized>>
    BY <1>1 DEF Prepare, PrepareRefused, InterHcclGroupSync, Commit, Wait, Finalize,
                FirstStep, areaVars
  <2> QED
    BY <2>1, SameEnd DEF SlotsKept
<1>2. CASE NextLaunch
  BY <1>2 DEF NextLaunch, LaunchBegun, Sent, End, Finalizing, areaVars, PerGroup
<1>3. CASE SendExt \/ CommitWrite \/ WaitReturn \/ FinalizeQueried
  <2>1. /\ pc # "finDone" /\ pc' # "finDone"
        /\ UNCHANGED <<sendMsgs, launch, curMsgPosition, finalized>>
    BY <1>3 DEF SendExt, CommitWrite, WaitReturn, FinalizeQueried, GoOn, Return, areaVars
  <2> QED
    BY <2>1, SameEnd DEF SlotsKept
<1>4. CASE SendPrepare
  <2> DEFINE m == [call.msg EXCEPT !.seq = primitiveId, !.task = Len(tasks) + 1]
  <2>1. m \in Msg /\ m.type = call.msg.type
    <3>1. primitiveId \in Nat /\ Len(tasks) + 1 \in Nat
      BY <1>a, SeqModAssumption DEF ClientTypeOK
    <3> QED
      BY <1>b, <3>1 DEF Msg
  <2>2. /\ PutMsg("prepare", m) /\ AdvancePosition(call.group) /\ UNCHANGED finalized
        /\ pc' # "finDone" /\ call.msg.type = "prepare" /\ pc = "send"
    BY <1>4 DEF SendPrepare, Return, PutMsg
  <2>3. curMsgPosition[call.group] + 1 < MsgCnt
    BY <1>a, <2>2 DEF CallOK, Preparing
  <2> HIDE DEF m
  <2> QED
    BY <2>1, <2>2, <2>3, PutFills
<1>5. CASE SendSync
  <2>1. /\ PutMsg("sync", call.msg) /\ AdvancePosition(call.group) /\ UNCHANGED finalized
        /\ pc' # "finDone" /\ call.msg.type = "sync" /\ pc = "send"
    BY <1>5 DEF SendSync, Return, PutMsg
  <2>2. curMsgPosition[call.group] + 1 < MsgCnt
    BY <1>a, <2>1 DEF CallOK
  <2> QED
    BY <1>b, <2>1, <2>2, PutFills
<1>6. CASE SendFinalize
  <2>1. PutMsg("finalize", call.msg) /\ call.msg.type = "finalize"
    BY <1>6 DEF SendFinalize, PutMsg
  <2>2. \/ pc' = "finDone" /\ UNCHANGED <<curMsgPosition, finalized, call>>
        \/ /\ AdvancePosition(call.group) /\ pc' # "finDone"
           /\ finalized' = [finalized EXCEPT ![call.group] = TRUE]
    BY <1>6 DEF SendFinalize, Return, GoOn
  <2> QED
    BY <1>b, <2>1, <2>2, PutFills
<1>7. CASE FinalizeDone
  <2>1. /\ pc = "finDone" /\ pc' = "ready" /\ UNCHANGED <<sendMsgs, launch>>
        /\ AdvancePosition(call.group)
        /\ finalized' = [finalized EXCEPT ![call.group] = TRUE]
    BY <1>7 DEF FinalizeDone, Return
  <2>2. /\ call.group \in Groups /\ curMsgPosition \in [Groups -> 0 .. MsgCnt]
        /\ finalized \in [Groups -> BOOLEAN]
    BY <1>a DEF ClientTypeOK, Call
  <2> QED
    BY <2>1, <2>2 DEF SlotsKept, End, Sent, Finalizing, AdvancePosition
<1> QED
  BY <1>1, <1>2, <1>3, <1>4, <1>5, <1>6, <1>7 DEF ClientNext, CallApi, ContinueCall

\* A group whose slots are left alone, or filled, stays well placed.
LEMMA PlacedKept ==
    ASSUME NEW g \in Groups, Placed(g),
           launch' = launch, serverLaunch' = serverLaunch, sendMsgs'[g] = sendMsgs[g],
           From(g)' = From(g), finalizeFlag'[g] = finalizeFlag[g],
           End(g)' = End(g), Sent(g)' = Sent(g)
    PROVE  Placed(g)'
BY LayoutSame DEF Placed

LEMMA PlacedFilled ==
    ASSUME TypeInv, NEW g \in Groups, NEW m \in Msg, SlotFilled(g, m), Placed(g),
           UNCHANGED serverVars
    PROVE  Placed(g)'
<1> SUFFICES ASSUME NEW n, n = End(g), NEW fin \in Part, fin = PartAfter(m)
             PROVE  Placed(g)'
  BY DEF PartAfter, Part
<1> USE DEF PartAfter, Part
<1>1. /\ n \in Pos /\ sendMsgs' = [sendMsgs EXCEPT ![g][n] = m] /\ sendMsgs[g][n] = NoMsg
      /\ m.type # "none" /\ (m.type # "finalize" => n + 1 < MsgCnt)
      /\ End(g)' = n + 1 /\ launch' = launch
  <2>1. ~finalized[g] /\ n = curMsgPosition[g]
    BY DEF SlotFilled, Sent
  <2>2. n \in Pos
    BY <2>1, PlaceTypes DEF TypeInv, CallOK
  <2> QED
    BY <2>2 DEF SlotFilled
<1>2. Sent(g)' = fin /\ Sent(g) = "open"
  BY PlaceTypes DEF SlotFilled
<1>3. From(g)' = From(g) /\ finalizeFlag'[g] = finalizeFlag[g] /\ serverLaunch' = serverLaunch
  BY DEF From, serverVars
<1>4. CASE launch + 1 = serverLaunch
  BY <1>2, <1>4, PlaceTypes DEF Placed
<1>5. CASE launch = serverLaunch
  <2>1. Layout(g, 0, "open", n, "open")
    BY <1>2, <1>5, PlaceTypes DEF Placed
  <2>2. Layout(g, 0, "open", n + 1, fin)'
    BY <1>1, <1>3, <2>1, LayoutPutOwn
  <2> QED
    BY <1>1, <1>2, <1>3, <1>5, <2>2 DEF Placed
<1>6. CASE launch = serverLaunch + 1
  <2>a. launch # serverLaunch /\ launch + 1 # serverLaunch /\ launch # serverLaunch + 2
    BY <1>6, PlaceTypes
  <2>1. PICK b \in 0 .. MsgCnt : Layout(g, n, "open", b, "closed")
    BY <1>2, <2>a DEF Placed
  <2>2. Layout(g, n + 1, fin, b, "closed")'
    BY <1>1, <1>3, <2>1, LayoutPutNext
  <2> QED
    BY <1>1, <1>2, <1>3, <1>6, <2>2 DEF Placed
<1>7. CASE launch = serverLaunch + 2
  <2>1. PICK e \in 0 .. MsgCnt, b \in 0 .. MsgCnt : Layout(g, e, "closed", b, "closed") /\ n = 0
    BY <1>7, PlaceTypes DEF Placed
  <2>2. sendMsgs[g][0] # NoMsg
    BY <1>1, <2>1, PlaceTypes DEF Layout, Full
  <2> QED
    BY <1>1, <2>1, <2>2
<1> QED
  BY <1>4, <1>5, <1>6, <1>7 DEF Placed

\* The next launch of the client: what it sent before is now a launch older.
LEMMA PlacedLaunched ==
    ASSUME TypeInv, TypeInv', NEW g \in Groups, Placed(g), LaunchBegun, UNCHANGED serverVars
    PROVE  Placed(g)'
<1>1. /\ Sent(g) = "closed" /\ Sent(g)' = "open" /\ End(g)' = 0 /\ launch' = launch + 1
      /\ serverLaunch' = serverLaunch /\ launch \in Nat /\ serverLaunch \in Nat
      /\ End(g) \in 0 .. MsgCnt
  BY PlaceTypes DEF LaunchBegun, serverVars
<1>2. \A e, s, b, t : Layout(g, e, s, b, t) => Layout(g, e, s, b, t)'
  BY DEF LaunchBegun, serverVars, Layout, Full, From
<1>3. CASE launch + 1 = serverLaunch
  <2>1. Layout(g, 0, "open", 0, "open")
    BY <1>1, <1>3 DEF Placed
  <2> QED
    BY <1>1, <1>2, <1>3, <2>1 DEF Placed
<1>4. CASE launch = serverLaunch
  <2>1. Layout(g, 0, "open", End(g), "closed")
    BY <1>1, <1>4 DEF Placed
  <2>2. PICK n \in 0 .. MsgCnt : n = End(g)
    BY <1>1
  <2> QED
    BY <1>1, <1>2, <1>4, <2>1, <2>2 DEF Placed
<1>5. CASE launch = serverLaunch + 1
  <2>1. PICK n \in 0 .. MsgCnt, b \in 0 .. MsgCnt : n = End(g) /\ Layout(g, n, "closed", b, "closed")
    BY <1>1, <1>5 DEF Placed
  <2> QED
    BY <1>1, <1>2, <1>5, <2>1 DEF Placed
<1>6. CASE launch = serverLaunch + 2
  BY <1>1, <1>6 DEF Placed
<1> QED
  BY <1>3, <1>4, <1>5, <1>6 DEF Placed

LEMMA AbandonedClient ==
    ASSUME TypeInv, TypeInv', ClientNext, NEW g \in Groups, Abandoned(g)
    PROVE  Abandoned(g)'
<1>1. UNCHANGED <<serverLaunch, msgPos, finalizeFlag>>
  BY DEF ClientNext, serverVars
<1>2. CASE SlotsKept
  BY <1>1, <1>2 DEF SlotsKept, Abandoned
<1>3. ASSUME NEW g2 \in Groups, NEW m \in Msg, SlotFilled(g2, m)
      PROVE  Abandoned(g)'
  <2>1. CASE g # g2
    <3>1. /\ sendMsgs'[g] = sendMsgs[g] /\ End(g)' = End(g) /\ Sent(g)' = Sent(g)
          /\ launch' = launch
      BY <1>3, <2>1, PlaceTypes DEF SlotFilled
    <3> QED
      BY <1>1, <3>1 DEF Abandoned
  <2>2. CASE g = g2
    <3>1. /\ End(g)' = End(g) + 1 /\ Sent(g) = "open" /\ launch' = launch
          /\ End(g) \in Nat /\ msgPos[g] \in Nat
          /\ \A p \in Pos : p \in Nat /\ (p # End(g) => sendMsgs'[g][p] = sendMsgs[g][p])
      BY <1>3, <2>2, PlaceTypes DEF SlotFilled
    <3> QED
      BY <1>1, <3>1 DEF Abandoned
  <2> QED
    BY <2>1, <2>2
<1>4. CASE LaunchBegun
  BY <1>1, <1>4, PlaceTypes DEF LaunchBegun, Abandoned
<1> QED
  BY <1>2, <1>3, <1>4, ClientPlace

LEMMA PlaceClient == TypeInv /\ TypeInv' /\ PlaceInv /\ ClientNext => PlaceInv'
<1> SUFFICES ASSUME TypeInv, TypeInv', PlaceInv, ClientNext PROVE PlaceInv'
  OBVIOUS
<1>1. /\ UNCHANGED serverVars /\ UNCHANGED server
      /\ \A g \in Groups : From(g)' = From(g) /\ finalizeFlag'[g] = finalizeFlag[g]
  BY DEF ClientNext, serverVars, From
<1>2. RetryInv'
  BY <1>1 DEF PlaceInv, RetryInv, serverVars
<1>3. ASSUME NEW g \in Groups, Placed(g) PROVE Placed(g)'
  <2>1. CASE SlotsKept
    BY <1>1, <1>3, <2>1, PlacedKept DEF SlotsKept, serverVars
  <2>2. ASSUME NEW g2 \in Groups, NEW m \in Msg, SlotFilled(g2, m)
        PROVE  Placed(g)'
    <3>1. CASE g = g2
      BY <1>1, <1>3, <2>2, <3>1, PlacedFilled
    <3>2. CASE g # g2
      <4>1. /\ sendMsgs'[g] = sendMsgs[g] /\ End(g)' = End(g) /\ Sent(g)' = Sent(g)
            /\ launch' = launch /\ serverLaunch' = serverLaunch
        BY <1>1, <2>2, <3>2, PlaceTypes DEF SlotFilled, serverVars
      <4> QED
        BY <1>1, <1>3, <4>1, PlacedKept
    <3> QED
      BY <3>1, <3>2
  <2>3. CASE LaunchBegun
    BY <1>1, <1>3, <2>3, PlacedLaunched
  <2> QED
    BY <2>1, <2>2, <2>3, ClientPlace
<1> QED
  BY <1>1, <1>2, <1>3, AbandonedClient DEF PlaceInv

LEMMA NextPosition ==
    ASSUME NEW n \in Nat, NEW k \in Nat, n + 1 < k PROVE (n + 1) % k = n + 1
OBVIOUS

\* What a visit that takes a message, or tries one again, does to the group.
ServeEffect(g, type) ==
    /\ ~finalizeFlag[g]
    /\ retryCnt[g] = 0 => /\ sendMsgs[g][msgPos[g]] # NoMsg
                          /\ sendMsgs[g][msgPos[g]].type = type
                          /\ sendMsgs' = [sendMsgs EXCEPT ![g][msgPos[g]] = NoMsg]
    /\ retryCnt[g] > 0 => type # "finalize" /\ sendMsgs' = sendMsgs
    /\ \/ /\ type # "finalize" /\ finalizeFlag'[g] = finalizeFlag[g]
          /\ \/ msgPos'[g] = (msgPos[g] + 1) % MsgCnt /\ retryCnt'[g] = 0
             \/ msgPos'[g] = msgPos[g] /\ retryCnt'[g] = retryCnt[g] + 1
       \/ /\ type = "finalize" /\ finalizeFlag'[g] = TRUE
          /\ msgPos'[g] = msgPos[g] /\ retryCnt'[g] = retryCnt[g]

LEMMA ServeLayout ==
    ASSUME TypeInv, RetryInv, NEW g \in Groups, NEW type, ServeEffect(g, type),
           NEW e \in 0 .. MsgCnt, NEW s \in Part, NEW b \in 0 .. MsgCnt, NEW t \in Part,
           Layout(g, e, s, b, t)
    PROVE  /\ Layout(g, e, s, b, t)'
           /\ type # "finalize" => msgPos[g] + 1 < MsgCnt
<1>1. msgPos[g] \in Pos /\ msgPos[g] \in Nat /\ MsgCnt \in Nat /\ retryCnt[g] \in Nat
  BY PlaceTypes
<1>2. CASE retryCnt[g] > 0
  <2>1. msgPos[g] + 1 < MsgCnt
    BY <1>2 DEF RetryInv
  <2>2. (msgPos[g] + 1) % MsgCnt = msgPos[g] + 1
    BY <1>1, <2>1, NextPosition
  <2>3. /\ From(g)' = From(g) /\ finalizeFlag'[g] = finalizeFlag[g]
        /\ sendMsgs'[g] = sendMsgs[g]
    BY <1>1, <1>2, <2>2 DEF ServeEffect, From
  <2> QED
    BY <2>1, <2>3, LayoutSame
<1>3. CASE retryCnt[g] = 0
  <2>1. /\ msgPos[g] = From(g) /\ ~finalizeFlag[g] /\ sendMsgs[g][msgPos[g]] # NoMsg
        /\ sendMsgs[g][msgPos[g]].type = type
        /\ sendMsgs' = [sendMsgs EXCEPT ![g][msgPos[g]] = NoMsg]
    BY <1>3 DEF ServeEffect, From
  <2>2. CASE type = "finalize"
    BY <1>1, <2>1, <2>2, LayoutTake DEF ServeEffect
  <2>3. CASE type # "finalize"
    <3>1. msgPos[g] + 1 < MsgCnt
      BY <1>1, <2>1, <2>3, PlaceTypes DEF Layout, Full
    <3>2. (msgPos[g] + 1) % MsgCnt = msgPos[g] + 1
      BY <1>1, <3>1, NextPosition
    <3>3. From(g)' = msgPos[g] + 1 /\ ~finalizeFlag'[g]
      BY <1>1, <1>3, <2>1, <2>3, <3>2 DEF ServeEffect, From
    <3> QED
      BY <1>1, <2>1, <2>3, <3>1, <3>3, LayoutTake
  <2> QED
    BY <2>2, <2>3
<1> QED
  BY <1>1, <1>2, <1>3

LEMMA ServePlaced ==
    ASSUME TypeInv, RetryInv, NEW g \in Groups, NEW type, ServeEffect(g, type),
           UNCHANGED <<clientVars, serverLaunch>>, Placed(g)
    PROVE  Placed(g)' /\ (type # "finalize" => msgPos[g] + 1 < MsgCnt)
<1>1. launch' = launch /\ serverLaunch' = serverLaunch /\ End(g)' = End(g) /\ Sent(g)' = Sent(g)
  BY DEF clientVars, End, Sent, Finalizing
<1>2. End(g) \in 0 .. MsgCnt /\ Sent(g) \in Part /\ 0 \in 0 .. MsgCnt
  BY PlaceTypes
<1>3. "open" \in Part /\ "closed" \in Part
  BY DEF Part
<1> QED
  BY <1>1, <1>2, <1>3, ServeLayout DEF Placed

\* The visits, as far as a message is concerned.
LEMMA ServeEffects ==
    ASSUME TypeInv, RetryInv, NEW g \in Groups,
           \/ PrepareProcess(g) \/ PrepareRetry(g)
           \/ InterGroupSyncProcess(g) \/ InterGroupSyncRetry(g) \/ FinalizeProcess(g)
    PROVE  /\ \E type \in {"prepare", "sync", "finalize"} :
                /\ ServeEffect(g, type)
                /\ retryCnt'[g] > 0 => type # "finalize" /\ rcvMsg'[g].type = type
           /\ UNCHANGED <<server, serverLaunch, finishFlag>> /\ server = "run"
           /\ \A g2 \in Groups \ {g} :
                /\ sendMsgs'[g2] = sendMsgs[g2] /\ msgPos'[g2] = msgPos[g2]
                /\ retryCnt'[g2] = retryCnt[g2] /\ finalizeFlag'[g2] = finalizeFlag[g2]
                /\ rcvMsg'[g2] = rcvMsg[g2]
<1> USE DEF TypeInv, TypeOK
<1>1. /\ msgPos \in [Groups -> Pos] /\ retryCnt \in [Groups -> 0 .. MaxRetry + 1]
      /\ finalizeFlag \in [Groups -> BOOLEAN] /\ rcvMsg \in [Groups -> Msg]
      /\ sendMsgs \in [Groups -> [Pos -> Msg]] /\ MaxRetry \in Nat
  BY MaxRetryAssumption DEF ServerTypeOK, AreaTypeOK
<1>2. retryCnt[g] > 0 => rcvMsg[g].type \in {"prepare", "sync"}
  BY DEF RetryInv
<1>3. ASSUME NEW type \in {"prepare", "sync", "finalize"}, Serve(g, type)
      PROVE  /\ ~finalizeFlag[g] /\ UNCHANGED <<server, serverLaunch, finishFlag>>
             /\ server = "run"
             /\ retryCnt[g] = 0 => /\ sendMsgs[g][msgPos[g]] # NoMsg
                                   /\ sendMsgs[g][msgPos[g]].type = type
                                   /\ sendMsgs' = [sendMsgs EXCEPT ![g][msgPos[g]] = NoMsg]
             /\ retryCnt[g] > 0 => type # "finalize" /\ sendMsgs' = sendMsgs
             /\ CurrentMsg(g).type = type
             /\ \A g2 \in Groups \ {g} : sendMsgs'[g2] = sendMsgs[g2]
  BY <1>1, <1>2, <1>3 DEF Serve, Visit, HasMsg, CurrentMsg, TakeMsg
<1>4. CASE PrepareProcess(g) \/ InterGroupSyncProcess(g)
  <2>1. PICK type \in {"prepare", "sync"} : Serve(g, type)
    BY <1>4 DEF PrepareProcess, InterGroupSyncProcess
  <2>2. NextMsg(g) /\ UNCHANGED finalizeFlag
    BY <1>4 DEF PrepareProcess, InterGroupSyncProcess
  <2> QED
    BY <1>1, <1>3, <2>1, <2>2 DEF NextMsg, ServeEffect
<1>5. CASE PrepareRetry(g) \/ InterGroupSyncRetry(g)
  <2>1. PICK type \in {"prepare", "sync"} : Serve(g, type)
    BY <1>5 DEF PrepareRetry, InterGroupSyncRetry
  <2>2. RetryMsg(g)
    BY <1>5 DEF PrepareRetry, InterGroupSyncRetry
  <2> QED
    BY <1>1, <1>3, <2>1, <2>2 DEF RetryMsg, ServeEffect
<1>6. CASE FinalizeProcess(g)
  <2>1. /\ Serve(g, "finalize") /\ UNCHANGED <<rcvMsg, msgPos, retryCnt>>
        /\ finalizeFlag' = [finalizeFlag EXCEPT ![g] = TRUE]
    BY <1>6 DEF FinalizeProcess
  <2> QED
    BY <1>1, <1>3, <2>1 DEF ServeEffect
<1> QED
  BY <1>4, <1>5, <1>6

\* The server gives up: what it has read is gone.
LEMMA PlacedAbandons ==
    ASSUME TypeInv, NEW g \in Groups, Placed(g) PROVE Abandoned(g)
<1>1. /\ launch \in Nat /\ serverLaunch \in Nat /\ End(g) \in Nat /\ From(g) \in Nat
      /\ msgPos[g] \in Nat /\ msgPos[g] <= From(g) /\ MsgCnt \in Nat
      /\ \A p \in Pos : p \in Nat
  BY PlaceTypes DEF From
<1>2. CASE launch + 1 = serverLaunch
  <2>1. Layout(g, 0, "open", 0, "open")
    BY <1>1, <1>2 DEF Placed
  <2>2. ~finalizeFlag[g] /\ From(g) <= 0
    BY <2>1 DEF Layout
  <2> QED
    BY <1>1, <1>2, <2>2 DEF Abandoned
<1>3. CASE launch = serverLaunch
  <2>1. Layout(g, 0, "open", End(g), Sent(g))
    BY <1>1, <1>3 DEF Placed
  <2>2. /\ finalizeFlag[g] => Sent(g) = "closed"
        /\ ~finalizeFlag[g] => From(g) <= End(g)
        /\ \A p \in Pos : p < msgPos[g] \/ finalizeFlag[g] => sendMsgs[g][p] = NoMsg
    BY <1>1, <2>1 DEF Layout
  <2> QED
    BY <1>1, <1>3, <2>2 DEF Abandoned
<1>4. CASE launch > serverLaunch
  BY <1>4 DEF Abandoned
<1> QED
  BY <1>1, <1>2, <1>3, <1>4 DEF Placed

\* The server of the next launch: the next messages are its own.
LEMMA LayoutRestart ==
    ASSUME TypeInv, NEW g \in Groups, finalizeFlag[g], sendMsgs' = sendMsgs,
           finalizeFlag'[g] = FALSE, From(g)' = 0,
           NEW e \in 0 .. MsgCnt, NEW s \in Part, NEW b, NEW t, Layout(g, e, s, b, t)
    PROVE  Layout(g, 0, "open", e, s)'
<1> SUFFICES ASSUME NEW z, z = 0, NEW o, o = "open" PROVE Layout(g, z, o, e, s)'
  OBVIOUS
<1>1. e \in Nat /\ \A p \in Pos : p \in Nat
  BY PlaceTypes
<1>2. /\ Full(g, 0, e, s) /\ (s = "closed" => e > 0)
      /\ \A p \in Pos : e <= p => sendMsgs[g][p] = NoMsg
  BY DEF Layout
<1>3. Full(g, z, e, s)' /\ Full(g, z, z, o)'
  BY <1>1, <1>2 DEF Full
<1> QED
  BY <1>1, <1>2, <1>3 DEF Layout

LEMMA PlacedRestart ==
    ASSUME TypeInv, PlaceInv, RestartServer, UNCHANGED clientVars, NEW g \in Groups
    PROVE  Placed(g)'
<1>1. /\ finalizeFlag[g] /\ Placed(g)
  BY DEF PlaceInv, RetryInv, RestartServer
<1>2. /\ sendMsgs' = sendMsgs /\ finalizeFlag'[g] = FALSE /\ From(g)' = 0
      /\ serverLaunch' = serverLaunch + 1 /\ launch' = launch
      /\ End(g)' = End(g) /\ Sent(g)' = Sent(g)
  BY DEF RestartServer, FreshServer, PerGroup, From, areaVars, clientVars, End, Sent,
         Finalizing
<1>3. /\ launch \in Nat /\ serverLaunch \in Nat /\ End(g) \in 0 .. MsgCnt /\ Sent(g) \in Part
      /\ 0 \in 0 .. MsgCnt /\ "open" \in Part /\ "closed" \in Part
  BY PlaceTypes DEF Part
<1>4. ASSUME NEW e \in 0 .. MsgCnt, NEW s \in Part, NEW b, NEW t, Layout(g, e, s, b, t)
      PROVE  Layout(g, 0, "open", e, s)'
  BY <1>1, <1>2, <1>4, LayoutRestart
<1>5. CASE launch + 1 = serverLaunch
  <2>1. Layout(g, 0, "open", 0, "open")
    BY <1>3, <1>5, <1>1 DEF Placed
  <2> QED
    BY <1>1, <2>1 DEF Layout
<1>6. CASE launch = serverLaunch
  <2>1. Layout(g, 0, "open", End(g), Sent(g))
    BY <1>1, <1>3, <1>6 DEF Placed
  <2>2. Layout(g, 0, "open", 0, "open")'
    BY <1>3, <1>4, <2>1
  <2>3. Sent(g) = "closed"
    BY <1>1, <2>1 DEF Layout
  <2> QED
    BY <1>2, <1>3, <1>6, <2>2, <2>3 DEF Placed
<1>7. CASE launch = serverLaunch + 1
  <2>1. PICK b \in 0 .. MsgCnt : Layout(g, End(g), Sent(g), b, "closed")
    BY <1>1, <1>3, <1>7 DEF Placed
  <2>2. PICK n \in 0 .. MsgCnt, s \in Part : n = End(g) /\ s = Sent(g)
    BY <1>3
  <2>3. Layout(g, 0, "open", n, s)'
    BY <1>4, <2>1, <2>2
  <2> QED
    BY <1>2, <1>3, <1>7, <2>2, <2>3 DEF Placed
<1>8. CASE launch = serverLaunch + 2
  <2>1. PICK e \in 0 .. MsgCnt, b \in 0 .. MsgCnt :
            Layout(g, e, "closed", b, "closed") /\ End(g) = 0 /\ Sent(g) = "open"
    BY <1>1, <1>3, <1>8 DEF Placed
  <2>2. Layout(g, 0, "open", e, "closed")'
    BY <1>3, <1>4, <2>1
  <2> QED
    BY <1>2, <1>3, <1>8, <2>1, <2>2 DEF Placed
<1> QED
  BY <1>1, <1>5, <1>6, <1>7, <1>8 DEF Placed

\* The other visits leave the messages alone, or are the last.
LEMMA OtherVisits ==
    ASSUME TypeInv, RetryInv, NEW g \in Groups,
           GroupFinish(g) \/ Finished(g) \/ InTime(g) \/ TimedOut(g) \/ RetryExceeded(g)
               \/ NoOpHandle(g)
    PROVE  /\ server = "run" /\ UNCHANGED <<serverLaunch, retryCnt, msgPos, finalizeFlag, rcvMsg>>
           /\ server' # "fail" => sendMsgs' = sendMsgs
           /\ \A g2 \in Groups, p \in Pos : sendMsgs[g2][p] = NoMsg => sendMsgs'[g2][p] = NoMsg
           /\ \A g2 \in Groups : finishFlag'[g2] => finishFlag[g2] \/ finalizeFlag[g2]
           /\ server' = "exit" => \A g2 \in Groups : finishFlag'[g2]
<1>1. /\ sendMsgs \in [Groups -> [Pos -> Msg]] /\ finishFlag \in [Groups -> BOOLEAN]
  BY DEF TypeInv, TypeOK, AreaTypeOK, ServerTypeOK
<1>2. CASE GroupFinish(g)
  BY <1>1, <1>2 DEF GroupFinish, Visit, LastToFinish
<1>3. CASE Finished(g) \/ InTime(g) \/ RetryExceeded(g)
  BY <1>3 DEF Finished, InTime, RetryExceeded, Visit, OtherServerVars, areaVars
<1>4. CASE TimedOut(g)
  BY <1>4 DEF TimedOut, Visit, OtherServerVars, areaVars
<1>5. CASE NoOpHandle(g)
  <2>1. \/ UNCHANGED sendMsgs
        \/ sendMsgs' = [sendMsgs EXCEPT ![g][msgPos[g]] = NoMsg]
    BY <1>5 DEF NoOpHandle, TakeMsg
  <2>2. \A g2 \in Groups, p \in Pos : sendMsgs[g2][p] = NoMsg => sendMsgs'[g2][p] = NoMsg
    BY <1>1, <2>1
  <2> QED
    BY <1>5, <2>2 DEF NoOpHandle, Visit
<1> QED
  BY <1>2, <1>3, <1>4, <1>5

LEMMA PlaceServer == TypeInv /\ PlaceInv /\ ServerNext => PlaceInv'
<1> SUFFICES ASSUME TypeInv, PlaceInv, ServerNext PROVE PlaceInv'
  OBVIOUS
<1>a. /\ launch' = launch /\ \A g \in Groups : End(g)' = End(g) /\ Sent(g)' = Sent(g)
  BY DEF ServerNext, clientVars, End, Sent, Finalizing
<1>b. RetryInv /\ UNCHANGED clientVars
  BY DEF PlaceInv, ServerNext
<1>1. CASE RestartServer
  <2>1. RetryInv' /\ server' = "run"
    BY <1>1 DEF RestartServer, FreshServer, PerGroup, RetryInv
  <2> QED
    BY <1>1, <1>b, <2>1, PlacedRestart DEF PlaceInv
<1>2. ASSUME NEW g \in Groups,
             \/ PrepareProcess(g) \/ PrepareRetry(g)
             \/ InterGroupSyncProcess(g) \/ InterGroupSyncRetry(g) \/ FinalizeProcess(g)
      PROVE  PlaceInv'
  <2>1. PICK type \in {"prepare", "sync", "finalize"} :
            /\ ServeEffect(g, type)
            /\ retryCnt'[g] > 0 => type # "finalize" /\ rcvMsg'[g].type = type
    BY <1>b, <1>2, ServeEffects
  <2>2. /\ UNCHANGED <<server, serverLaunch, finishFlag>> /\ server = "run"
        /\ \A g2 \in Groups \ {g} :
             /\ sendMsgs'[g2] = sendMsgs[g2] /\ msgPos'[g2] = msgPos[g2]
             /\ retryCnt'[g2] = retryCnt[g2] /\ finalizeFlag'[g2] = finalizeFlag[g2]
             /\ rcvMsg'[g2] = rcvMsg[g2]
    BY <1>b, <1>2, ServeEffects
  <2>3. \A g2 \in Groups : Placed(g2)
    BY <2>2 DEF PlaceInv
  <2>4. Placed(g)' /\ (type # "finalize" => msgPos[g] + 1 < MsgCnt)
    BY <1>b, <2>1, <2>2, <2>3, ServePlaced
  <2>5. \A g2 \in Groups \ {g} : Placed(g2)'
    BY <1>a, <2>2, <2>3, PlacedKept DEF From
  <2>6. RetryInv'
    <3>1. /\ retryCnt'[g] > 0 => ~finalizeFlag'[g] /\ msgPos'[g] = msgPos[g]
          /\ retryCnt'[g] > 0 => type # "finalize"
      BY <2>1 DEF ServeEffect
    <3>2. finishFlag[g] => finalizeFlag[g]
      BY <1>b DEF RetryInv
    <3> QED
      BY <1>b, <2>1, <2>2, <2>4, <3>1, <3>2 DEF RetryInv, ServeEffect
  <2> QED
    BY <2>2, <2>4, <2>5, <2>6 DEF PlaceInv
<1>3. ASSUME NEW g \in Groups,
             GroupFinish(g) \/ Finished(g) \/ InTime(g) \/ TimedOut(g) \/ RetryExceeded(g)
                 \/ NoOpHandle(g)
      PROVE  PlaceInv'
  <2>1. /\ server = "run" /\ UNCHANGED <<serverLaunch, retryCnt, msgPos, finalizeFlag, rcvMsg>>
        /\ server' # "fail" => sendMsgs' = sendMsgs
        /\ \A g2 \in Groups, p \in Pos : sendMsgs[g2][p] = NoMsg => sendMsgs'[g2][p] = NoMsg
        /\ \A g2 \in Groups : finishFlag'[g2] => finishFlag[g2] \/ finalizeFlag[g2]
        /\ server' = "exit" => \A g2 \in Groups : finishFlag'[g2]
    BY <1>b, <1>3, OtherVisits
  <2>2. RetryInv'
    BY <1>b, <2>1 DEF RetryInv
  <2>3. \A g2 \in Groups : Placed(g2) /\ Abandoned(g2)
    BY <2>1, PlacedAbandons DEF PlaceInv
  <2>4. server' = "fail" => \A g2 \in Groups : Abandoned(g2)'
    BY <1>a, <2>1, <2>3 DEF Abandoned
  <2>5. server' # "fail" => \A g2 \in Groups : Placed(g2)'
    BY <1>a, <2>1, <2>3, PlacedKept DEF From
  <2> QED
    BY <2>2, <2>4, <2>5 DEF PlaceInv
<1> QED
  BY <1>1, <1>2, <1>3 DEF ServerNext, GroupServerProcess

\* The streams and a system that is done leave all this alone.
LEMMA PlaceUnchanged ==
    ASSUME PlaceInv, UNCHANGED <<sendMsgs, clientVars, serverVars>> PROVE PlaceInv'
<1>1. UNCHANGED <<server, launch, serverLaunch, finalizeFlag, finishFlag, msgPos, retryCnt,
                  rcvMsg, sendMsgs>>
  BY DEF clientVars, serverVars
<1>2. \A g \in Groups : End(g)' = End(g) /\ Sent(g)' = Sent(g) /\ From(g)' = From(g)
  BY DEF clientVars, serverVars, End, Sent, From, Finalizing
<1>3. RetryInv'
  BY <1>1 DEF PlaceInv, RetryInv
<1>4. \A g \in Groups : Placed(g) => Placed(g)'
  BY <1>1, <1>2, PlacedKept
<1>5. \A g \in Groups : Abandoned(g) => Abandoned(g)'
  BY <1>1, <1>2 DEF Abandoned
<1> QED
  BY <1>1, <1>3, <1>4, <1>5 DEF PlaceInv

LEMMA PlaceStep == TypeInv /\ PlaceInv /\ [Next]_vars => PlaceInv'
<1> SUFFICES ASSUME TypeInv, PlaceInv, [Next]_vars PROVE PlaceInv'
  OBVIOUS
<1>1. TypeInv'
  BY TypeStep
<1>2. CASE ClientNext
  BY <1>1, <1>2, PlaceClient
<1>3. CASE ServerNext
  BY <1>3, PlaceServer
<1>4. CASE \E g \in Groups : StreamNext(g)
  BY <1>4, PlaceUnchanged DEF StreamNext, WaitCommit, WaitFinish, RunKernel, PostFinish, Execute
<1>5. CASE UNCHANGED vars
  BY <1>5, PlaceUnchanged DEF vars, areaVars
<1> QED
  BY <1>2, <1>3, <1>4, <1>5 DEF Next, Terminated

LEMMA PlaceInit == Init => PlaceInv
<1> SUFFICES ASSUME Init PROVE PlaceInv
  OBVIOUS
<1>1. /\ server = "run" /\ launch = 1 /\ serverLaunch = 1
      /\ \A g \in Groups : /\ retryCnt[g] = 0 /\ ~finalizeFlag[g] /\ ~finishFlag[g]
                           /\ msgPos[g] = 0 /\ End(g) = 0 /\ Sent(g) = "open"
                           /\ \A p \in Pos : sendMsgs[g][p] = NoMsg
  BY DEF Init, InitArea, InitClient, InitServer, FreshServer, PerGroup, PerPos, End, Sent,
         Finalizing
<1>2. RetryInv
  BY <1>1 DEF RetryInv
<1>3. ASSUME NEW g \in Groups PROVE Placed(g)
  <2> SUFFICES ASSUME NEW z, z = 0, NEW o, o = "open" PROVE Layout(g, z, o, z, o)
    BY <1>1 DEF Placed
  <2>1. From(g) = 0 /\ \A p \in Pos : p \in Nat
    BY <1>1, MsgCntAssumption DEF From, Pos
  <2> QED
    BY <1>1, <2>1 DEF Layout, Full
<1> QED
  BY <1>1, <1>2, <1>3 DEF PlaceInv

LEMMA PlaceInvariant == Spec => [](TypeInv /\ PlaceInv)
<1>1. TypeInv /\ PlaceInv /\ [Next]_vars => (TypeInv /\ PlaceInv)'
  BY TypeStep, PlaceStep
<1> QED
  BY <1>1, TypeInit, PlaceInit, PTL DEF Spec

\* ReadMsgFromMemory gives a slot back before the position moves on, and FINALIZE
\* is the last message of a launch (comm_kfc_aicpu_server.cc): the server passes
\* no slot that holds a message of its launch, nor one that will yet be filled.
THEOREM NothingLeftBehindCorrect == Spec => []NothingLeftBehind
<1>1. TypeInv /\ PlaceInv => NothingLeftBehind
  <2> SUFFICES ASSUME TypeInv, PlaceInv, serverLaunch = launch, NEW g \in Groups, NEW p \in Pos,
                      p < msgPos[g] \/ finalizeFlag[g]
               PROVE  sendMsgs[g][p] = NoMsg
    BY DEF NothingLeftBehind
  <2>1. Abandoned(g)
    BY PlacedAbandons DEF PlaceInv
  <2> QED
    BY <2>1, PlaceTypes DEF Abandoned
<1> QED
  BY <1>1, PlaceInvariant, PTL

----------------------------------------------------------------------------
(* No turn runs that was not committed.                                     *)

LEMMA TaskFacts ==
    ASSUME TypeInv
    PROVE  /\ Len(tasks) \in Nat
           /\ \A t \in 1 .. Len(tasks) :
                /\ tasks[t] \in Task
                /\ tasks[t].group \in Groups /\ tasks[t].repeat \in Nat /\ tasks[t].repeat > 0
                /\ tasks[t].launched \in BOOLEAN
                /\ tasks[t].committed \in Nat /\ tasks[t].executed \in Nat
<1>1. tasks \in Seq(Task)
  BY DEF TypeInv, TypeOK
<1>2. Len(tasks) \in Nat /\ \A t \in 1 .. Len(tasks) : tasks[t] \in Task
  BY <1>1, LenProperties, ElementOfSeq
<1>3. \A r \in Repeats : r \in Nat /\ r > 0
  BY RepeatsAssumption
<1>4. \A t \in 1 .. Len(tasks) :
        /\ tasks[t].group \in Groups /\ tasks[t].repeat \in Repeats
        /\ tasks[t].launched \in BOOLEAN
        /\ tasks[t].committed \in Nat /\ tasks[t].executed \in Nat
  BY <1>2 DEF Task
<1> QED
  BY <1>2, <1>3, <1>4

LEMMA PositionCounts ==
    ASSUME TypeInv, TypeInv'
    PROVE  curMsgPosition \in [Groups -> Nat] /\ curMsgPosition' \in [Groups -> Nat]
<1>1. 0 .. MsgCnt \subseteq Nat
  BY MsgCntAssumption
<1>2. curMsgPosition \in [Groups -> 0 .. MsgCnt]
  BY DEF TypeInv, TypeOK, ClientTypeOK
<1>3. curMsgPosition' \in [Groups -> 0 .. MsgCnt]
  BY DEF TypeInv, TypeOK, ClientTypeOK
<1> QED
  BY <1>1, <1>2, <1>3

LEMMA RowFacts ==
    ASSUME TypeInv, NEW g \in Groups
    PROVE  /\ Len(handles[g]) \in Nat
           /\ \A i \in 1 .. Len(handles[g]) :
                /\ handles[g][i] \in Handle
                /\ handles[g][i].task \in 1 .. Len(tasks) /\ handles[g][i].pos \in Pos
                /\ handles[g][i].repeat \in Nat /\ handles[g][i].commit \in Nat
<1>1. handles[g] \in Seq(Handle)
  BY DEF TypeInv, TypeOK, ClientTypeOK
<1>2. Len(handles[g]) \in Nat /\ \A i \in 1 .. Len(handles[g]) : handles[g][i] \in Handle
  BY <1>1, LenProperties, ElementOfSeq
<1>3. \A i \in 1 .. Len(handles[g]) : handles[g][i].task \in 1 .. Len(tasks)
  BY DEF TypeInv, HandlesOK
<1> QED
  BY <1>2, <1>3 DEF Handle

LEMMA EntryFacts ==
    ASSUME TypeInv, NEW g \in Groups
    PROVE  /\ Len(stream[g]) \in Nat /\ stream[g] \in Seq(Sqe)
           /\ \A j \in 1 .. Len(stream[g]) :
                /\ stream[g][j] \in Sqe /\ stream[g][j].pos \in Pos
                /\ stream[g][j].val \in Nat /\ stream[g][j].last \in BOOLEAN
<1>1. stream[g] \in Seq(Sqe)
  BY DEF TypeInv, TypeOK
<1>2. Len(stream[g]) \in Nat /\ \A j \in 1 .. Len(stream[g]) : stream[g][j] \in Sqe
  BY <1>1, LenProperties, ElementOfSeq
<1> QED
  BY <1>1, <1>2 DEF Sqe

LEMMA SlotFacts ==
    ASSUME TypeInv, NEW g \in Groups
    PROVE  /\ \A p \in Pos : /\ sendMsgs[g][p] \in Msg
                             /\ InSlot(g, p) => sendMsgs[g][p].task \in 1 .. Len(tasks)
                             /\ commitTurnCnt[g][p] \in Nat /\ Low(g, p) \in Nat
           /\ rcvMsg[g] \in Msg /\ msgPos[g] \in Pos
           /\ InHand(g) => rcvMsg[g].task \in 1 .. Len(tasks)
<1>1. \A p \in Pos : commitTurnCnt[g][p] \in Nat
  BY DEF TypeInv, TypeOK, AreaTypeOK
<1>2. \A c \in Nat : LoadHalf(c) \in Nat
  BY DEF LoadHalf, Half
<1> QED
  BY <1>1, <1>2 DEF TypeInv, TypeOK, AreaTypeOK, ServerTypeOK, LinksOK, TaskOf, InSlot, InHand, Low

\* What becomes of a task in any step, and of where it waits.
TasksGo ==
    /\ Len(tasks) <= Len(tasks')
    /\ \A t \in 1 .. Len(tasks) :
        /\ tasks'[t].group = tasks[t].group /\ tasks'[t].repeat = tasks[t].repeat
        /\ tasks'[t].committed \in Nat /\ tasks[t].committed <= tasks'[t].committed
        /\ FullyCommitted(t) => FullyCommitted(t)'
        /\ tasks[t].launched => tasks'[t].launched
PlacesKept == \A g \in Groups, p \in Pos, t \in 1 .. Len(tasks) : At(g, p, t) => At(g, p, t)'

\* A step that adds no task and commits nothing, and one in which nothing is
\* launched or executed either.
TasksKept ==
    /\ Len(tasks') = Len(tasks)
    /\ \A t \in 1 .. Len(tasks) :
        /\ tasks'[t].group = tasks[t].group /\ tasks'[t].repeat = tasks[t].repeat
        /\ tasks'[t].committed = tasks[t].committed
        /\ tasks[t].launched => tasks'[t].launched
RunsKept ==
    \A t \in 1 .. Len(tasks) :
        tasks'[t].launched = tasks[t].launched /\ tasks'[t].executed = tasks[t].executed

\* No task that waits to be launched is.
WaitingKept ==
    \A t \in 1 .. Len(tasks) : ~tasks[t].launched =>
        tasks'[t].launched = tasks[t].launched /\ tasks'[t].executed = tasks[t].executed

\* The client's tables, but for the turns waited for.
RowsKept ==
    /\ \A g \in Groups :
        /\ Len(handles'[g]) = Len(handles[g]) /\ curMsgPosition[g] <= curMsgPosition'[g]
        /\ \A i \in 1 .. Len(handles[g]) :
            /\ handles'[g][i].pos = handles[g][i].pos
            /\ handles'[g][i].repeat = handles[g][i].repeat
            /\ handles'[g][i].commit = handles[g][i].commit
            /\ handles'[g][i].task = handles[g][i].task
    /\ \A g \in Groups, i \in Nat : Committing(g, i)' <=> Committing(g, i)

\* The prepare messages.
MessagesKept ==
    \A g \in Groups :
        /\ InHand(g)' <=> InHand(g)
        /\ InHand(g) => rcvMsg'[g] = rcvMsg[g] /\ msgPos'[g] = msgPos[g]
        /\ \A p \in Pos : /\ InSlot(g, p)' <=> InSlot(g, p)
                          /\ InSlot(g, p) => sendMsgs'[g][p] = sendMsgs[g][p]

LEMMA KeptGo ==
    ASSUME TypeInv, TasksKept, RowsKept PROVE TasksGo /\ PlacesKept
<1>1. TasksGo
  BY TaskFacts DEF TasksKept, TasksGo, FullyCommitted
<1>2. ASSUME NEW g \in Groups, NEW p \in Pos, NEW t \in 1 .. Len(tasks), At(g, p, t)
      PROVE  At(g, p, t)'
  <2>1. tasks'[t].group = g
    BY <1>2 DEF TasksKept, At
  <2>2. \A i \in 1 .. Len(handles'[g]) : handles'[g][i].task = t => handles'[g][i].pos = p
    BY <1>2 DEF RowsKept, At
  <2> QED
    BY <2>1, <2>2 DEF At
<1>3. PlacesKept
  BY <1>2 DEF PlacesKept
<1> QED
  BY <1>1, <1>3

LEMMA TableKept ==
    ASSUME TypeInv, TableInv, TasksKept, RowsKept,
           curMsgPosition \in [Groups -> Nat], curMsgPosition' \in [Groups -> Nat]
    PROVE  TableInv'
<1>1. \A g \in Groups : \A i \in 1 .. Len(handles[g]) :
          /\ handles[g][i].task \in 1 .. Len(tasks) /\ handles[g][i].pos \in Nat
          /\ i \in Nat
  BY RowFacts, MsgCntAssumption DEF Pos
<1>2. ASSUME NEW g \in Groups, NEW i \in 1 .. Len(handles'[g])
      PROVE  LET hd == handles'[g][i]
                 t == tasks'[hd.task]
             IN /\ t.group = g /\ t.repeat = hd.repeat
                /\ hd.commit <= hd.repeat /\ hd.pos < curMsgPosition'[g]
                /\ IF Committing(g, i)' THEN t.committed < hd.commit
                                        ELSE t.committed = hd.commit
  <2>1. /\ i \in 1 .. Len(handles[g])
        /\ handles'[g][i].pos = handles[g][i].pos /\ handles'[g][i].task = handles[g][i].task
        /\ handles'[g][i].repeat = handles[g][i].repeat
        /\ handles'[g][i].commit = handles[g][i].commit
        /\ Committing(g, i)' <=> Committing(g, i)
        /\ curMsgPosition[g] <= curMsgPosition'[g]
    BY <1>1 DEF RowsKept
  <2>2. /\ tasks'[handles[g][i].task].group = tasks[handles[g][i].task].group
        /\ tasks'[handles[g][i].task].repeat = tasks[handles[g][i].task].repeat
        /\ tasks'[handles[g][i].task].committed = tasks[handles[g][i].task].committed
    BY <1>1, <2>1 DEF TasksKept
  <2> QED
    BY <1>1, <2>1, <2>2 DEF TableInv
<1>3. \A g \in Groups : \A i, j \in 1 .. Len(handles'[g]) :
        i # j => /\ handles'[g][i].pos # handles'[g][j].pos
                 /\ handles'[g][i].task # handles'[g][j].task
  BY DEF RowsKept, TableInv
<1> QED
  BY <1>2, <1>3 DEF TableInv

LEMMA CommittedRows ==
    ASSUME TypeInv, NEW g \in Groups
    PROVE  CommittedAll(g) <=>
              \A i \in 1 .. Len(handles[g]) : handles[g][i].commit = handles[g][i].repeat
<1>1. handles[g] \in Seq(Handle)
  BY DEF TypeInv, TypeOK, ClientTypeOK
<1>2. DOMAIN handles[g] = 1 .. Len(handles[g])
  BY <1>1
<1> QED
  BY <1>2 DEF CommittedAll

LEMMA CommittedKept ==
    ASSUME TypeInv, TypeInv', CommittedInv, TasksKept, RowsKept,
           \A g \in Groups :
              \/ finalized'[g]
              \/ (pc \in {"finQuery", "send", "finDone"} /\ call.msg.type = "finalize"
                    /\ call.group = g)'
              => CommittedAll(g)
    PROVE  CommittedInv'
<1>1. ASSUME NEW g \in Groups, CommittedAll(g) PROVE CommittedAll(g)'
  <2>1. CommittedAll(g)' <=>
            \A i \in 1 .. Len(handles'[g]) : handles'[g][i].commit = handles'[g][i].repeat
    <3>1. handles'[g] \in Seq(Handle)
      BY DEF TypeInv, TypeOK, ClientTypeOK
    <3>2. DOMAIN handles'[g] = 1 .. Len(handles'[g])
      BY <3>1
    <3> QED
      BY <3>2 DEF CommittedAll
  <2>2. \A i \in 1 .. Len(handles[g]) : handles[g][i].commit = handles[g][i].repeat
    BY <1>1, CommittedRows
  <2> QED
    BY <2>1, <2>2 DEF RowsKept
<1>2. \A t \in 1 .. Len(tasks') : FullyCommitted(t)' \/ InTable(t)'
  <2> SUFFICES ASSUME NEW t \in 1 .. Len(tasks'), ~FullyCommitted(t)' PROVE InTable(t)'
    OBVIOUS
  <2>1. t \in 1 .. Len(tasks) /\ ~FullyCommitted(t)
    BY DEF FullyCommitted, TasksKept
  <2>2. PICK g \in Groups : \E i \in 1 .. Len(handles[g]) : handles[g][i].task = t
    BY <2>1 DEF CommittedInv, InTable
  <2> QED
    BY <2>2 DEF InTable, RowsKept
<1> QED
  BY <1>1, <1>2 DEF CommittedInv

LEMMA MessageKept ==
    ASSUME TypeInv, MessageInv, TasksGo, PlacesKept, WaitingKept, MessagesKept
    PROVE  MessageInv'
<1>1. ASSUME NEW g \in Groups, NEW p \in Pos, NEW m, m.task \in 1 .. Len(tasks),
             NotLaunched(g, p, m)
      PROVE  NotLaunched(g, p, m)'
  BY <1>1 DEF NotLaunched, TasksGo, PlacesKept, WaitingKept
<1>2. ASSUME NEW g \in Groups, NEW p \in Pos, InSlot(g, p)'
      PROVE  /\ InSlot(g, p) /\ sendMsgs'[g][p] = sendMsgs[g][p]
             /\ NotLaunched(g, p, sendMsgs[g][p])'
  <2>1. InSlot(g, p) /\ sendMsgs'[g][p] = sendMsgs[g][p]
    BY <1>2 DEF MessagesKept
  <2> SUFFICES ASSUME NEW m, m = sendMsgs[g][p] PROVE NotLaunched(g, p, m)'
    BY <2>1 DEF NotLaunched, At
  <2> QED
    BY <1>1, <2>1, SlotFacts DEF MessageInv
<1>3. ASSUME NEW g \in Groups, InHand(g)'
      PROVE  /\ InHand(g) /\ rcvMsg'[g] = rcvMsg[g]
             /\ NotLaunched(g, msgPos[g], rcvMsg[g])'
  <2>1. InHand(g) /\ rcvMsg'[g] = rcvMsg[g] /\ msgPos'[g] = msgPos[g]
    BY <1>3 DEF MessagesKept
  <2> SUFFICES ASSUME NEW m, m = rcvMsg[g], NEW p \in Pos, p = msgPos[g]
               PROVE  NotLaunched(g, p, m)'
    BY <2>1, SlotFacts DEF NotLaunched, At
  <2> QED
    BY <1>1, <2>1, SlotFacts DEF MessageInv
<1>4. ASSUME NEW g \in Groups, NEW p \in Pos, NEW q \in Pos, InSlot(g, p)', InSlot(g, q)', p # q
      PROVE  sendMsgs'[g][p].task # sendMsgs'[g][q].task
  BY <1>2, <1>4 DEF MessageInv
<1>5. ASSUME NEW g \in Groups, NEW p \in Pos, InSlot(g, p)', InHand(g)'
      PROVE  sendMsgs'[g][p].task # rcvMsg'[g].task
  BY <1>2, <1>3, <1>5 DEF MessageInv
<1> QED
  BY <1>2, <1>3, <1>4, <1>5 DEF MessageInv

\* The streams.  An entry is taken off, or one that waits for no commit is added.
Dropped(g) == stream[g] # <<>> /\ stream' = [stream EXCEPT ![g] = Tail(@)]
Added(g, sqes) == stream' = [stream EXCEPT ![g] = @ \o sqes]
SyncAdded(g) == \E sqe \in Sqe : sqe.type = "waitFinish" /\ Added(g, <<sqe>>)

LEMMA DroppedEntries ==
    ASSUME TypeInv, NEW g \in Groups, Dropped(g)
    PROVE  /\ Len(stream[g]) >= 1 /\ Head(stream[g]) = stream[g][1]
           /\ Len(stream'[g]) = Len(stream[g]) - 1
           /\ \A j \in 1 .. Len(stream'[g]) :
                j + 1 \in 1 .. Len(stream[g]) /\ stream'[g][j] = stream[g][j + 1]
           /\ \A g2 \in Groups \ {g} : stream'[g2] = stream[g2]
<1>1. stream \in [Groups -> Seq(Sqe)] /\ stream[g] \in Seq(Sqe) /\ stream[g] # <<>>
  BY DEF TypeInv, TypeOK, Dropped
<1>2. /\ Len(Tail(stream[g])) = Len(stream[g]) - 1
      /\ \A i \in 1 .. Len(Tail(stream[g])) : Tail(stream[g])[i] = stream[g][i + 1]
  BY <1>1, HeadTailProperties
<1>3. Len(stream[g]) \in Nat /\ Len(stream[g]) # 0 /\ Head(stream[g]) = stream[g][1]
  BY <1>1, EmptySeq, EntryFacts
<1>4. stream'[g] = Tail(stream[g]) /\ \A g2 \in Groups \ {g} : stream'[g2] = stream[g2]
  BY <1>1 DEF Dropped
<1> QED
  BY <1>2, <1>3, <1>4

LEMMA AddedEntries ==
    ASSUME TypeInv, NEW g \in Groups, NEW sqes \in Seq(Sqe), Added(g, sqes)
    PROVE  /\ Len(sqes) \in Nat /\ Len(stream'[g]) = Len(stream[g]) + Len(sqes)
           /\ \A j \in 1 .. Len(stream[g]) : j \in 1 .. Len(stream'[g])
                                             /\ stream'[g][j] = stream[g][j]
           /\ \A j \in 1 .. Len(stream'[g]) : j > Len(stream[g]) =>
                /\ j - Len(stream[g]) \in 1 .. Len(sqes)
                /\ stream'[g][j] = sqes[j - Len(stream[g])]
           /\ \A g2 \in Groups \ {g} : stream'[g2] = stream[g2]
<1>1. stream \in [Groups -> Seq(Sqe)] /\ stream[g] \in Seq(Sqe)
  BY DEF TypeInv, TypeOK
<1>2. /\ Len(stream[g] \o sqes) = Len(stream[g]) + Len(sqes)
      /\ \A i \in 1 .. Len(stream[g]) + Len(sqes) : (stream[g] \o sqes)[i] =
             IF i <= Len(stream[g]) THEN stream[g][i] ELSE sqes[i - Len(stream[g])]
  BY <1>1, ConcatProperties
<1>3. Len(stream[g]) \in Nat /\ Len(sqes) \in Nat
  BY EntryFacts, LenProperties
<1>4. stream'[g] = stream[g] \o sqes /\ \A g2 \in Groups \ {g} : stream'[g2] = stream[g2]
  BY <1>1 DEF Added
<1> QED
  BY <1>2, <1>3, <1>4

LEMMA SyncAddedEntries ==
    ASSUME TypeInv, NEW g \in Groups, SyncAdded(g)
    PROVE  /\ Len(stream'[g]) = Len(stream[g]) + 1
           /\ \A j \in 1 .. Len(stream[g]) : stream'[g][j] = stream[g][j]
           /\ stream'[g][Len(stream[g]) + 1].type = "waitFinish"
           /\ \A g2 \in Groups \ {g} : stream'[g2] = stream[g2]
<1>1. PICK sqe \in Sqe : sqe.type = "waitFinish" /\ Added(g, <<sqe>>)
  BY DEF SyncAdded
<1>2. <<sqe>> \in Seq(Sqe) /\ Len(<<sqe>>) = 1 /\ <<sqe>>[1] = sqe
  OBVIOUS
<1> DEFINE sqes == <<sqe>>
<1>3. sqes \in Seq(Sqe) /\ Len(sqes) = 1 /\ sqes[1] = sqe /\ Added(g, sqes)
  BY <1>1, <1>2
<1> HIDE DEF sqes
<1>4. /\ Len(stream'[g]) = Len(stream[g]) + Len(sqes)
      /\ \A j \in 1 .. Len(stream[g]) : stream'[g][j] = stream[g][j]
      /\ \A j \in 1 .. Len(stream'[g]) : j > Len(stream[g]) =>
           stream'[g][j] = sqes[j - Len(stream[g])]
      /\ \A g2 \in Groups \ {g} : stream'[g2] = stream[g2]
  BY <1>3, AddedEntries
<1>5. Len(stream[g]) \in Nat
  BY EntryFacts
<1>6. Len(stream[g]) + 1 \in 1 .. Len(stream'[g]) /\ Len(stream[g]) + 1 > Len(stream[g])
      /\ (Len(stream[g]) + 1) - Len(stream[g]) = 1
  BY <1>3, <1>4, <1>5
<1>7. stream'[g][Len(stream[g]) + 1] = sqe
  BY <1>3, <1>4, <1>6
<1> QED
  BY <1>1, <1>3, <1>4, <1>7

LEMMA EntryGoes ==
    ASSUME TypeInv, TasksGo, PlacesKept, NEW g \in Groups, NEW e, e.pos \in Pos, EntryOK(e, g)
    PROVE  EntryOK(e, g)'
<1>1. CASE e.type = "waitFinish"
  BY <1>1 DEF EntryOK
<1>2. CASE e.type # "waitFinish"
  <2>1. e.task \in 1 .. Len(tasks) /\ e.task \in 1 .. Len(tasks')
    BY <1>2, TaskFacts DEF EntryOK, TasksGo
  <2> QED
    BY <1>2, <2>1 DEF EntryOK, TasksGo, PlacesKept
<1> QED
  BY <1>1, <1>2

LEMMA EntryKept ==
    ASSUME TypeInv, EntryInv, TasksGo, PlacesKept,
           \/ stream' = stream
           \/ \E g \in Groups : Dropped(g) \/ SyncAdded(g)
    PROVE  EntryInv'
<1>1. \A g \in Groups : \A j \in 1 .. Len(stream[g]) :
          EntryOK(stream[g][j], g) /\ stream[g][j].pos \in Pos
  BY EntryFacts DEF EntryInv
<1>2. ASSUME NEW g \in Groups, NEW j \in 1 .. Len(stream'[g])
      PROVE  EntryOK(stream[g][j], g)'
  <2> SUFFICES ASSUME NEW e, e = stream'[g][j] PROVE EntryOK(e, g)'
    BY DEF EntryOK, At
  <2>1. e.type = "waitFinish" \/ \E k \in 1 .. Len(stream[g]) : e = stream[g][k]
    <3>1. CASE stream' = stream
      BY <3>1
    <3>2. ASSUME NEW g2 \in Groups, Dropped(g2)
          PROVE  \E k \in 1 .. Len(stream[g]) : e = stream[g][k]
      BY <3>2, DroppedEntries
    <3>3. ASSUME NEW g2 \in Groups, SyncAdded(g2)
          PROVE  e.type = "waitFinish" \/ \E k \in 1 .. Len(stream[g]) : e = stream[g][k]
      <4>1. CASE g = g2
        <5>1. Len(stream[g]) \in Nat /\ (j \in 1 .. Len(stream[g]) \/ j = Len(stream[g]) + 1)
          BY <3>3, <4>1, SyncAddedEntries, EntryFacts
        <5> QED
          BY <3>3, <4>1, <5>1, SyncAddedEntries
      <4>2. CASE g # g2
        BY <3>3, <4>2, SyncAddedEntries
      <4> QED
        BY <4>1, <4>2
    <3> QED
      BY <3>1, <3>2, <3>3
  <2>2. CASE e.type = "waitFinish"
    BY <2>2 DEF EntryOK
  <2>3. CASE \E k \in 1 .. Len(stream[g]) : e = stream[g][k]
    BY <1>1, <2>3, EntryGoes
  <2> QED
    BY <2>1, <2>2, <2>3
<1> QED
  BY <1>2 DEF EntryInv

\* The entries of a stream move up by d places; one that waits for no commit
\* may have been added.
Moved(g, d) ==
    /\ d \in {0, 1} /\ d <= Len(stream[g])
    /\ Len(stream'[g]) \in Nat /\ Len(stream[g]) <= Len(stream'[g]) + d
    /\ \A j \in 1 .. Len(stream'[g]) :
        IF j + d <= Len(stream[g]) THEN stream'[g][j] = stream[g][j + d]
        ELSE stream'[g][j].type = "waitFinish"

LEMMA MovedCases ==
    ASSUME TypeInv, NEW g \in Groups
    PROVE  /\ stream'[g] = stream[g] => Moved(g, 0)
           /\ Dropped(g) => Moved(g, 1)
           /\ SyncAdded(g) => Moved(g, 0)
           /\ \A g2 \in Groups \ {g} : Dropped(g2) \/ SyncAdded(g2) => stream'[g] = stream[g]
<1>1. Len(stream[g]) \in Nat
  BY EntryFacts
<1>2. ASSUME stream'[g] = stream[g] PROVE Moved(g, 0)
  BY <1>1, <1>2 DEF Moved
<1>3. ASSUME Dropped(g) PROVE Moved(g, 1)
  BY <1>1, <1>3, DroppedEntries DEF Moved
<1>4. ASSUME SyncAdded(g) PROVE Moved(g, 0)
  <2>1. /\ Len(stream'[g]) = Len(stream[g]) + 1
        /\ \A j \in 1 .. Len(stream[g]) : stream'[g][j] = stream[g][j]
        /\ stream'[g][Len(stream[g]) + 1].type = "waitFinish"
    BY <1>4, SyncAddedEntries
  <2>2. ASSUME NEW j \in 1 .. Len(stream'[g])
        PROVE  IF j + 0 <= Len(stream[g]) THEN stream'[g][j] = stream[g][j + 0]
               ELSE stream'[g][j].type = "waitFinish"
    <3>1. j + 0 = j /\ (j \in 1 .. Len(stream[g]) \/ j = Len(stream[g]) + 1)
      BY <1>1, <2>1
    <3> QED
      BY <1>1, <2>1, <3>1
  <2> QED
    BY <1>1, <2>1, <2>2 DEF Moved
<1>5. \A g2 \in Groups \ {g} : Dropped(g2) \/ SyncAdded(g2) => stream'[g] = stream[g]
  BY DroppedEntries, SyncAddedEntries
<1> QED
  BY <1>2, <1>3, <1>4, <1>5

LEMMA KernelMoved ==
    ASSUME TypeInv, EntryInv, KernelInv, TasksGo, NEW g \in Groups, NEW d, Moved(g, d),
           \A k \in 1 .. Len(stream[g]) : k > d /\ stream[g][k].type = "kernel"
                => tasks'[stream[g][k].task].executed < stream[g][k].val,
           d = 1 /\ Len(stream[g]) > 1 /\ stream[g][2].type = "kernel"
                => stream[g][2].val <= tasks[stream[g][2].task].committed
    PROVE  \A j \in 1 .. Len(stream'[g]) : KernelOK(g, j)'
<1> SUFFICES ASSUME NEW j \in 1 .. Len(stream'[g]), stream'[g][j].type = "kernel",
                    NEW e, e = stream'[g][j]
             PROVE  /\ tasks'[e.task].executed < e.val
                    /\ j = 1 => e.val <= tasks'[e.task].committed
                    /\ j > 1 => stream'[g][j - 1] = [e EXCEPT !.type = "waitCommit"]
                    /\ \A k \in 1 .. j - 1 :
                        stream'[g][k].type = "kernel" /\ stream'[g][k].task = e.task
                            => stream'[g][k].val < e.val
  BY DEF KernelOK
<1>1. /\ d \in {0, 1} /\ d \in Nat /\ Len(stream[g]) \in Nat /\ Len(stream'[g]) \in Nat /\ j \in Nat
      /\ j + d \in 1 .. Len(stream[g]) /\ j + d > d /\ e = stream[g][j + d]
      /\ \A k \in 1 .. j : k + d \in 1 .. Len(stream[g]) /\ stream'[g][k] = stream[g][k + d]
  <2>1. d \in {0, 1} /\ d \in Nat /\ Len(stream[g]) \in Nat /\ Len(stream'[g]) \in Nat /\ j \in Nat
    BY EntryFacts DEF Moved
  <2>2. j + d <= Len(stream[g])
    BY DEF Moved
  <2>3. \A k \in 1 .. j : k + d \in 1 .. Len(stream[g]) /\ k \in 1 .. Len(stream'[g])
    BY <2>1, <2>2
  <2>4. \A k \in 1 .. j : stream'[g][k] = stream[g][k + d]
    BY <2>1, <2>3 DEF Moved
  <2> QED
    BY <2>1, <2>2, <2>3, <2>4
<1>2. KernelOK(g, j + d) /\ EntryOK(e, g) /\ e.type = "kernel"
  BY <1>1 DEF KernelInv, EntryInv
<1>3. /\ e.task \in 1 .. Len(tasks) /\ e.val \in Nat
      /\ tasks[e.task].committed \in Nat /\ tasks'[e.task].committed >= tasks[e.task].committed
  <2>1. e.task \in 1 .. Len(tasks)
    BY <1>2 DEF EntryOK
  <2>2. e.val \in Nat
    BY <1>1, EntryFacts
  <2>3. tasks[e.task].committed \in Nat
    BY <2>1, TaskFacts
  <2>4. tasks'[e.task].committed >= tasks[e.task].committed
    BY <2>1, <2>3 DEF TasksGo
  <2> QED
    BY <2>1, <2>2, <2>3, <2>4
<1>4. tasks'[e.task].executed < e.val
  BY <1>1, <1>2
<1>5. ASSUME j = 1 PROVE e.val <= tasks'[e.task].committed
  <2>1. CASE d = 0
    <3>1. j + d = 1
      BY <1>1, <1>5, <2>1
    <3>2. e.val <= tasks[e.task].committed
      BY <1>1, <1>2, <3>1 DEF KernelOK
    <3>3. tasks[e.task].committed <= tasks'[e.task].committed
      BY <1>3 DEF TasksGo
    <3> QED
      BY <1>3, <3>2, <3>3, TaskFacts DEF TasksGo
  <2>2. CASE d = 1
    <3>1. e = stream[g][2] /\ Len(stream[g]) > 1
      BY <1>1, <1>5, <2>2
    <3>2. e.val <= tasks[e.task].committed
      BY <1>2, <2>2, <3>1
    <3> QED
      BY <1>3, <3>2 DEF TasksGo
  <2> QED
    BY <1>1, <2>1, <2>2
<1>6. ASSUME j > 1 PROVE stream'[g][j - 1] = [e EXCEPT !.type = "waitCommit"]
  <2>1. j - 1 \in 1 .. j /\ (j - 1) + d = (j + d) - 1 /\ j + d > 1
    BY <1>1, <1>6
  <2>2. stream[g][(j + d) - 1] = [e EXCEPT !.type = "waitCommit"]
    BY <1>1, <1>2, <2>1 DEF KernelOK
  <2> QED
    BY <1>1, <2>1, <2>2
<1>7. ASSUME NEW k \in 1 .. j - 1, stream'[g][k].type = "kernel", stream'[g][k].task = e.task
      PROVE  stream'[g][k].val < e.val
  <2>1. k \in 1 .. j /\ k + d \in 1 .. (j + d) - 1
    BY <1>1
  <2> QED
    BY <1>1, <1>2, <1>7, <2>1 DEF KernelOK
<1> QED
  BY <1>4, <1>5, <1>6, <1>7

LEMMA CountMoved ==
    ASSUME TypeInv, EntryInv, NEW g \in Groups, NEW p \in Pos, CountOK(g, p), MessagesKept,
           NEW d, Moved(g, d), d = 1 => ~LastWait(stream[g][1], p),
           \A t \in 1 .. Len(tasks) : Covered(g, p, t) => Covered(g, p, t)',
           Low(g, p) = 0 => Low(g, p)' = 0
    PROVE  CountOK(g, p)'
<1>1. d \in {0, 1} /\ d \in Nat /\ Len(stream[g]) \in Nat /\ Len(stream'[g]) \in Nat
  BY EntryFacts DEF Moved
<1>2. ASSUME NEW j \in Nat, NoneBefore(g, p, j)', j + d <= Len(stream[g]) + 1,
             j <= Len(stream'[g]) + 1
      PROVE  NoneBefore(g, p, j + d)
  <2> SUFFICES ASSUME NEW k \in 1 .. (j + d) - 1 PROVE ~LastWait(stream[g][k], p)
    BY DEF NoneBefore
  <2>1. CASE k <= d
    BY <1>1, <2>1
  <2>2. CASE k > d
    <3>1. /\ k - d \in 1 .. j - 1 /\ k - d \in 1 .. Len(stream'[g])
          /\ (k - d) + d = k /\ k <= Len(stream[g])
      <4>1. k \in Nat /\ k <= (j + d) - 1 /\ k > d /\ j \in Nat
        BY <1>1, <1>2, <2>2
      <4>2. j + d <= Len(stream[g]) + 1 /\ j <= Len(stream'[g]) + 1
        BY <1>2
      <4> QED
        BY <1>1, <4>1, <4>2
    <3>2. stream'[g][k - d] = stream[g][k]
      BY <3>1 DEF Moved
    <3>3. ~LastWait(stream'[g][k - d], p)
      BY <1>2, <3>1 DEF NoneBefore, LastWait
    <3> QED
      BY <3>2, <3>3
  <2> QED
    BY <1>1, <2>1, <2>2
<1>3. ASSUME NEW j \in 1 .. Len(stream'[g]), stream'[g][j].type = "waitCommit",
             stream'[g][j].pos = p, NoneBefore(g, p, j)'
      PROVE  Covered(g, p, stream[g][j].task)'
  <2> SUFFICES ASSUME NEW t, t = stream'[g][j].task PROVE Covered(g, p, t)'
    BY DEF Covered, FullyCommitted
  <2>1. j + d \in 1 .. Len(stream[g]) /\ stream'[g][j] = stream[g][j + d] /\ j \in Nat
    BY <1>1, <1>3 DEF Moved
  <2>2. NoneBefore(g, p, j + d)
    BY <1>1, <1>2, <1>3, <2>1
  <2>3. Covered(g, p, t)
    BY <1>3, <2>1, <2>2 DEF CountOK
  <2>4. t \in 1 .. Len(tasks)
    BY <1>3, <2>1 DEF EntryInv, EntryOK
  <2> QED
    BY <2>3, <2>4
<1>4. ASSUME NoneLeft(g, p)'
      PROVE  (IF InHand(g) /\ msgPos[g] = p THEN Covered(g, p, rcvMsg[g].task)
              ELSE IF InSlot(g, p) THEN Covered(g, p, sendMsgs[g][p].task)
              ELSE Low(g, p) = 0)'
  <2>1. NoneBefore(g, p, Len(stream[g]) + 1)
    <3>1. \A k \in 1 .. Len(stream'[g]) : ~LastWait(stream'[g][k], p)
      BY <1>1, <1>4 DEF NoneLeft, NoneBefore, LastWait
    <3> SUFFICES ASSUME NEW k \in 1 .. Len(stream[g]) PROVE ~LastWait(stream[g][k], p)
      BY <1>1 DEF NoneBefore
    <3>2. CASE k <= d
      BY <1>1, <3>2
    <3>3. CASE k > d
      <4>1. k - d \in 1 .. Len(stream'[g]) /\ (k - d) + d = k
        BY <1>1, <3>3 DEF Moved
      <4>2. stream'[g][k - d] = stream[g][k]
        BY <1>1, <4>1 DEF Moved
      <4> QED
        BY <3>1, <4>1, <4>2
    <3> QED
      BY <1>1, <3>2, <3>3
  <2>2. IF InHand(g) /\ msgPos[g] = p THEN Covered(g, p, rcvMsg[g].task)
        ELSE IF InSlot(g, p) THEN Covered(g, p, sendMsgs[g][p].task)
        ELSE Low(g, p) = 0
    BY <2>1 DEF CountOK, NoneLeft
  <2>3. CASE InHand(g) /\ msgPos[g] = p
    <3> SUFFICES ASSUME NEW t, t = rcvMsg[g].task PROVE Covered(g, p, t)'
      BY <2>3 DEF MessagesKept, Covered, FullyCommitted
    <3> QED
      BY <2>2, <2>3, SlotFacts
  <2>4. CASE ~(InHand(g) /\ msgPos[g] = p) /\ InSlot(g, p)
    <3>1. ~(InHand(g)' /\ msgPos'[g] = p) /\ InSlot(g, p)' /\ sendMsgs'[g][p] = sendMsgs[g][p]
      BY <2>4 DEF MessagesKept
    <3> SUFFICES ASSUME NEW t, t = sendMsgs[g][p].task PROVE Covered(g, p, t)'
      BY <3>1 DEF Covered, FullyCommitted
    <3> QED
      BY <2>2, <2>4, SlotFacts
  <2>5. CASE ~(InHand(g) /\ msgPos[g] = p) /\ ~InSlot(g, p)
    <3>1. ~(InHand(g)' /\ msgPos'[g] = p) /\ ~InSlot(g, p)'
      BY <2>5 DEF MessagesKept
    <3> QED
      BY <2>2, <2>5, <3>1
  <2> QED
    BY <2>3, <2>4, <2>5
<1> QED
  BY <1>3, <1>4 DEF CountOK

LEMMA PendingMoved ==
    ASSUME TypeInv, PendingInv, TasksKept, MessagesKept,
           \A g \in Groups : \E d : Moved(g, d)
              /\ (d = 1 /\ stream[g][1].type = "waitCommit" /\ stream[g][1].last
                    => FullyCommitted(stream[g][1].task))
    PROVE  PendingInv'
<1> SUFFICES ASSUME NEW t \in 1 .. Len(tasks), ~FullyCommitted(t) PROVE Pending(t)'
  BY DEF PendingInv, TasksKept, FullyCommitted
<1>1. PICK g \in Groups :
        \/ \E p \in Pos : InSlot(g, p) /\ sendMsgs[g][p].task = t
        \/ InHand(g) /\ rcvMsg[g].task = t
        \/ \E j \in 1 .. Len(stream[g]) :
            stream[g][j].type = "waitCommit" /\ stream[g][j].last /\ stream[g][j].task = t
  BY DEF PendingInv, Pending
<1>2. CASE \E p \in Pos : InSlot(g, p) /\ sendMsgs[g][p].task = t
  BY <1>2 DEF MessagesKept, Pending
<1>3. CASE InHand(g) /\ rcvMsg[g].task = t
  BY <1>3 DEF MessagesKept, Pending
<1>4. ASSUME NEW j \in 1 .. Len(stream[g]), stream[g][j].type = "waitCommit",
             stream[g][j].last, stream[g][j].task = t
      PROVE  Pending(t)'
  <2>1. PICK d : Moved(g, d)
              /\ (d = 1 /\ stream[g][1].type = "waitCommit" /\ stream[g][1].last
                    => FullyCommitted(stream[g][1].task))
    OBVIOUS
  <2>2. d \in {0, 1} /\ d \in Nat /\ Len(stream[g]) \in Nat /\ Len(stream'[g]) \in Nat
    BY <2>1, EntryFacts DEF Moved
  <2>3. j > d
    BY <1>4, <2>1, <2>2
  <2>4. j - d \in 1 .. Len(stream'[g]) /\ (j - d) + d = j
    BY <2>1, <2>2, <2>3 DEF Moved
  <2>5. stream'[g][j - d] = stream[g][j]
    BY <2>1, <2>2, <2>4 DEF Moved
  <2> QED
    BY <1>4, <2>4, <2>5 DEF Pending
<1> QED
  BY <1>1, <1>2, <1>3, <1>4

\* A step that is none of this invariant's business.
Quiet ==
    /\ TasksKept /\ RunsKept /\ RowsKept /\ MessagesKept
    /\ commitTurnCnt' = commitTurnCnt
    /\ \A g \in Groups :
        \/ finalized'[g]
        \/ (pc \in {"finQuery", "send", "finDone"} /\ call.msg.type = "finalize"
              /\ call.group = g)'
        => CommittedAll(g)
    /\ \/ stream' = stream
       \/ \E g \in Groups : Dropped(g) /\ Head(stream[g]).type \in {"waitFinish", "post"}
       \/ \E g \in Groups : SyncAdded(g)

LEMMA CommitQuiet == TypeInv /\ TypeInv' /\ CommitInv /\ Quiet => CommitInv'
<1> SUFFICES ASSUME TypeInv, TypeInv', CommitInv, Quiet PROVE CommitInv'
  OBVIOUS
<1>a. /\ TableInv /\ CommittedInv /\ MessageInv /\ EntryInv /\ KernelInv
      /\ CountInv /\ PendingInv /\ TurnsInv
  BY DEF CommitInv
<1>b. TasksKept /\ RunsKept /\ RowsKept /\ MessagesKept /\ commitTurnCnt' = commitTurnCnt
  BY DEF Quiet
<1>c. TasksGo /\ PlacesKept
  BY <1>b, KeptGo
<1>1. TableInv'
  <2>1. curMsgPosition \in [Groups -> Nat] /\ curMsgPosition' \in [Groups -> Nat]
    BY PositionCounts
  <2> QED
    BY <1>a, <1>b, <2>1, TableKept
<1>2. CommittedInv'
  BY <1>a, <1>b, CommittedKept DEF Quiet
<1>3. MessageInv'
  BY <1>a, <1>b, <1>c, MessageKept DEF RunsKept, WaitingKept
<1>4. EntryInv'
  BY <1>a, <1>c, EntryKept DEF Quiet
<1>5. ASSUME NEW g \in Groups
      PROVE  \E d : /\ Moved(g, d) /\ d \in {0, 1}
                    /\ d = 1 => Len(stream[g]) >= 1 /\ stream[g][1].type \in {"waitFinish", "post"}
  <2>1. CASE stream'[g] = stream[g]
    BY <2>1, MovedCases
  <2>2. CASE Dropped(g) /\ Head(stream[g]).type \in {"waitFinish", "post"}
    BY <2>2, MovedCases, DroppedEntries
  <2>3. CASE SyncAdded(g)
    BY <2>3, MovedCases
  <2> QED
    BY <2>1, <2>2, <2>3, MovedCases DEF Quiet
<1>6. ASSUME NEW g \in Groups PROVE \A j \in 1 .. Len(stream'[g]) : KernelOK(g, j)'
  <2>1. PICK d : /\ Moved(g, d) /\ d \in {0, 1}
                 /\ d = 1 => Len(stream[g]) >= 1 /\ stream[g][1].type \in {"waitFinish", "post"}
    BY <1>5
  <2>2. Len(stream[g]) \in Nat
    BY EntryFacts
  <2>3. \A k \in 1 .. Len(stream[g]) : stream[g][k].type = "kernel"
          => tasks'[stream[g][k].task].executed < stream[g][k].val
    <3> SUFFICES ASSUME NEW k \in 1 .. Len(stream[g]), stream[g][k].type = "kernel",
                        NEW t, t = stream[g][k].task
                 PROVE  tasks'[t].executed < stream[g][k].val
      OBVIOUS
    <3>1. KernelOK(g, k) /\ EntryOK(stream[g][k], g)
      BY <1>a DEF KernelInv, EntryInv
    <3>2. t \in 1 .. Len(tasks)
      BY <3>1 DEF EntryOK
    <3>3. tasks[t].executed < stream[g][k].val
      BY <3>1 DEF KernelOK
    <3> QED
      BY <1>b, <3>2, <3>3 DEF RunsKept
  <2>4. d = 1 /\ Len(stream[g]) > 1 => stream[g][2].type # "kernel"
    <3> SUFFICES ASSUME d = 1, Len(stream[g]) > 1, stream[g][2].type = "kernel",
                        NEW two, two = 2
                 PROVE  FALSE
      OBVIOUS
    <3>1. two \in 1 .. Len(stream[g]) /\ two - 1 = 1 /\ two > 1
      BY <2>2
    <3>2. stream[g][1] = [stream[g][2] EXCEPT !.type = "waitCommit"]
      BY <1>a, <3>1 DEF KernelInv, KernelOK
    <3>3. stream[g][2] \in Sqe
      BY <3>1, EntryFacts
    <3> QED
      BY <2>1, <3>2, <3>3 DEF Sqe
  <2> QED
    BY <1>a, <1>c, <2>1, <2>3, <2>4, KernelMoved
<1>7. ASSUME NEW g \in Groups, NEW p \in Pos PROVE CountOK(g, p)'
  <2>1. PICK d : /\ Moved(g, d) /\ d \in {0, 1}
                 /\ d = 1 => Len(stream[g]) >= 1 /\ stream[g][1].type \in {"waitFinish", "post"}
    BY <1>5
  <2>2. d = 1 => ~LastWait(stream[g][1], p)
    BY <2>1 DEF LastWait
  <2>3. Low(g, p)' = Low(g, p)
    BY <1>b DEF Low
  <2>4. \A t \in 1 .. Len(tasks) : Covered(g, p, t) => Covered(g, p, t)'
    BY <1>b, <2>3 DEF Covered, FullyCommitted, TasksKept
  <2> QED
    BY <1>a, <1>b, <2>1, <2>2, <2>3, <2>4, CountMoved DEF CountInv
<1>8. PendingInv'
  BY <1>a, <1>b, <1>5, PendingMoved
<1>9. TurnsInv'
  BY <1>a, <1>b DEF TurnsInv, TasksKept, RunsKept
<1> QED
  BY <1>1, <1>2, <1>3, <1>4, <1>6, <1>7, <1>8, <1>9 DEF CommitInv, KernelInv, CountInv

LEMMA TaskChanged ==
    ASSUME TypeInv, NEW k \in 1 .. Len(tasks), NEW e \in Task, tasks' = [tasks EXCEPT ![k] = e]
    PROVE  /\ Len(tasks') = Len(tasks) /\ tasks'[k] = e
           /\ \A t \in 1 .. Len(tasks) : t # k => tasks'[t] = tasks[t]
BY ExceptSeq DEF TypeInv, TypeOK

LEMMA RowChanged ==
    ASSUME TypeInv, NEW g \in Groups, NEW k \in 1 .. Len(handles[g]), NEW hd \in Handle,
           handles' = [handles EXCEPT ![g][k] = hd]
    PROVE  /\ \A g2 \in Groups : Len(handles'[g2]) = Len(handles[g2])
           /\ \A g2 \in Groups \ {g} : handles'[g2] = handles[g2]
           /\ handles'[g][k] = hd
           /\ \A i \in 1 .. Len(handles[g]) : i # k => handles'[g][i] = handles[g][i]
<1>1. handles \in [Groups -> Seq(Handle)] /\ handles[g] \in Seq(Handle)
  BY DEF TypeInv, TypeOK, ClientTypeOK
<1>2. /\ Len([handles[g] EXCEPT ![k] = hd]) = Len(handles[g])
      /\ \A i \in 1 .. Len(handles[g]) :
            [handles[g] EXCEPT ![k] = hd][i] = IF i = k THEN hd ELSE handles[g][i]
  BY <1>1, ExceptSeq
<1>3. handles'[g] = [handles[g] EXCEPT ![k] = hd] /\ \A g2 \in Groups \ {g} : handles'[g2] = handles[g2]
  BY <1>1
<1> QED
  BY <1>2, <1>3

LEMMA QuietTasks == ASSUME TypeInv, tasks' = tasks PROVE TasksKept /\ RunsKept
BY DEF TasksKept, RunsKept

LEMMA QuietRows ==
    ASSUME TypeInv, handles' = handles, pc # "commit", pc' # "commit",
           \A g \in Groups : curMsgPosition[g] <= curMsgPosition'[g]
    PROVE  RowsKept
BY DEF RowsKept, Committing

LEMMA QuietSlots ==
    ASSUME sendMsgs' = sendMsgs, UNCHANGED serverVars PROVE MessagesKept
BY DEF MessagesKept, serverVars, InSlot, InHand

LEMMA PutQuiet ==
    ASSUME TypeInv, NEW type \in {"sync", "finalize"}, NEW m \in Msg, m.type = type,
           PutMsg(type, m), UNCHANGED serverVars
    PROVE  MessagesKept
<1>1. /\ sendMsgs \in [Groups -> [Pos -> Msg]] /\ call.group \in Groups
  BY DEF TypeInv, TypeOK, AreaTypeOK, ClientTypeOK, Call
<1>2. /\ sendMsgs[call.group][curMsgPosition[call.group]] = NoMsg
      /\ sendMsgs' = [sendMsgs EXCEPT ![call.group][curMsgPosition[call.group]] = m]
  BY DEF PutMsg
<1>3. NoMsg.type = "none"
  BY DEF NoMsg
<1>4. ASSUME NEW g \in Groups, NEW p \in Pos
      PROVE  /\ InSlot(g, p)' <=> InSlot(g, p)
             /\ InSlot(g, p) => sendMsgs'[g][p] = sendMsgs[g][p]
  <2>1. CASE g = call.group /\ p = curMsgPosition[call.group]
    BY <1>1, <1>2, <1>3, <2>1 DEF InSlot
  <2>2. CASE ~(g = call.group /\ p = curMsgPosition[call.group])
    <3>1. sendMsgs'[g][p] = sendMsgs[g][p]
      BY <1>1, <1>2, <2>2
    <3> QED
      BY <3>1 DEF InSlot
  <2> QED
    BY <2>1, <2>2
<1> QED
  BY <1>4 DEF MessagesKept, serverVars, InHand

LEMMA PositionGrows ==
    ASSUME TypeInv, NEW g \in Groups, AdvancePosition(g)
    PROVE  \A g2 \in Groups : curMsgPosition[g2] <= curMsgPosition'[g2]
<1>1. curMsgPosition \in [Groups -> 0 .. MsgCnt] /\ MsgCnt \in Nat
  BY MsgCntAssumption DEF TypeInv, TypeOK, ClientTypeOK
<1> QED
  BY <1>1 DEF AdvancePosition

\* The client's steps that neither prepare nor commit.
QuietClient ==
    \/ \E g \in Groups :
        \/ \E r \in Repeats, ext \in Exts, commit \in BOOLEAN : Prepare(g, r, ext, commit)
        \/ PrepareRefused(g)
        \/ \E g2 \in Groups, h \in Handles : InterHcclGroupSync(g, g2, h)
        \/ \E h \in Handles : Wait(g, h)
        \/ \E sync \in SyncModes : Finalize(g, sync)
    \/ SendExt \/ SendSync \/ SendFinalize
    \/ WaitReturn \/ FinalizeQueried \/ FinalizeDone

LEMMA ClientQuiet ==
    ASSUME TypeInv, CommittedInv, QuietClient, UNCHANGED <<serverVars, stream>>
    PROVE  Quiet
<1>a. /\ ClientTypeOK /\ CallOK /\ curMsgPosition \in [Groups -> 0 .. MsgCnt] /\ MsgCnt \in Nat
      /\ call.group \in Groups /\ call.msg \in Msg
  BY MsgCntAssumption DEF TypeInv, TypeOK, ClientTypeOK, Call
<1>b. \A g \in Groups : curMsgPosition[g] <= curMsgPosition[g]
  BY <1>a
<1>c. \A g \in Groups :
        \/ finalized[g]
        \/ pc \in {"finQuery", "send", "finDone"} /\ call.msg.type = "finalize" /\ call.group = g
        => CommittedAll(g)
  BY DEF CommittedInv
<1>1. ASSUME UNCHANGED <<tasks, sendMsgs, handles, curMsgPosition, finalized, commitTurnCnt>>,
             pc # "commit", pc' # "commit",
             \A g \in Groups :
               (pc \in {"finQuery", "send", "finDone"} /\ call.msg.type = "finalize"
                 /\ call.group = g)' => CommittedAll(g)
      PROVE  Quiet
  <2>1. TasksKept /\ RunsKept /\ RowsKept /\ MessagesKept
    BY <1>1, <1>b, QuietTasks, QuietRows, QuietSlots
  <2> QED
    BY <1>1, <1>c, <2>1 DEF Quiet
<1>2. ASSUME NEW g \in Groups, NEW r \in Repeats, NEW ext \in Exts, NEW commit \in BOOLEAN,
             Prepare(g, r, ext, commit)
      PROVE  Quiet
  <2>1. /\ UNCHANGED <<tasks, sendMsgs, handles, curMsgPosition, finalized, commitTurnCnt>>
        /\ pc = "ready" /\ pc' \in {"ext", "send"} /\ call'.msg.type = "prepare"
    BY <1>2 DEF Prepare, FirstStep, ApiCall, NoMsg, areaVars
  <2> QED
    BY <1>1, <2>1
<1>3. ASSUME NEW g \in Groups, PrepareRefused(g) PROVE Quiet
  BY <1>1, <1>3 DEF PrepareRefused, areaVars
<1>4. ASSUME NEW g \in Groups, NEW g2 \in Groups, NEW h \in Handles, InterHcclGroupSync(g, g2, h)
      PROVE  Quiet
  <2>1. /\ UNCHANGED <<tasks, sendMsgs, handles, curMsgPosition, finalized, commitTurnCnt>>
        /\ pc = "ready" /\ pc' = "send" /\ call'.msg.type = "sync"
    BY <1>4 DEF InterHcclGroupSync, ApiCall, NoMsg, areaVars
  <2> QED
    BY <1>1, <2>1
<1>5. ASSUME NEW g \in Groups, NEW sync \in SyncModes, Finalize(g, sync) PROVE Quiet
  <2>1. /\ UNCHANGED <<tasks, sendMsgs, handles, curMsgPosition, finalized, commitTurnCnt>>
        /\ pc = "ready" /\ pc' # "commit" /\ call'.group = g /\ CommittedAll(g)
    BY <1>5 DEF Finalize, ApiCall, MayFinalize, areaVars
  <2> QED
    BY <1>1, <2>1
<1>6. CASE SendExt
  <2>1. /\ UNCHANGED <<tasks, sendMsgs, handles, curMsgPosition, finalized, commitTurnCnt>>
        /\ pc = "ext" /\ pc' = "send" /\ call' = call /\ call.msg.type = "prepare"
    BY <1>6, <1>a DEF SendExt, GoOn, CallOK
  <2> QED
    BY <1>1, <2>1
<1>7. CASE FinalizeQueried
  <2>1. /\ UNCHANGED <<tasks, sendMsgs, handles, curMsgPosition, finalized, commitTurnCnt>>
        /\ pc = "finQuery" /\ pc' = "send" /\ call' = call
    BY <1>7 DEF FinalizeQueried, GoOn, areaVars
  <2> QED
    BY <1>1, <1>c, <2>1
<1>8. CASE SendSync
  <2>1. /\ PutMsg("sync", call.msg) /\ call.msg.type = "sync" /\ AdvancePosition(call.group)
        /\ pc = "send" /\ pc' = "ready"
        /\ UNCHANGED <<tasks, handles, finalized, commitTurnCnt>>
    BY <1>8 DEF SendSync, PutMsg, Return
  <2>2. TasksKept /\ RunsKept /\ RowsKept /\ MessagesKept
    BY <1>a, <2>1, PositionGrows, QuietTasks, QuietRows, PutQuiet
  <2> QED
    BY <1>c, <2>1, <2>2 DEF Quiet
<1>9. CASE SendFinalize
  <2>1. /\ PutMsg("finalize", call.msg) /\ call.msg.type = "finalize"
        /\ UNCHANGED <<curMsgPosition>> \/ AdvancePosition(call.group)
        /\ pc = "send" /\ pc' \in {"ready", "finDone"}
        /\ pc' = "finDone" => UNCHANGED <<call, finalized>>
        /\ pc' = "ready" => finalized' = [finalized EXCEPT ![call.group] = TRUE]
        /\ UNCHANGED <<tasks, handles, commitTurnCnt>>
    BY <1>9 DEF SendFinalize, PutMsg, Return, GoOn
  <2>2. TasksKept /\ RunsKept /\ RowsKept /\ MessagesKept
    BY <1>a, <1>b, <2>1, PositionGrows, QuietTasks, QuietRows, PutQuiet
  <2> QED
    BY <1>a, <1>c, <2>1, <2>2 DEF Quiet, ClientTypeOK
<1>10. CASE FinalizeDone
  <2>1. /\ AdvancePosition(call.group) /\ pc = "finDone" /\ pc' = "ready"
        /\ finalized' = [finalized EXCEPT ![call.group] = TRUE] /\ call.msg.type = "finalize"
        /\ UNCHANGED <<tasks, handles, commitTurnCnt, sendMsgs>>
    BY <1>10, <1>a DEF FinalizeDone, Return, CallOK
  <2>2. TasksKept /\ RunsKept /\ RowsKept /\ MessagesKept
    BY <1>a, <2>1, PositionGrows, QuietTasks, QuietRows, QuietSlots
  <2> QED
    BY <1>a, <1>c, <2>1, <2>2 DEF Quiet, ClientTypeOK
<1>11. ASSUME NEW g \in Groups, NEW h \in Handles, Wait(g, h) PROVE Quiet
  <2> DEFINE hd == [handles[g][h + 1] EXCEPT !.wait = @ + 1]
  <2>1. h + 1 \in 1 .. Len(handles[g]) /\ handles[g][h + 1] \in Handle
    BY <1>11, ConstantFacts, RowFacts DEF Wait
  <2>2. /\ hd \in Handle /\ hd.pos = handles[g][h + 1].pos /\ hd.task = handles[g][h + 1].task
        /\ hd.repeat = handles[g][h + 1].repeat /\ hd.commit = handles[g][h + 1].commit
    BY <2>1 DEF Handle
  <2>3. /\ handles' = [handles EXCEPT ![g][h + 1] = hd]
        /\ pc = "ready" /\ pc' = "wait"
        /\ UNCHANGED <<tasks, sendMsgs, curMsgPosition, finalized, commitTurnCnt>>
    BY <1>11 DEF Wait, areaVars
  <2> HIDE DEF hd
  <2>4. RowsKept
    <3>1. \A g2 \in Groups : /\ Len(handles'[g2]) = Len(handles[g2])
            /\ \A i \in 1 .. Len(handles[g2]) :
                /\ handles'[g2][i].pos = handles[g2][i].pos
                /\ handles'[g2][i].repeat = handles[g2][i].repeat
                /\ handles'[g2][i].commit = handles[g2][i].commit
                /\ handles'[g2][i].task = handles[g2][i].task
      BY <2>1, <2>2, <2>3, RowChanged
    <3> QED
      BY <1>b, <2>3, <3>1 DEF RowsKept, Committing
  <2> QED
    BY <1>c, <2>3, <2>4, QuietTasks, QuietSlots DEF Quiet
<1>12. CASE WaitReturn
  <2> DEFINE t == handles[call.group][call.handle + 1].task
             e == [tasks[t] EXCEPT !.observed = handles[call.group][call.handle + 1].wait]
  <2>1. /\ pc = "wait" /\ pc' = "ready" /\ tasks' = [tasks EXCEPT ![t] = e]
        /\ UNCHANGED <<sendMsgs, handles, curMsgPosition, finalized, commitTurnCnt>>
    BY <1>12 DEF WaitReturn, Return, areaVars
  <2>2. /\ t \in 1 .. Len(tasks) /\ tasks[t] \in Task
        /\ handles[call.group][call.handle + 1].wait \in Nat
    BY <2>1, CallTask DEF Handle
  <2>3. /\ e \in Task /\ e.group = tasks[t].group /\ e.repeat = tasks[t].repeat
        /\ e.committed = tasks[t].committed /\ e.launched = tasks[t].launched
        /\ e.executed = tasks[t].executed
    BY <2>2 DEF Task
  <2> HIDE DEF t, e
  <2>4. TasksKept /\ RunsKept
    BY <2>1, <2>2, <2>3, TaskChanged DEF TasksKept, RunsKept
  <2> QED
    BY <1>b, <1>c, <2>1, <2>4, QuietRows, QuietSlots DEF Quiet
<1> QED
  BY <1>2, <1>3, <1>4, <1>5, <1>6, <1>7, <1>8, <1>9, <1>10, <1>11, <1>12 DEF QuietClient

\* A message that is not a prepare message is taken.
LEMMA TakeQuiet ==
    ASSUME TypeInv, NEW g \in Groups, CurrentMsg(g).type # "prepare", TakeMsg(g)
    PROVE  /\ retryCnt[g] > 0 => ~InHand(g)
           /\ \A g2 \in Groups, p \in Pos :
                /\ InSlot(g2, p)' <=> InSlot(g2, p)
                /\ InSlot(g2, p) => sendMsgs'[g2][p] = sendMsgs[g2][p]
<1>1. retryCnt[g] > 0 => ~InHand(g)
  BY DEF InHand, CurrentMsg
<1>2. sendMsgs \in [Groups -> [Pos -> Msg]] /\ NoMsg.type # "prepare" /\ msgPos[g] \in Pos
  BY SlotFacts DEF TypeInv, TypeOK, AreaTypeOK, NoMsg
<1>3. CASE retryCnt[g] > 0
  BY <1>1, <1>3 DEF TakeMsg, InSlot
<1>4. CASE ~(retryCnt[g] > 0)
  <2>1. /\ sendMsgs' = [sendMsgs EXCEPT ![g][msgPos[g]] = NoMsg]
        /\ sendMsgs[g][msgPos[g]].type # "prepare"
    BY <1>4 DEF TakeMsg, CurrentMsg
  <2>2. ASSUME NEW g2 \in Groups, NEW p \in Pos
        PROVE  /\ InSlot(g2, p)' <=> InSlot(g2, p)
               /\ InSlot(g2, p) => sendMsgs'[g2][p] = sendMsgs[g2][p]
    <3>1. CASE g2 = g /\ p = msgPos[g]
      BY <1>2, <2>1, <3>1 DEF InSlot
    <3>2. CASE ~(g2 = g /\ p = msgPos[g])
      <4>1. sendMsgs'[g2][p] = sendMsgs[g2][p]
        BY <1>2, <2>1, <3>2
      <4> QED
        BY <4>1 DEF InSlot
    <3> QED
      BY <3>1, <3>2
  <2> QED
    BY <1>4, <2>2
<1> QED
  BY <1>3, <1>4, <1>1

\* The server's steps that neither launch a prepare message nor keep one.
QuietVisit(g) ==
    \/ InterGroupSyncProcess(g) \/ InterGroupSyncRetry(g) \/ FinalizeProcess(g)
    \/ GroupFinish(g) \/ Finished(g) \/ InTime(g) \/ TimedOut(g) \/ RetryExceeded(g)
    \/ NoOpHandle(g)

LEMMA RestartQuiet == TypeInv /\ RetryInv /\ RestartServer => MessagesKept
<1> SUFFICES ASSUME TypeInv, RetryInv, RestartServer PROVE MessagesKept
  OBVIOUS
<1>1. ASSUME NEW g \in Groups PROVE ~InHand(g) /\ ~InHand(g)'
  <2>1. ~(retryCnt[g] > 0) /\ retryCnt'[g] = 0
    BY DEF RetryInv, RestartServer, FreshServer, PerGroup
  <2> QED
    BY <2>1 DEF InHand
<1> QED
  BY <1>1 DEF MessagesKept, RestartServer, areaVars, InSlot

LEMMA VisitQuiet ==
    ASSUME TypeInv, RetryInv, NEW g \in Groups, QuietVisit(g)
    PROVE  MessagesKept
<1>a. /\ rcvMsg \in [Groups -> Msg] /\ retryCnt \in [Groups -> 0 .. MaxRetry + 1]
      /\ MaxRetry \in Nat
  BY MaxRetryAssumption DEF TypeInv, TypeOK, ServerTypeOK
<1>1. ASSUME TakeMsg(g), CurrentMsg(g).type # "prepare",
             \A g2 \in Groups \ {g} : /\ rcvMsg'[g2] = rcvMsg[g2] /\ msgPos'[g2] = msgPos[g2]
                                      /\ retryCnt'[g2] = retryCnt[g2],
             \/ retryCnt'[g] = 0 /\ (retryCnt[g] = 0 \/ ~InHand(g))
             \/ rcvMsg'[g].type # "prepare"
      PROVE  MessagesKept
  <2>1. ~InHand(g) /\ ~InHand(g)'
    BY <1>1, TakeQuiet DEF InHand
  <2> QED
    BY <1>1, <2>1, TakeQuiet DEF MessagesKept, InHand
<1>2. CASE InterGroupSyncProcess(g)
  <2>1. TakeMsg(g) /\ CurrentMsg(g).type = "sync" /\ NextMsg(g)
    BY <1>2 DEF InterGroupSyncProcess, Serve
  <2> QED
    BY <1>1, <1>a, <2>1, TakeQuiet DEF NextMsg
<1>3. CASE InterGroupSyncRetry(g)
  <2>1. TakeMsg(g) /\ CurrentMsg(g).type = "sync" /\ RetryMsg(g)
    BY <1>3 DEF InterGroupSyncRetry, Serve
  <2> QED
    BY <1>1, <1>a, <2>1 DEF RetryMsg
<1>4. CASE FinalizeProcess(g)
  <2>1. /\ TakeMsg(g) /\ CurrentMsg(g).type = "finalize"
        /\ UNCHANGED <<rcvMsg, msgPos, retryCnt>>
    BY <1>4 DEF FinalizeProcess, Serve
  <2>2. ~(retryCnt[g] > 0)
    BY <2>1 DEF RetryInv, CurrentMsg
  <2> QED
    BY <1>1, <1>a, <2>1, <2>2
<1>5. CASE GroupFinish(g) \/ Finished(g) \/ InTime(g) \/ TimedOut(g) \/ RetryExceeded(g)
  <2>1. UNCHANGED <<sendMsgs, rcvMsg, msgPos, retryCnt>>
    BY <1>5 DEF GroupFinish, Finished, InTime, TimedOut, RetryExceeded, OtherServerVars, areaVars
  <2> QED
    BY <2>1 DEF MessagesKept, InSlot, InHand
<1>6. CASE NoOpHandle(g)
  <2>1. /\ UNCHANGED <<rcvMsg, msgPos, retryCnt>>
        /\ \/ sendMsgs' = sendMsgs
           \/ TakeMsg(g) /\ CurrentMsg(g).type = "sync"
    BY <1>6 DEF NoOpHandle
  <2>2. CASE sendMsgs' = sendMsgs
    BY <2>1, <2>2 DEF MessagesKept, InSlot, InHand
  <2>3. CASE TakeMsg(g) /\ CurrentMsg(g).type = "sync"
    BY <2>1, <2>3, TakeQuiet DEF MessagesKept, InHand
  <2> QED
    BY <2>1, <2>2, <2>3
<1> QED
  BY <1>2, <1>3, <1>4, <1>5, <1>6 DEF QuietVisit

LEMMA ClientRows == ASSUME TypeInv, UNCHANGED clientVars PROVE RowsKept
<1>1. curMsgPosition \in [Groups -> 0 .. MsgCnt] /\ MsgCnt \in Nat
  BY MsgCntAssumption DEF TypeInv, TypeOK, ClientTypeOK
<1> QED
  BY <1>1 DEF RowsKept, Committing, clientVars

LEMMA ServerQuiet ==
    ASSUME TypeInv, RetryInv, CommittedInv, UNCHANGED clientVars,
           RestartServer \/ \E g \in Groups : QuietVisit(g)
    PROVE  Quiet
<1>1. MessagesKept
  BY RestartQuiet, VisitQuiet
<1>2. UNCHANGED <<tasks, commitTurnCnt>>
  BY DEF RestartServer, QuietVisit, InterGroupSyncProcess, InterGroupSyncRetry, FinalizeProcess,
         GroupFinish, Finished, InTime, TimedOut, RetryExceeded, NoOpHandle, OtherServerVars,
         areaVars, Serve, RetryMsg
<1>3. stream' = stream \/ \E s \in Groups : SyncAdded(s)
  <2>1. ASSUME NEW g \in Groups, InterGroupSyncProcess(g) PROVE \E s \in Groups : SyncAdded(s)
    <3>1. PICK s \in SyncStreams(g) : Enqueue(s, <<SyncSqe(CurrentMsg(g))>>)
      BY <2>1 DEF InterGroupSyncProcess
    <3>2. s \in Groups
      BY DEF SyncStreams
    <3>3. SyncSqe(CurrentMsg(g)) \in Sqe /\ SyncSqe(CurrentMsg(g)).type = "waitFinish"
      BY <2>1, SyncSqeType, CurrentMsgType DEF InterGroupSyncProcess
    <3> QED
      BY <3>1, <3>2, <3>3 DEF SyncAdded, Added, Enqueue
  <2>2. ASSUME NEW g \in Groups, QuietVisit(g), ~InterGroupSyncProcess(g) PROVE stream' = stream
    BY <2>2 DEF QuietVisit, InterGroupSyncRetry, FinalizeProcess,
         GroupFinish, Finished, InTime, TimedOut, RetryExceeded, NoOpHandle, OtherServerVars,
         RetryMsg
  <2> QED
    BY <2>1, <2>2 DEF RestartServer
<1>4. TasksKept /\ RunsKept
  BY <1>2, QuietTasks
<1>5. RowsKept
  BY ClientRows
<1> QED
  BY <1>1, <1>2, <1>3, <1>4, <1>5 DEF Quiet, clientVars, CommittedInv

LEMMA StreamQuiet ==
    ASSUME TypeInv, CommittedInv, NEW g \in Groups, WaitFinish(g) \/ PostFinish(g)
    PROVE  Quiet
<1>1. /\ Dropped(g) /\ Head(stream[g]).type \in {"waitFinish", "post"}
      /\ UNCHANGED <<sendMsgs, clientVars, serverVars, commitTurnCnt, tasks>>
  BY DEF WaitFinish, PostFinish, Execute, Dropped
<1>2. TasksKept /\ RunsKept /\ MessagesKept
  BY <1>1, QuietTasks, QuietSlots
<1>3. RowsKept
  BY <1>1, ClientRows
<1> QED
  BY <1>1, <1>2, <1>3 DEF Quiet, clientVars, CommittedInv

\* What a stream waits for was committed; the last wait clears the count.
LEMMA WaitCommitKeeps ==
    ASSUME TypeInv, TypeInv', CommitInv, NEW g \in Groups, WaitCommit(g)
    PROVE  CommitInv'
<1>a. /\ TableInv /\ CommittedInv /\ MessageInv /\ EntryInv /\ KernelInv
      /\ CountInv /\ PendingInv /\ TurnsInv
  BY DEF CommitInv
<1> SUFFICES ASSUME NEW e, e = stream[g][1], NEW p, p = e.pos, NEW t, t = e.task
             PROVE  CommitInv'
  OBVIOUS
<1>1. /\ Dropped(g) /\ Head(stream[g]).type = "waitCommit"
      /\ UNCHANGED <<sendMsgs, clientVars, serverVars, tasks>>
  BY DEF WaitCommit, Execute, Dropped
<1>2. /\ Len(stream[g]) \in Nat /\ Len(stream[g]) >= 1 /\ e = Head(stream[g])
      /\ e \in Sqe /\ e.type = "waitCommit" /\ p \in Pos /\ e.val \in Nat /\ e.last \in BOOLEAN
  BY <1>1, DroppedEntries, EntryFacts
<1>3. /\ e.group = g /\ t \in 1 .. Len(tasks) /\ e.val \in 1 .. tasks[t].repeat
      /\ e.last <=> e.val = tasks[t].repeat
  BY <1>a, <1>2 DEF EntryInv, EntryOK
<1>4. /\ Low(g, p) >= e.val
      /\ commitTurnCnt' = [commitTurnCnt EXCEPT ![g][p] = CounterAfter(commitTurnCnt[g][p], e)]
  BY <1>2, <1>3 DEF WaitCommit, CounterReached, Low
<1>5. e.val <= tasks[t].committed
  <2>1. NoneBefore(g, p, 1)
    BY DEF NoneBefore
  <2>2. Covered(g, p, t)
    BY <1>a, <1>2, <2>1 DEF CountInv, CountOK
  <2>3. Low(g, p) \in Nat /\ tasks[t].committed \in Nat /\ tasks[t].repeat \in Nat
    BY <1>2, <1>3, SlotFacts, TaskFacts
  <2> QED
    BY <1>2, <1>3, <1>4, <2>2, <2>3 DEF Covered, FullyCommitted
<1>6. TasksKept /\ RunsKept /\ WaitingKept /\ MessagesKept /\ RowsKept
  BY <1>1, QuietTasks, QuietSlots, ClientRows DEF RunsKept, WaitingKept
<1>7. TasksGo /\ PlacesKept
  BY <1>6, KeptGo
<1>8. TableInv' /\ CommittedInv' /\ MessageInv' /\ EntryInv'
  <2>1. curMsgPosition \in [Groups -> Nat] /\ curMsgPosition' \in [Groups -> Nat]
    BY PositionCounts
  <2>2. TableInv'
    BY <1>a, <1>6, <2>1, TableKept
  <2>3. CommittedInv'
    BY <1>a, <1>1, <1>6, CommittedKept DEF clientVars, CommittedInv
  <2> QED
    BY <1>a, <1>1, <1>6, <1>7, <2>2, <2>3, MessageKept, EntryKept
<1>9. Moved(g, 1) /\ \A g2 \in Groups \ {g} : Moved(g2, 0)
  BY <1>1, MovedCases
<1>10. ASSUME NEW g2 \in Groups PROVE \A j \in 1 .. Len(stream'[g2]) : KernelOK(g2, j)'
  <2>1. \A k \in 1 .. Len(stream[g2]) : stream[g2][k].type = "kernel"
          => tasks'[stream[g2][k].task].executed < stream[g2][k].val
    BY <1>a, <1>1 DEF KernelInv, KernelOK
  <2>2. CASE g2 = g
    <3>1. ASSUME Len(stream[g]) > 1, stream[g][2].type = "kernel"
          PROVE  stream[g][2].val <= tasks[stream[g][2].task].committed
      <4> SUFFICES ASSUME NEW two, two = 2
                   PROVE  stream[g][2].val <= tasks[stream[g][2].task].committed
        OBVIOUS
      <4>1. two \in 1 .. Len(stream[g]) /\ two - 1 = 1 /\ two > 1
        BY <1>2, <3>1
      <4>2. e = [stream[g][2] EXCEPT !.type = "waitCommit"]
        BY <1>a, <3>1, <4>1 DEF KernelInv, KernelOK
      <4>3. stream[g][2] \in Sqe
        BY <4>1, EntryFacts
      <4>4. stream[g][2].val = e.val /\ stream[g][2].task = t
        BY <4>2, <4>3 DEF Sqe
      <4> QED
        BY <1>5, <4>4
    <3> QED
      BY <1>a, <1>7, <1>9, <2>1, <2>2, <3>1, KernelMoved
  <2>3. CASE g2 # g
    <3> SUFFICES ASSUME NEW d, d = 0 PROVE \A j \in 1 .. Len(stream'[g2]) : KernelOK(g2, j)'
      OBVIOUS
    <3> QED
      BY <1>a, <1>7, <1>9, <2>1, <2>3, KernelMoved
  <2> QED
    BY <2>2, <2>3
<1>11. ASSUME NEW g2 \in Groups, NEW q \in Pos PROVE CountOK(g2, q)'
  <2>a. commitTurnCnt \in [Groups -> [Pos -> Nat]]
    BY DEF TypeInv, TypeOK, AreaTypeOK
  <2>b. CountOK(g2, q)
    BY <1>a DEF CountInv
  <2>1. PICK d \in {0, 1} : Moved(g2, d) /\ (d = 1 => g2 = g)
    BY <1>9
  <2>2. CASE g2 = g /\ q = p /\ e.last
    <3>1. Low(g, p)' = 0
      <4>1. commitTurnCnt'[g][p] = StoreHalf(commitTurnCnt[g][p], 0)
        BY <1>2, <1>4, <2>a, <2>2 DEF CounterAfter
      <4>2. \A c \in Nat : LoadHalf(StoreHalf(c, 0)) = 0
        BY DEF LoadHalf, StoreHalf, Half
      <4> QED
        BY <1>2, <2>a, <4>1, <4>2 DEF Low
    <3>2. \A u \in 1 .. Len(tasks') : Covered(g, p, u)'
      BY <1>1, <3>1, TaskFacts DEF Covered
    <3>3. \A j \in 1 .. Len(stream'[g]) :
            stream'[g][j].type = "waitCommit" => stream'[g][j].task \in 1 .. Len(tasks')
      BY <1>8 DEF EntryInv, EntryOK
    <3>4. /\ InHand(g)' => rcvMsg'[g].task \in 1 .. Len(tasks')
          /\ InSlot(g, p)' => sendMsgs'[g][p].task \in 1 .. Len(tasks')
      BY <1>1, <1>2, SlotFacts DEF serverVars, InHand, InSlot
    <3> QED
      BY <2>2, <3>1, <3>2, <3>3, <3>4 DEF CountOK, Covered, FullyCommitted
  <2>3. CASE ~(g2 = g /\ q = p /\ e.last)
    <3>1. commitTurnCnt'[g2][q] = commitTurnCnt[g2][q]
      BY <1>2, <1>4, <2>a, <2>3 DEF CounterAfter
    <3>2. Low(g2, q)' = Low(g2, q)
      BY <3>1 DEF Low
    <3>3. \A u \in 1 .. Len(tasks) : Covered(g2, q, u) => Covered(g2, q, u)'
      BY <1>1, <3>2 DEF Covered, FullyCommitted
    <3>4. d = 1 => ~LastWait(stream[g2][1], q)
      BY <2>1, <2>3 DEF LastWait
    <3> QED
      BY <1>a, <1>6, <2>b, <2>1, <3>2, <3>3, <3>4, CountMoved
  <2> QED
    BY <2>2, <2>3
<1>12. PendingInv'
  <2>1. e.last => FullyCommitted(t)
    <3>1. tasks[t].committed \in Nat /\ tasks[t].repeat \in Nat
          /\ tasks[t].committed <= tasks[t].repeat
      BY <1>a, <1>3, TaskFacts DEF TurnsInv
    <3> QED
      BY <1>2, <1>3, <1>5, <3>1 DEF FullyCommitted
  <2>2. \A g2 \in Groups : \E d : Moved(g2, d)
              /\ (d = 1 /\ stream[g2][1].type = "waitCommit" /\ stream[g2][1].last
                    => FullyCommitted(stream[g2][1].task))
    BY <1>9, <2>1
  <2> QED
    BY <1>a, <1>6, <2>2, PendingMoved
<1>13. TurnsInv'
  BY <1>a, <1>1 DEF TurnsInv
<1> QED
  BY <1>8, <1>10, <1>11, <1>12, <1>13 DEF CommitInv, KernelInv, CountInv

\* A turn runs: the wait before it has seen it committed.
LEMMA RunKernelKeeps ==
    ASSUME TypeInv, TypeInv', CommitInv, NEW g \in Groups, RunKernel(g)
    PROVE  CommitInv'
<1>a. /\ TableInv /\ CommittedInv /\ MessageInv /\ EntryInv /\ KernelInv
      /\ CountInv /\ PendingInv /\ TurnsInv
  BY DEF CommitInv
<1> SUFFICES ASSUME NEW e, e = stream[g][1], NEW t, t = e.task PROVE CommitInv'
  OBVIOUS
<1>1. /\ Dropped(g) /\ Head(stream[g]).type = "kernel"
      /\ UNCHANGED <<sendMsgs, clientVars, serverVars, commitTurnCnt>>
  BY DEF RunKernel, Execute, Dropped
<1>2. /\ Len(stream[g]) \in Nat /\ Len(stream[g]) >= 1 /\ e = Head(stream[g])
      /\ e \in Sqe /\ e.type = "kernel" /\ e.val \in Nat
  BY <1>1, DroppedEntries, EntryFacts
<1>3. /\ t \in 1 .. Len(tasks) /\ tasks[t].launched /\ tasks[t].group = g
      /\ tasks[t].executed < e.val /\ e.val <= tasks[t].committed
  <2> SUFFICES ASSUME NEW one, one = 1
               PROVE  /\ t \in 1 .. Len(tasks) /\ tasks[t].launched /\ tasks[t].group = g
                      /\ tasks[t].executed < e.val /\ e.val <= tasks[t].committed
    OBVIOUS
  <2>1. one \in 1 .. Len(stream[g]) /\ e = stream[g][one]
    BY <1>2
  <2>2. EntryOK(e, g) /\ KernelOK(g, one)
    BY <1>a, <2>1 DEF EntryInv, KernelInv
  <2>3. t \in 1 .. Len(tasks) /\ tasks[t].launched /\ tasks[t].group = g
    BY <1>2, <2>2 DEF EntryOK, At
  <2>4. tasks[t].executed < e.val /\ e.val <= tasks[t].committed
    BY <1>2, <2>1, <2>2 DEF KernelOK
  <2> QED
    BY <2>3, <2>4
<1>4. /\ Len(tasks') = Len(tasks)
      /\ tasks'[t] = [tasks[t] EXCEPT !.executed = @ + 1]
      /\ \A u \in 1 .. Len(tasks) : u # t => tasks'[u] = tasks[u]
  <2> DEFINE n == [tasks[t] EXCEPT !.executed = @ + 1]
  <2>1. n \in Task
    BY <1>3, TaskFacts DEF Task
  <2>2. tasks' = [tasks EXCEPT ![t] = n]
    BY <1>2 DEF RunKernel
  <2> HIDE DEF n
  <2>3. Len(tasks') = Len(tasks) /\ tasks'[t] = n /\ \A u \in 1 .. Len(tasks) : u # t => tasks'[u] = tasks[u]
    BY <1>3, <2>1, <2>2, TaskChanged
  <2> QED
    BY <2>3 DEF n
<1>5. /\ tasks'[t].executed = tasks[t].executed + 1 /\ tasks'[t].group = tasks[t].group
      /\ tasks'[t].repeat = tasks[t].repeat /\ tasks'[t].committed = tasks[t].committed
      /\ tasks'[t].launched = tasks[t].launched
      /\ tasks[t].executed \in Nat /\ tasks[t].committed \in Nat
  <2>1. tasks[t] \in Task /\ tasks'[t] = [tasks[t] EXCEPT !.executed = @ + 1]
    BY <1>3, <1>4, TaskFacts
  <2> QED
    BY <2>1 DEF Task
<1>6. TasksKept /\ WaitingKept /\ MessagesKept /\ RowsKept
  BY <1>1, <1>3, <1>4, <1>5, QuietSlots, ClientRows DEF TasksKept, WaitingKept
<1>7. TasksGo /\ PlacesKept
  BY <1>6, KeptGo
<1>8. TableInv' /\ CommittedInv' /\ MessageInv' /\ EntryInv'
  <2>1. curMsgPosition \in [Groups -> Nat] /\ curMsgPosition' \in [Groups -> Nat]
    BY PositionCounts
  <2>2. TableInv'
    BY <1>a, <1>6, <2>1, TableKept
  <2>3. CommittedInv'
    BY <1>a, <1>1, <1>6, CommittedKept DEF clientVars, CommittedInv
  <2> QED
    BY <1>a, <1>1, <1>6, <1>7, <2>2, <2>3, MessageKept, EntryKept
<1>9. Moved(g, 1) /\ \A g2 \in Groups \ {g} : Moved(g2, 0)
  BY <1>1, MovedCases
<1>10. ASSUME NEW g2 \in Groups PROVE \A j \in 1 .. Len(stream'[g2]) : KernelOK(g2, j)'
  <2>1. CASE g2 = g
    <3>1. ASSUME NEW k \in 1 .. Len(stream[g]), k > 1, stream[g][k].type = "kernel"
          PROVE  tasks'[stream[g][k].task].executed < stream[g][k].val
      <4>1. /\ KernelOK(g, k) /\ EntryOK(stream[g][k], g) /\ stream[g][k].val \in Nat
            /\ 1 \in 1 .. k - 1
        BY <1>a, <3>1, EntryFacts DEF KernelInv, EntryInv
      <4>2. stream[g][k].task = t => e.val < stream[g][k].val
        BY <1>2, <3>1, <4>1 DEF KernelOK
      <4>3. CASE stream[g][k].task = t
        <5>1. e.val < stream[g][k].val /\ tasks'[t].executed <= e.val
          BY <1>2, <1>3, <1>5, <4>2, <4>3
        <5>2. tasks'[t].executed \in Nat
          BY <1>5
        <5> QED
          BY <1>2, <4>1, <4>3, <5>1, <5>2
      <4>4. CASE stream[g][k].task # t
        <5>1. stream[g][k].task \in 1 .. Len(tasks)
          BY <3>1, <4>1 DEF EntryOK
        <5>2. tasks[stream[g][k].task].executed < stream[g][k].val
          BY <3>1, <4>1 DEF KernelOK
        <5> QED
          BY <1>4, <4>4, <5>1, <5>2
      <4> QED
        BY <4>3, <4>4
    <3>2. Len(stream[g]) > 1 => stream[g][2].type # "kernel"
      <4> SUFFICES ASSUME Len(stream[g]) > 1, stream[g][2].type = "kernel", NEW two, two = 2
                   PROVE  FALSE
        OBVIOUS
      <4>1. two \in 1 .. Len(stream[g]) /\ two - 1 = 1 /\ two > 1
        BY <1>2
      <4>2. e = [stream[g][2] EXCEPT !.type = "waitCommit"] /\ stream[g][2] \in Sqe
        BY <1>a, <4>1, EntryFacts DEF KernelInv, KernelOK
      <4> QED
        BY <1>2, <4>2 DEF Sqe
    <3> QED
      BY <1>a, <1>7, <1>9, <2>1, <3>1, <3>2, KernelMoved
  <2>2. CASE g2 # g
    <3>1. \A k \in 1 .. Len(stream[g2]) : stream[g2][k].type = "kernel"
            => tasks'[stream[g2][k].task].executed < stream[g2][k].val
      <4> SUFFICES ASSUME NEW k \in 1 .. Len(stream[g2]), stream[g2][k].type = "kernel",
                          NEW u, u = stream[g2][k].task
                   PROVE  tasks'[u].executed < stream[g2][k].val
        OBVIOUS
      <4>1. EntryOK(stream[g2][k], g2) /\ KernelOK(g2, k)
        BY <1>a DEF EntryInv, KernelInv
      <4>2. u \in 1 .. Len(tasks) /\ tasks[u].group = g2
        BY <4>1 DEF EntryOK, At
      <4>3. tasks'[u] = tasks[u]
        BY <1>3, <1>4, <2>2, <4>2
      <4> QED
        BY <4>1, <4>3 DEF KernelOK
    <3> SUFFICES ASSUME NEW d, d = 0 PROVE \A j \in 1 .. Len(stream'[g2]) : KernelOK(g2, j)'
      OBVIOUS
    <3> QED
      BY <1>a, <1>7, <1>9, <2>2, <3>1, KernelMoved
  <2> QED
    BY <2>1, <2>2
<1>11. ASSUME NEW g2 \in Groups, NEW q \in Pos PROVE CountOK(g2, q)'
  <2>1. PICK d \in {0, 1} : Moved(g2, d) /\ (d = 1 => g2 = g)
    BY <1>9
  <2>2. d = 1 => ~LastWait(stream[g2][1], q)
    BY <1>2, <2>1 DEF LastWait
  <2>3. Low(g2, q)' = Low(g2, q)
    BY <1>1 DEF Low
  <2>4. \A u \in 1 .. Len(tasks) : Covered(g2, q, u) => Covered(g2, q, u)'
    BY <1>6, <2>3 DEF Covered, FullyCommitted, TasksKept
  <2> QED
    BY <1>a, <1>6, <2>1, <2>2, <2>3, <2>4, CountMoved DEF CountInv
<1>12. PendingInv'
  <2>1. \A g2 \in Groups : \E d : Moved(g2, d)
              /\ (d = 1 /\ stream[g2][1].type = "waitCommit" /\ stream[g2][1].last
                    => FullyCommitted(stream[g2][1].task))
    BY <1>2, <1>9
  <2> QED
    BY <1>a, <1>6, <2>1, PendingMoved
<1>13. TurnsInv'
  <2>1. tasks'[t].executed <= tasks'[t].committed /\ tasks'[t].committed <= tasks'[t].repeat
    BY <1>a, <1>2, <1>3, <1>5 DEF TurnsInv
  <2> QED
    BY <1>a, <1>4, <2>1 DEF TurnsInv
<1> QED
  BY <1>8, <1>10, <1>11, <1>12, <1>13 DEF CommitInv, KernelInv, CountInv

\* A prepare message is served: it came from its slot, or was in hand.
LEMMA PrepareServed ==
    ASSUME TypeInv, MessageInv, CountInv, NEW g \in Groups, Serve(g, "prepare"),
           NEW m, m = CurrentMsg(g), NEW p, p = msgPos[g]
    PROVE  /\ p \in Pos /\ m \in Msg /\ m.type = "prepare" /\ m.task \in 1 .. Len(tasks)
           /\ NotLaunched(g, p, m)
           /\ NoneLeft(g, p) => Covered(g, p, m.task)
           /\ \A g2 \in Groups, q \in Pos : InSlot(g2, q)' =>
                /\ InSlot(g2, q) /\ sendMsgs'[g2][q] = sendMsgs[g2][q]
                /\ sendMsgs[g2][q].task # m.task
           /\ \A g2 \in Groups, q \in Pos : g2 # g \/ q # p =>
                (InSlot(g2, q)' <=> InSlot(g2, q)) /\ sendMsgs'[g2][q] = sendMsgs[g2][q]
           /\ \/ InHand(g) /\ m = rcvMsg[g] /\ sendMsgs' = sendMsgs
              \/ ~InHand(g) /\ InSlot(g, p) /\ m = sendMsgs[g][p] /\ ~InSlot(g, p)'
<1>1. /\ p \in Pos /\ m \in Msg /\ m.type = "prepare" /\ m.task \in 1 .. Len(tasks)
  BY SlotFacts, CurrentMsgType DEF Serve, TaskOf
<1>2. sendMsgs \in [Groups -> [Pos -> Msg]] /\ NoMsg.type # "prepare"
  BY DEF TypeInv, TypeOK, AreaTypeOK, NoMsg
<1>3. \/ InHand(g) /\ m = rcvMsg[g] /\ sendMsgs' = sendMsgs
      \/ /\ ~InHand(g) /\ InSlot(g, p) /\ m = sendMsgs[g][p]
         /\ sendMsgs' = [sendMsgs EXCEPT ![g][p] = NoMsg]
  BY <1>1 DEF Serve, TakeMsg, CurrentMsg, InHand, InSlot
<1>4. CASE InHand(g) /\ m = rcvMsg[g] /\ sendMsgs' = sendMsgs
  <2>1. NotLaunched(g, p, m) /\ \A q \in Pos : InSlot(g, q) => sendMsgs[g][q].task # m.task
    BY <1>4 DEF MessageInv
  <2>2. NoneLeft(g, p) => Covered(g, p, m.task)
    BY <1>1, <1>4 DEF CountInv, CountOK
  <2>3. \A g2 \in Groups, q \in Pos : InSlot(g2, q)' <=> InSlot(g2, q)
    BY <1>4 DEF InSlot
  <2>4. \A g2 \in Groups, q \in Pos : InSlot(g2, q) => sendMsgs[g2][q].task # m.task
    BY <2>1 DEF MessageInv, NotLaunched, At
  <2> QED
    BY <1>1, <1>4, <2>1, <2>2, <2>3, <2>4
<1>5. CASE /\ ~InHand(g) /\ InSlot(g, p) /\ m = sendMsgs[g][p]
           /\ sendMsgs' = [sendMsgs EXCEPT ![g][p] = NoMsg]
  <2>1. /\ NotLaunched(g, p, m)
        /\ \A q \in Pos \ {p} : InSlot(g, q) => sendMsgs[g][q].task # m.task
    BY <1>1, <1>5 DEF MessageInv
  <2>2. NoneLeft(g, p) => Covered(g, p, m.task)
    BY <1>1, <1>5 DEF CountInv, CountOK
  <2>3. ~InSlot(g, p)'
    BY <1>1, <1>2, <1>5 DEF InSlot
  <2>4. \A g2 \in Groups, q \in Pos : g2 # g \/ q # p =>
          (InSlot(g2, q)' <=> InSlot(g2, q)) /\ sendMsgs'[g2][q] = sendMsgs[g2][q]
    BY <1>1, <1>2, <1>5 DEF InSlot
  <2>5. \A g2 \in Groups \ {g}, q \in Pos : InSlot(g2, q) => sendMsgs[g2][q].task # m.task
    BY <2>1 DEF MessageInv, NotLaunched, At
  <2> QED
    BY <1>1, <1>5, <2>1, <2>2, <2>3, <2>4, <2>5
<1> QED
  BY <1>3, <1>4, <1>5

LEMMA PrepareRetryKeeps ==
    ASSUME TypeInv, TypeInv', CommitInv, UNCHANGED clientVars, NEW g \in Groups, PrepareRetry(g)
    PROVE  CommitInv'
<1>a. /\ TableInv /\ CommittedInv /\ MessageInv /\ EntryInv /\ KernelInv
      /\ CountInv /\ PendingInv /\ TurnsInv
  BY DEF CommitInv
<1> SUFFICES ASSUME NEW m, m = CurrentMsg(g), NEW p, p = msgPos[g]
             PROVE  CommitInv'
  OBVIOUS
<1>1. /\ Serve(g, "prepare") /\ UNCHANGED <<tasks, stream, commitTurnCnt, msgPos>>
      /\ rcvMsg' = [rcvMsg EXCEPT ![g] = m] /\ retryCnt' = [retryCnt EXCEPT ![g] = @ + 1]
  BY DEF PrepareRetry, RetryMsg, Serve
<1>2. /\ p \in Pos /\ m \in Msg /\ m.type = "prepare" /\ m.task \in 1 .. Len(tasks)
      /\ NotLaunched(g, p, m)
      /\ NoneLeft(g, p) => Covered(g, p, m.task)
      /\ \A g2 \in Groups, q \in Pos : InSlot(g2, q)' =>
           /\ InSlot(g2, q) /\ sendMsgs'[g2][q] = sendMsgs[g2][q]
           /\ sendMsgs[g2][q].task # m.task
      /\ \A g2 \in Groups, q \in Pos : g2 # g \/ q # p =>
           (InSlot(g2, q)' <=> InSlot(g2, q)) /\ sendMsgs'[g2][q] = sendMsgs[g2][q]
      /\ \/ InHand(g) /\ m = rcvMsg[g] /\ sendMsgs' = sendMsgs
         \/ ~InHand(g) /\ InSlot(g, p) /\ m = sendMsgs[g][p] /\ ~InSlot(g, p)'
  BY <1>a, <1>1, PrepareServed
<1>3. /\ InHand(g)' /\ rcvMsg'[g] = m /\ msgPos'[g] = p
      /\ \A g2 \in Groups \ {g} : /\ InHand(g2)' <=> InHand(g2)
                                  /\ rcvMsg'[g2] = rcvMsg[g2] /\ msgPos'[g2] = msgPos[g2]
  <2>1. /\ rcvMsg \in [Groups -> Msg] /\ retryCnt \in [Groups -> 0 .. MaxRetry + 1]
        /\ MaxRetry \in Nat
    BY MaxRetryAssumption DEF TypeInv, TypeOK, ServerTypeOK
  <2> QED
    BY <1>1, <1>2, <2>1 DEF InHand
<1>4. TasksKept /\ RunsKept /\ RowsKept
  BY <1>1, QuietTasks, ClientRows
<1>5. TasksGo /\ PlacesKept
  BY <1>4, KeptGo
<1>6. TableInv' /\ CommittedInv' /\ EntryInv'
  <2>1. curMsgPosition \in [Groups -> Nat] /\ curMsgPosition' \in [Groups -> Nat]
    BY PositionCounts
  <2>2. TableInv'
    BY <1>a, <1>4, <2>1, TableKept
  <2>3. CommittedInv'
    BY <1>a, <1>4, CommittedKept DEF clientVars, CommittedInv
  <2> QED
    BY <1>a, <1>1, <1>5, <2>2, <2>3, EntryKept
<1>7. MessageInv'
  <2>1. \A g2 \in Groups, q \in Pos : \A u : NotLaunched(g2, q, u) => NotLaunched(g2, q, u)'
    BY <1>1 DEF NotLaunched, At, clientVars
  <2>2. ASSUME NEW g2 \in Groups, NEW q \in Pos, InSlot(g2, q)'
        PROVE  /\ NotLaunched(g2, q, sendMsgs[g2][q])'
               /\ \A r \in Pos : InSlot(g2, r)' /\ q # r => sendMsgs'[g2][q].task # sendMsgs'[g2][r].task
    <3>1. InSlot(g2, q) /\ sendMsgs'[g2][q] = sendMsgs[g2][q]
      BY <1>2, <2>2
    <3>2. NotLaunched(g2, q, sendMsgs[g2][q])'
      <4> SUFFICES ASSUME NEW u, u = sendMsgs[g2][q] PROVE NotLaunched(g2, q, u)'
        BY <3>1 DEF NotLaunched, At
      <4> QED
        BY <1>a, <2>1, <3>1 DEF MessageInv
    <3> QED
      BY <1>a, <1>2, <3>1, <3>2 DEF MessageInv
  <2>3. ASSUME NEW g2 \in Groups, InHand(g2)'
        PROVE  /\ NotLaunched(g2, msgPos[g2], rcvMsg[g2])'
               /\ \A q \in Pos : InSlot(g2, q)' => sendMsgs'[g2][q].task # rcvMsg'[g2].task
    <3>1. CASE g2 = g
      <4>1. NotLaunched(g, p, m)'
        BY <1>2, <2>1
      <4> QED
        BY <1>2, <1>3, <3>1, <4>1 DEF NotLaunched, At
    <3>2. CASE g2 # g
      <4>1. InHand(g2) /\ rcvMsg'[g2] = rcvMsg[g2] /\ msgPos'[g2] = msgPos[g2]
        BY <1>3, <2>3, <3>2
      <4>2. NotLaunched(g2, msgPos[g2], rcvMsg[g2])'
        <5> SUFFICES ASSUME NEW u, u = rcvMsg[g2], NEW q \in Pos, q = msgPos[g2]
                     PROVE  NotLaunched(g2, q, u)'
          BY <4>1, SlotFacts DEF NotLaunched, At
        <5> QED
          BY <1>a, <2>1, <4>1 DEF MessageInv
      <4> QED
        BY <1>a, <1>2, <4>1, <4>2 DEF MessageInv
    <3> QED
      BY <3>1, <3>2
  <2> QED
    BY <2>2, <2>3 DEF MessageInv
<1>8. KernelInv' /\ TurnsInv'
  BY <1>a, <1>1 DEF KernelInv, KernelOK, TurnsInv
<1>9. ASSUME NEW g2 \in Groups, NEW q \in Pos PROVE CountOK(g2, q)'
  <2>1. CountOK(g2, q)
    BY <1>a DEF CountInv
  <2>2. /\ \A j : NoneBefore(g2, q, j)' <=> NoneBefore(g2, q, j)
        /\ NoneLeft(g2, q)' <=> NoneLeft(g2, q)
        /\ Low(g2, q)' = Low(g2, q) /\ \A t : Covered(g2, q, t)' <=> Covered(g2, q, t)
    BY <1>1 DEF NoneBefore, NoneLeft, LastWait, Low, Covered, FullyCommitted
  <2>3. \A j \in 1 .. Len(stream'[g2]) :
          stream'[g2][j].type = "waitCommit" /\ stream'[g2][j].pos = q /\ NoneBefore(g2, q, j)'
            => Covered(g2, q, stream[g2][j].task)'
    <3> SUFFICES ASSUME NEW j \in 1 .. Len(stream[g2]), NEW t, t = stream[g2][j].task,
                        stream[g2][j].type = "waitCommit", stream[g2][j].pos = q,
                        NoneBefore(g2, q, j)
                 PROVE  Covered(g2, q, t)'
      BY <1>1, <2>2 DEF Covered, FullyCommitted
    <3> QED
      BY <2>1, <2>2 DEF CountOK
  <2>4. CASE g2 = g /\ q = p
    <3>1. NoneLeft(g2, q)' => Covered(g, p, m.task)'
      BY <1>2, <2>2, <2>4
    <3>2. NoneLeft(g2, q)' => Covered(g2, q, rcvMsg[g2].task)'
      BY <1>3, <2>4, <3>1 DEF Covered, FullyCommitted
    <3> QED
      BY <1>3, <2>3, <2>4, <3>2 DEF CountOK
  <2>5. CASE ~(g2 = g /\ q = p)
    <3>1. /\ (InHand(g2) /\ msgPos[g2] = q)' <=> (InHand(g2) /\ msgPos[g2] = q)
          /\ InHand(g2) /\ msgPos[g2] = q => rcvMsg'[g2] = rcvMsg[g2]
          /\ InSlot(g2, q)' <=> InSlot(g2, q)
          /\ sendMsgs'[g2][q] = sendMsgs[g2][q]
      BY <1>2, <1>3, <2>5
    <3>2. /\ InHand(g2) /\ msgPos[g2] = q =>
                (Covered(g2, q, rcvMsg[g2].task)' <=> Covered(g2, q, rcvMsg[g2].task))
          /\ Covered(g2, q, sendMsgs[g2][q].task)' <=> Covered(g2, q, sendMsgs[g2][q].task)
      BY <1>1, <2>2, <3>1 DEF Covered, FullyCommitted
    <3> QED
      BY <2>1, <2>2, <2>3, <3>1, <3>2 DEF CountOK
  <2> QED
    BY <2>4, <2>5
<1>10. PendingInv'
  <2>1. ASSUME NEW t, Pending(t) PROVE Pending(t)'
    <3>1. PICK g2 \in Groups :
            \/ \E q \in Pos : InSlot(g2, q) /\ sendMsgs[g2][q].task = t
            \/ InHand(g2) /\ rcvMsg[g2].task = t
            \/ \E j \in 1 .. Len(stream[g2]) :
                stream[g2][j].type = "waitCommit" /\ stream[g2][j].last /\ stream[g2][j].task = t
      BY <2>1 DEF Pending
    <3>2. ASSUME NEW q \in Pos, InSlot(g2, q), sendMsgs[g2][q].task = t PROVE Pending(t)'
      <4>1. CASE g2 = g /\ q = p /\ ~InHand(g)
        <5>1. m.task = t
          BY <1>2, <3>2, <4>1
        <5> QED
          BY <1>3, <5>1 DEF Pending
      <4>2. CASE InHand(g)
        <5>1. InSlot(g2, q)' /\ sendMsgs'[g2][q].task = t
          BY <1>2, <3>2, <4>2 DEF InSlot
        <5> QED
          BY <5>1 DEF Pending
      <4>3. CASE g2 # g \/ q # p
        <5>1. InSlot(g2, q)' /\ sendMsgs'[g2][q].task = t
          BY <1>2, <3>2, <4>3
        <5> QED
          BY <5>1 DEF Pending
      <4> QED
        BY <4>1, <4>2, <4>3
    <3>3. CASE InHand(g2) /\ rcvMsg[g2].task = t
      BY <1>2, <1>3, <3>3 DEF Pending
    <3>4. CASE \E j \in 1 .. Len(stream[g2]) :
                stream[g2][j].type = "waitCommit" /\ stream[g2][j].last /\ stream[g2][j].task = t
      BY <1>1, <3>4 DEF Pending
    <3> QED
      BY <3>1, <3>2, <3>3, <3>4
  <2> QED
    BY <1>a, <1>1, <2>1 DEF PendingInv, FullyCommitted
<1> QED
  BY <1>6, <1>7, <1>8, <1>9, <1>10 DEF CommitInv, CountInv

\* The entries of a task t: per turn the wait for its commit, the kernel, the post.
TurnsOf(sqes, g, p, t, r) ==
    /\ \A i \in 1 .. Len(sqes) :
         /\ sqes[i].type # "waitFinish" /\ sqes[i].group = g /\ sqes[i].pos = p
         /\ sqes[i].task = t /\ sqes[i].val \in 1 .. r
         /\ sqes[i].last <=> sqes[i].val = r
         /\ sqes[i].type = "kernel" =>
              /\ i > 1 /\ sqes[i - 1] = [sqes[i] EXCEPT !.type = "waitCommit"]
              /\ \A k \in 1 .. i - 1 : sqes[k].type = "kernel" => sqes[k].val < sqes[i].val
    /\ \E i \in 1 .. Len(sqes) : LastWait(sqes[i], p)

LEMMA TurnNumber == ASSUME NEW r \in Nat, NEW i \in 1 .. 3 * r PROVE (i + 2) \div 3 \in 1 .. r
OBVIOUS

LEMMA TaskSqesFacts ==
    ASSUME NEW g \in Groups, NEW p \in Pos, NEW m \in Msg, m.repeat > 0,
           NEW sqes, sqes = TaskSqes(g, p, m)
    PROVE  sqes \in Seq(Sqe) /\ Len(sqes) \in Nat /\ TurnsOf(sqes, g, p, m.task, m.repeat)
<1> SUFFICES ASSUME NEW r \in Nat, r > 0, r = m.repeat
             PROVE  sqes \in Seq(Sqe) /\ Len(sqes) \in Nat /\ TurnsOf(sqes, g, p, m.task, r)
  BY DEF Msg
<1>1. sqes \in Seq(Sqe)
  BY TaskSqesType
<1> DEFINE Entry(type, v) == [type |-> type, group |-> g, pos |-> p, val |-> v, last |-> v = r,
                              task |-> m.task]
           Type(i) == CASE i % 3 = 1 -> "waitCommit" [] i % 3 = 2 -> "kernel" [] OTHER -> "post"
<1>2. DOMAIN sqes = 1 .. 3 * r /\ \A i \in 1 .. 3 * r : sqes[i] = Entry(Type(i), (i + 2) \div 3)
  BY DEF TaskSqes
<1>t. \A i \in 1 .. 3 * r : /\ i % 3 = 1 => Type(i) = "waitCommit"
                            /\ Type(i) # "waitFinish"
                            /\ Type(i) = "kernel" <=> i % 3 = 2
  OBVIOUS
<1> HIDE DEF Type
<1>3. Len(sqes) = 3 * r
  BY <1>1, <1>2, LenProperties
<1>4. ASSUME NEW i \in 1 .. 3 * r
      PROVE  /\ sqes[i].type # "waitFinish" /\ sqes[i].group = g /\ sqes[i].pos = p
             /\ sqes[i].task = m.task /\ sqes[i].val \in 1 .. r
             /\ sqes[i].last <=> sqes[i].val = r
             /\ sqes[i].type = "kernel" <=> i % 3 = 2
             /\ sqes[i].val = (i + 2) \div 3
  <2>e. sqes[i] = Entry(Type(i), (i + 2) \div 3)
    BY <1>2
  <2> SUFFICES ASSUME NEW v, v = (i + 2) \div 3, NEW type, type = Type(i), sqes[i] = Entry(type, v)
               PROVE  /\ sqes[i].type # "waitFinish" /\ sqes[i].group = g /\ sqes[i].pos = p
                      /\ sqes[i].task = m.task /\ sqes[i].val \in 1 .. r
                      /\ sqes[i].last <=> sqes[i].val = r
                      /\ sqes[i].type = "kernel" <=> i % 3 = 2
                      /\ sqes[i].val = v
    BY <2>e
  <2>1. v \in 1 .. r
    BY TurnNumber
  <2>2. sqes[i].last = (v = r) /\ sqes[i].type = type /\ sqes[i].val = v
    OBVIOUS
  <2>3. sqes[i].last <=> v = r
    BY <2>2, Zenon
  <2>4. sqes[i].group = g /\ sqes[i].pos = p /\ sqes[i].task = m.task
    OBVIOUS
  <2>5. type # "waitFinish" /\ (type = "kernel" <=> i % 3 = 2)
    BY <1>t
  <2>6. /\ sqes[i].type # "waitFinish" /\ sqes[i].val \in 1 .. r
        /\ sqes[i].last <=> sqes[i].val = r
        /\ sqes[i].type = "kernel" <=> i % 3 = 2
    <3> HIDE DEF Entry
    <3> QED
      BY <2>1, <2>2, <2>3, <2>5
  <2> QED
    BY <2>2, <2>4, <2>6, Zenon
<1>5. ASSUME NEW i \in 1 .. 3 * r, sqes[i].type = "kernel"
      PROVE  /\ i > 1 /\ sqes[i - 1] = [sqes[i] EXCEPT !.type = "waitCommit"]
             /\ \A k \in 1 .. i - 1 : sqes[k].type = "kernel" => sqes[k].val < sqes[i].val
  <2>1. i % 3 = 2
    BY <1>4, <1>5
  <2>2. /\ i > 1 /\ i - 1 \in 1 .. 3 * r /\ (i - 1) % 3 = 1
        /\ ((i - 1) + 2) \div 3 = (i + 2) \div 3
    BY <2>1
  <2>3. sqes[i - 1] = [sqes[i] EXCEPT !.type = "waitCommit"]
    <3> SUFFICES ASSUME NEW k, k = i - 1, NEW v, v = (i + 2) \div 3,
                        sqes[i] = Entry("kernel", v), sqes[k] = Entry("waitCommit", v)
                 PROVE  sqes[k] = [sqes[i] EXCEPT !.type = "waitCommit"]
      <4>1. sqes[i] = Entry("kernel", (i + 2) \div 3)
        BY <1>2, <1>t, <2>1
      <4>2. sqes[i - 1] = Entry("waitCommit", (i + 2) \div 3)
        BY <1>2, <1>t, <2>2
      <4> QED
        BY <4>1, <4>2
    <3> QED
      OBVIOUS
  <2>4. \A k \in 1 .. i - 1 : k % 3 = 2 => (k + 2) \div 3 < (i + 2) \div 3
    BY <2>1
  <2>5. \A k \in 1 .. i - 1 : k \in 1 .. 3 * r
    OBVIOUS
  <2> QED
    BY <1>4, <2>2, <2>3, <2>4, <2>5
<1>6. \E i \in 1 .. 3 * r : LastWait(sqes[i], p)
  <2> SUFFICES ASSUME NEW i, i = 3 * r - 2 PROVE i \in 1 .. 3 * r /\ LastWait(sqes[i], p)
    OBVIOUS
  <2>1. i \in 1 .. 3 * r /\ i % 3 = 1 /\ (i + 2) \div 3 = r
    OBVIOUS
  <2>2. sqes[i] = Entry("waitCommit", r)
    BY <1>2, <1>t, <2>1
  <2>3. sqes[i].type = "waitCommit" /\ sqes[i].pos = p /\ sqes[i].last = (r = r)
    BY <2>2
  <2>4. sqes[i].last
    BY <2>3, Zenon
  <2> QED
    BY <2>1, <2>3, <2>4, Zenon DEF LastWait
<1>7. Len(sqes) \in Nat /\ 1 .. Len(sqes) = 1 .. 3 * r
  BY <1>3
<1> QED
  BY <1>1, <1>4, <1>5, <1>6, <1>7 DEF TurnsOf


\* A task is launched: its entries follow those of the stream, and it takes
\* over the count of its position if no other task there is still to run.
LEMMA PrepareProcessKeeps ==
    ASSUME TypeInv, TypeInv', CommitInv, UNCHANGED clientVars, NEW g \in Groups, PrepareProcess(g)
    PROVE  CommitInv'
<1>a. /\ TableInv /\ CommittedInv /\ MessageInv /\ EntryInv /\ KernelInv
      /\ CountInv /\ PendingInv /\ TurnsInv
  BY DEF CommitInv
<1>d. SUFFICES ASSUME NEW m, m = CurrentMsg(g), NEW p, p = msgPos[g], NEW t, t = m.task,
                      NEW sqes, sqes = TaskSqes(g, p, m), NEW n, n = Len(stream[g])
               PROVE  CommitInv'
  OBVIOUS
<1>1. /\ Serve(g, "prepare") /\ UNCHANGED commitTurnCnt /\ Added(g, sqes) /\ NextMsg(g)
      /\ tasks' = [tasks EXCEPT ![t].launched = TRUE]
  BY <1>d DEF PrepareProcess, Serve, Enqueue, Added
<1>2. /\ p \in Pos /\ m \in Msg /\ m.type = "prepare" /\ t \in 1 .. Len(tasks)
      /\ NotLaunched(g, p, m)
      /\ NoneLeft(g, p) => Covered(g, p, t)
      /\ \A g2 \in Groups, q \in Pos : InSlot(g2, q)' =>
           /\ InSlot(g2, q) /\ sendMsgs'[g2][q] = sendMsgs[g2][q]
           /\ sendMsgs[g2][q].task # t
      /\ \A g2 \in Groups, q \in Pos : g2 # g \/ q # p =>
           (InSlot(g2, q)' <=> InSlot(g2, q)) /\ sendMsgs'[g2][q] = sendMsgs[g2][q]
      /\ \/ InHand(g) /\ m = rcvMsg[g] /\ sendMsgs' = sendMsgs
         \/ ~InHand(g) /\ InSlot(g, p) /\ m = sendMsgs[g][p] /\ ~InSlot(g, p)'
  BY <1>a, <1>d, <1>1, PrepareServed
<1>3. /\ ~InHand(g)'
      /\ \A g2 \in Groups \ {g} : /\ InHand(g2)' <=> InHand(g2)
                                  /\ rcvMsg'[g2] = rcvMsg[g2] /\ msgPos'[g2] = msgPos[g2]
  <2>1. /\ rcvMsg \in [Groups -> Msg] /\ retryCnt \in [Groups -> 0 .. MaxRetry + 1]
        /\ msgPos \in [Groups -> Pos]
    BY DEF TypeInv, TypeOK, ServerTypeOK
  <2> QED
    BY <1>1, <2>1 DEF NextMsg, InHand
<1>4. /\ tasks[t].group = g /\ ~tasks[t].launched /\ tasks[t].executed = 0
      /\ tasks[t].repeat = m.repeat /\ m.repeat \in Nat /\ m.repeat > 0
  BY <1>d, <1>2, TaskFacts DEF NotLaunched, At
<1>5. /\ Len(tasks') = Len(tasks) /\ tasks'[t] = [tasks[t] EXCEPT !.launched = TRUE]
      /\ \A u \in 1 .. Len(tasks) : u # t => tasks'[u] = tasks[u]
  <2> DEFINE e == [tasks[t] EXCEPT !.launched = TRUE]
  <2>1. tasks[t] \in Task
    BY <1>2, TaskFacts
  <2>a. e \in Task
    BY <2>1 DEF Task
  <2>2. tasks' = [tasks EXCEPT ![t] = e]
    BY <1>1
  <2> HIDE DEF e
  <2>3. /\ Len(tasks') = Len(tasks) /\ tasks'[t] = e
        /\ \A u \in 1 .. Len(tasks) : u # t => tasks'[u] = tasks[u]
    BY <1>2, <2>a, <2>2, TaskChanged
  <2> QED
    BY <2>3 DEF e
<1>6. /\ tasks'[t].launched /\ tasks'[t].executed = 0 /\ tasks'[t].group = g
      /\ tasks'[t].repeat = m.repeat /\ tasks'[t].committed = tasks[t].committed
  <2>1. tasks[t] \in Task
    BY <1>2, TaskFacts
  <2>2. tasks'[t].launched = TRUE /\ tasks'[t].executed = 0 /\ tasks'[t].group = g
      /\ tasks'[t].repeat = m.repeat /\ tasks'[t].committed = tasks[t].committed
    BY <1>4, <1>5, <2>1 DEF Task
  <2> QED
    BY <2>2
<1>7. /\ TasksKept /\ RowsKept
      /\ \A u \in 1 .. Len(tasks) : tasks'[u].executed = tasks[u].executed
  <2>1. \A u \in 1 .. Len(tasks) :
          /\ tasks'[u].group = tasks[u].group /\ tasks'[u].repeat = tasks[u].repeat
          /\ tasks'[u].committed = tasks[u].committed /\ tasks'[u].executed = tasks[u].executed
          /\ tasks[u].launched => tasks'[u].launched
    <3> SUFFICES ASSUME NEW u \in 1 .. Len(tasks)
                 PROVE  /\ tasks'[u].group = tasks[u].group /\ tasks'[u].repeat = tasks[u].repeat
                        /\ tasks'[u].committed = tasks[u].committed
                        /\ tasks'[u].executed = tasks[u].executed
                        /\ tasks[u].launched => tasks'[u].launched
      OBVIOUS
    <3>1. CASE u = t
      BY <1>4, <1>6, <3>1
    <3>2. CASE u # t
      BY <1>5, <3>2
    <3> QED
      BY <3>1, <3>2
  <2> QED
    BY <1>5, <2>1, ClientRows DEF TasksKept
<1>8. TasksGo /\ PlacesKept
  BY <1>7, KeptGo
<1>9. TableInv' /\ CommittedInv'
  <2>1. curMsgPosition \in [Groups -> Nat] /\ curMsgPosition' \in [Groups -> Nat]
    BY PositionCounts
  <2>2. TableInv'
    BY <1>a, <1>7, <2>1, TableKept
  <2>3. CommittedInv'
    BY <1>a, <1>7, CommittedKept DEF clientVars, CommittedInv
  <2> QED
    BY <2>2, <2>3
<1>10. sqes \in Seq(Sqe) /\ Len(sqes) \in Nat /\ TurnsOf(sqes, g, p, t, m.repeat)
  BY <1>d, <1>2, <1>4, TaskSqesFacts
<1>e. \A i \in 1 .. Len(sqes) :
         /\ sqes[i].type # "waitFinish" /\ sqes[i].group = g /\ sqes[i].pos = p
         /\ sqes[i].task = t /\ sqes[i].val \in 1 .. m.repeat
         /\ sqes[i].last <=> sqes[i].val = m.repeat
  BY <1>10 DEF TurnsOf
<1>11. n \in Nat /\ Len(stream'[g]) = n + Len(sqes) /\ Len(stream'[g]) \in Nat
  <2>1. n \in Nat /\ Len(stream'[g]) = n + Len(sqes)
    BY <1>d, <1>1, <1>10, AddedEntries, EntryFacts
  <2> QED
    BY <1>10, <2>1
<1>o. \A j \in 1 .. n : j \in 1 .. Len(stream'[g]) /\ stream'[g][j] = stream[g][j]
  BY <1>d, <1>1, <1>10, AddedEntries
<1>n. \A j \in 1 .. Len(stream'[g]) : j > n =>
          j - n \in 1 .. Len(sqes) /\ stream'[g][j] = sqes[j - n]
  BY <1>d, <1>1, <1>10, AddedEntries
<1>g. \A g2 \in Groups \ {g} : stream'[g2] = stream[g2]
  BY <1>d, <1>1, <1>10, AddedEntries
<1>w. \E j \in 1 .. Len(stream'[g]) : LastWait(stream'[g][j], p) /\ stream'[g][j].task = t
  <2>1. PICK i \in 1 .. Len(sqes) : LastWait(sqes[i], p) /\ sqes[i].task = t
    BY <1>10 DEF TurnsOf
  <2>2. n + i \in 1 .. Len(stream'[g]) /\ n + i > n /\ (n + i) - n = i
    BY <1>10, <1>11, <2>1
  <2> QED
    BY <1>n, <2>1, <2>2
<1>c. \A g2 \in Groups : \A j \in 1 .. Len(stream'[g2]) :
         \/ j \in 1 .. Len(stream[g2]) /\ stream'[g2][j] = stream[g2][j]
         \/ g2 = g /\ j > n
  <2>1. \A j \in 1 .. Len(stream'[g]) : j \in 1 .. n \/ j > n
    BY <1>11
  <2> QED
    BY <1>d, <1>o, <1>g, <2>1
<1>12. MessageInv'
  <2>1. ASSUME NEW g2 \in Groups, NEW q \in Pos, NEW u, NotLaunched(g2, q, u),
               u.task \in 1 .. Len(tasks), u.task # t
        PROVE  NotLaunched(g2, q, u)'
    BY <1>5, <1>8, <2>1 DEF NotLaunched, PlacesKept
  <2>2. ASSUME NEW g2 \in Groups, NEW q \in Pos, InSlot(g2, q)'
        PROVE  /\ NotLaunched(g2, q, sendMsgs[g2][q])'
               /\ \A r \in Pos : InSlot(g2, r)' /\ q # r =>
                    sendMsgs'[g2][q].task # sendMsgs'[g2][r].task
    <3>1. InSlot(g2, q) /\ sendMsgs'[g2][q] = sendMsgs[g2][q] /\ sendMsgs[g2][q].task # t
      BY <1>2, <2>2
    <3>2. NotLaunched(g2, q, sendMsgs[g2][q])'
      <4> SUFFICES ASSUME NEW u, u = sendMsgs[g2][q] PROVE NotLaunched(g2, q, u)'
        BY <3>1 DEF NotLaunched, At
      <4> QED
        BY <1>a, <2>1, <3>1, SlotFacts DEF MessageInv
    <3> QED
      BY <1>a, <1>2, <3>1, <3>2 DEF MessageInv
  <2>3. ASSUME NEW g2 \in Groups, InHand(g2)'
        PROVE  /\ NotLaunched(g2, msgPos[g2], rcvMsg[g2])'
               /\ \A q \in Pos : InSlot(g2, q)' => sendMsgs'[g2][q].task # rcvMsg'[g2].task
    <3>1. /\ g2 # g /\ InHand(g2) /\ rcvMsg'[g2] = rcvMsg[g2] /\ msgPos'[g2] = msgPos[g2]
      BY <1>3, <2>3
    <3>2. NotLaunched(g2, msgPos[g2], rcvMsg[g2])'
      <4> SUFFICES ASSUME NEW u, u = rcvMsg[g2], NEW q \in Pos, q = msgPos[g2]
                   PROVE  NotLaunched(g2, q, u)'
        BY <3>1, SlotFacts DEF NotLaunched, At
      <4>1. NotLaunched(g2, q, u) /\ u.task \in 1 .. Len(tasks)
        BY <1>a, <3>1, SlotFacts DEF MessageInv
      <4>2. u.task # t
        BY <1>4, <3>1, <4>1 DEF NotLaunched, At
      <4> QED
        BY <2>1, <4>1, <4>2
    <3> QED
      BY <1>a, <1>2, <3>1, <3>2 DEF MessageInv
  <2> QED
    BY <2>2, <2>3 DEF MessageInv
<1>13. EntryInv'
  <2> SUFFICES ASSUME NEW g2 \in Groups, NEW j \in 1 .. Len(stream'[g2]),
                      NEW e, e = stream'[g2][j]
               PROVE  EntryOK(e, g2)'
    BY DEF EntryInv, EntryOK, At
  <2>1. CASE j \in 1 .. Len(stream[g2]) /\ e = stream[g2][j]
    BY <1>a, <1>8, <2>1, EntryGoes, EntryFacts DEF EntryInv
  <2>2. CASE g2 = g /\ j > n
    <3>1. /\ e.type # "waitFinish" /\ e.group = g /\ e.pos = p
          /\ e.task = t /\ e.val \in 1 .. m.repeat
          /\ e.last <=> e.val = m.repeat
      <4>1. \E i \in 1 .. Len(sqes) : e = sqes[i]
        BY <1>n, <2>2
      <4> QED
        BY <1>e, <4>1
    <3>2. At(g, p, t)'
      BY <1>d, <1>2, <1>8 DEF NotLaunched, PlacesKept
    <3> QED
      <4>1. t \in 1 .. Len(tasks')
        BY <1>2, <1>5
      <4>2. tasks'[t].launched /\ tasks'[t].repeat = m.repeat
        BY <1>6
      <4>3. e.last <=> e.val = tasks'[t].repeat
        BY <3>1, <4>2
      <4>4. e.val \in 1 .. tasks'[t].repeat
        BY <3>1, <4>2
      <4> QED
        BY <2>2, <3>1, <3>2, <4>1, <4>2, <4>3, <4>4 DEF EntryOK, At
  <2> QED
    BY <1>c, <2>1, <2>2
<1>14. ASSUME NEW g2 \in Groups, NEW j \in 1 .. Len(stream'[g2]) PROVE KernelOK(g2, j)'
  <2> SUFFICES ASSUME NEW e, e = stream'[g2][j], e.type = "kernel"
               PROVE  /\ tasks'[e.task].executed < e.val
                      /\ j = 1 => e.val <= tasks'[e.task].committed
                      /\ j > 1 => stream'[g2][j - 1] = [e EXCEPT !.type = "waitCommit"]
                      /\ \A k \in 1 .. j - 1 :
                          stream'[g2][k].type = "kernel" /\ stream'[g2][k].task = e.task
                              => stream'[g2][k].val < e.val
    BY DEF KernelOK
  <2>1. CASE j \in 1 .. Len(stream[g2]) /\ e = stream[g2][j]
    <3>1. KernelOK(g2, j) /\ EntryOK(e, g2) /\ Len(stream[g2]) \in Nat
      BY <1>a, <2>1, EntryFacts DEF KernelInv, EntryInv
    <3>2. e.task \in 1 .. Len(tasks)
      BY <3>1 DEF EntryOK
    <3>3. /\ tasks'[e.task].executed = tasks[e.task].executed
          /\ tasks'[e.task].committed = tasks[e.task].committed
      BY <1>7, <3>2 DEF TasksKept
    <3>4. \A k \in 1 .. j - 1 : stream'[g2][k] = stream[g2][k]
      <4>1. CASE g2 = g
        <5>1. \A k \in 1 .. j - 1 : k \in 1 .. n
          BY <1>d, <2>1, <3>1, <4>1
        <5> QED
          BY <1>o, <4>1, <5>1
      <4>2. CASE g2 # g
        BY <1>g, <4>2
      <4> QED
        BY <4>1, <4>2
    <3>5. j > 1 => j - 1 \in 1 .. j - 1
      BY <2>1, <3>1
    <3>6. tasks[e.task].executed < e.val /\ (j = 1 => e.val <= tasks[e.task].committed)
      BY <2>1, <3>1 DEF KernelOK
    <3>7. j > 1 => stream[g2][j - 1] = [e EXCEPT !.type = "waitCommit"]
      BY <2>1, <3>1 DEF KernelOK
    <3>8. \A k \in 1 .. j - 1 :
             stream[g2][k].type = "kernel" /\ stream[g2][k].task = e.task
                 => stream[g2][k].val < e.val
      BY <2>1, <3>1 DEF KernelOK
    <3> QED
      BY <3>3, <3>4, <3>5, <3>6, <3>7, <3>8
  <2>2. CASE g2 = g /\ j > n
    <3> SUFFICES ASSUME NEW i \in 1 .. Len(sqes), i = j - n, e = sqes[i]
                 PROVE  /\ tasks'[e.task].executed < e.val
                        /\ j = 1 => e.val <= tasks'[e.task].committed
                        /\ j > 1 => stream'[g][j - 1] = [e EXCEPT !.type = "waitCommit"]
                        /\ \A k \in 1 .. j - 1 :
                            stream'[g][k].type = "kernel" /\ stream'[g][k].task = e.task
                                => stream'[g][k].val < e.val
      BY <1>n, <2>2
    <3>1. /\ e.task = t /\ e.val \in 1 .. m.repeat
          /\ i > 1 /\ sqes[i - 1] = [e EXCEPT !.type = "waitCommit"]
          /\ \A k \in 1 .. i - 1 : sqes[k].type = "kernel" => sqes[k].val < e.val
      BY <1>10 DEF TurnsOf
    <3>2. tasks'[e.task].executed < e.val
      BY <1>4, <1>6, <3>1
    <3>3. j > 1 /\ j - 1 \in 1 .. Len(stream'[g]) /\ j - 1 > n /\ (j - 1) - n = i - 1
      BY <1>11, <2>2, <3>1
    <3>4. stream'[g][j - 1] = [e EXCEPT !.type = "waitCommit"]
      BY <1>n, <3>1, <3>3
    <3>5. ASSUME NEW k \in 1 .. j - 1, stream'[g][k].type = "kernel", stream'[g][k].task = t
          PROVE  stream'[g][k].val < e.val
      <4>1. CASE k <= n
        <5>1. k \in 1 .. n /\ stream'[g][k] = stream[g][k]
          BY <1>o, <1>11, <2>2, <4>1
        <5>2. EntryOK(stream[g][k], g)
          BY <1>a, <1>d, <5>1 DEF EntryInv
        <5> QED
          BY <1>4, <3>5, <5>1, <5>2 DEF EntryOK
      <4>2. CASE k > n
        <5>1. k \in 1 .. Len(stream'[g]) /\ k - n \in 1 .. i - 1
          BY <1>11, <2>2, <4>2
        <5>2. stream'[g][k] = sqes[k - n]
          BY <1>n, <4>2, <5>1
        <5> QED
          BY <3>1, <3>5, <5>1, <5>2
      <4> QED
        BY <1>11, <2>2, <4>1, <4>2
    <3> QED
      BY <3>1, <3>2, <3>3, <3>4, <3>5
  <2> QED
    BY <1>c, <2>1, <2>2
<1>15. \A g2 \in Groups, q \in Pos :
          /\ Low(g2, q)' = Low(g2, q)
          /\ \A u \in 1 .. Len(tasks) : Covered(g2, q, u) => Covered(g2, q, u)'
  BY <1>1, <1>7 DEF Low, Covered, FullyCommitted, TasksKept
<1>16. CountOK(g, p)'
  <2>1. ~NoneLeft(g, p)'
    <3>1. PICK j \in 1 .. Len(stream'[g]) : LastWait(stream'[g][j], p)
      BY <1>w
    <3>2. j \in 1 .. (Len(stream'[g]) + 1) - 1
      BY <1>11, <3>1
    <3> QED
      BY <3>1, <3>2 DEF NoneLeft, NoneBefore, LastWait
  <2>2. ASSUME NEW j \in 1 .. Len(stream'[g]), stream'[g][j].type = "waitCommit",
               stream'[g][j].pos = p, NoneBefore(g, p, j)'
        PROVE  Covered(g, p, stream[g][j].task)'
    <3> SUFFICES ASSUME NEW u, u = stream'[g][j].task PROVE Covered(g, p, u)'
      BY DEF Covered, FullyCommitted
    <3>1. CASE j <= n
      <4>1. j \in 1 .. n /\ stream'[g][j] = stream[g][j]
            /\ \A k \in 1 .. j - 1 : stream'[g][k] = stream[g][k]
        <5>1. j \in 1 .. n /\ \A k \in 1 .. j - 1 : k \in 1 .. n
          BY <1>11, <3>1
        <5> QED
          BY <1>o, <5>1
      <4>2. NoneBefore(g, p, j)
        BY <2>2, <4>1 DEF NoneBefore, LastWait
      <4>3. Covered(g, p, u)
        BY <1>a, <1>d, <1>2, <2>2, <4>1, <4>2 DEF CountInv, CountOK
      <4>4. EntryOK(stream[g][j], g)
        BY <1>a, <1>d, <4>1 DEF EntryInv
      <4>5. u \in 1 .. Len(tasks)
        BY <2>2, <4>1, <4>4 DEF EntryOK
      <4> QED
        BY <1>2, <1>15, <4>3, <4>5
    <3>2. CASE j > n
      <4>1. u = t
        BY <1>n, <1>e, <3>2
      <4>2. \A k \in 1 .. n : k \in 1 .. j - 1 /\ stream'[g][k] = stream[g][k]
        BY <1>o, <1>11, <3>2
      <4>3. \A k \in 1 .. n : ~LastWait(stream[g][k], p)
        BY <2>2, <4>2 DEF NoneBefore, LastWait
      <4>4. NoneLeft(g, p)
        BY <1>d, <1>11, <4>3 DEF NoneLeft, NoneBefore
      <4> QED
        BY <1>2, <1>15, <4>1, <4>4
    <3> QED
      BY <1>11, <3>1, <3>2
  <2> QED
    BY <2>1, <2>2 DEF CountOK
<1>17. ASSUME NEW g2 \in Groups, NEW q \in Pos, g2 # g \/ q # p PROVE CountOK(g2, q)'
  <2>1. CountOK(g2, q) /\ Len(stream[g2]) \in Nat
    BY <1>a, EntryFacts DEF CountInv
  <2>2. /\ Len(stream'[g2]) \in Nat /\ Len(stream[g2]) <= Len(stream'[g2])
        /\ \A j \in 1 .. Len(stream[g2]) : stream'[g2][j] = stream[g2][j]
        /\ \A j \in 1 .. Len(stream'[g2]) : j > Len(stream[g2]) => stream'[g2][j].pos # q
    <3>1. CASE g2 = g
      <4>1. \A j \in 1 .. Len(stream'[g]) : j > n => stream'[g][j].pos = p
        BY <1>n, <1>e
      <4>2. n = Len(stream[g2]) /\ q # p /\ n <= Len(stream'[g])
        <5>1. n <= Len(stream'[g])
          BY <1>10, <1>11
        <5> QED
          BY <1>d, <1>17, <3>1, <5>1
      <4> QED
        BY <1>o, <1>11, <3>1, <4>1, <4>2
    <3>2. CASE g2 # g
      BY <1>g, <2>1, <3>2
    <3> QED
      BY <3>1, <3>2
  <2>3. ASSUME NEW j \in 1 .. Len(stream'[g2]), stream'[g2][j].type = "waitCommit",
               stream'[g2][j].pos = q, NoneBefore(g2, q, j)'
        PROVE  Covered(g2, q, stream[g2][j].task)'
    <3> SUFFICES ASSUME NEW u, u = stream'[g2][j].task PROVE Covered(g2, q, u)'
      BY DEF Covered, FullyCommitted
    <3>1. j \in 1 .. Len(stream[g2]) /\ stream'[g2][j] = stream[g2][j]
          /\ \A k \in 1 .. j - 1 : stream'[g2][k] = stream[g2][k]
      BY <2>1, <2>2, <2>3
    <3>2. NoneBefore(g2, q, j)
      BY <2>3, <3>1 DEF NoneBefore, LastWait
    <3>3. Covered(g2, q, u)
      BY <2>1, <2>3, <3>1, <3>2 DEF CountOK
    <3>4. EntryOK(stream[g2][j], g2)
      BY <1>a, <3>1 DEF EntryInv
    <3>5. u \in 1 .. Len(tasks)
      BY <2>3, <3>1, <3>4 DEF EntryOK
    <3> QED
      BY <1>15, <3>3, <3>5
  <2>4. ASSUME NoneLeft(g2, q)'
        PROVE  (IF InHand(g2) /\ msgPos[g2] = q THEN Covered(g2, q, rcvMsg[g2].task)
                ELSE IF InSlot(g2, q) THEN Covered(g2, q, sendMsgs[g2][q].task)
                ELSE Low(g2, q) = 0)'
    <3>1. \A k \in 1 .. Len(stream[g2]) : k \in 1 .. (Len(stream'[g2]) + 1) - 1
      BY <2>1, <2>2
    <3>2. \A k \in 1 .. Len(stream[g2]) : ~LastWait(stream[g2][k], q)
      BY <2>2, <2>4, <3>1 DEF NoneLeft, NoneBefore, LastWait
    <3>3. NoneLeft(g2, q)
      BY <2>1, <3>2 DEF NoneLeft, NoneBefore
    <3>4. IF InHand(g2) /\ msgPos[g2] = q THEN Covered(g2, q, rcvMsg[g2].task)
          ELSE IF InSlot(g2, q) THEN Covered(g2, q, sendMsgs[g2][q].task)
          ELSE Low(g2, q) = 0
      BY <2>1, <3>3 DEF CountOK
    <3>5. /\ InHand(g2)' /\ msgPos'[g2] = q <=> InHand(g2) /\ msgPos[g2] = q
          /\ InHand(g2) /\ msgPos[g2] = q => rcvMsg'[g2] = rcvMsg[g2]
          /\ InSlot(g2, q)' <=> InSlot(g2, q)
          /\ sendMsgs'[g2][q] = sendMsgs[g2][q]
      BY <1>d, <1>2, <1>3, <1>17
    <3>6. CASE InHand(g2) /\ msgPos[g2] = q
      <4> SUFFICES ASSUME NEW u, u = rcvMsg[g2].task PROVE Covered(g2, q, u)'
        BY <3>5, <3>6 DEF Covered, FullyCommitted
      <4> QED
        BY <1>15, <3>4, <3>6, SlotFacts
    <3>7. CASE ~(InHand(g2) /\ msgPos[g2] = q) /\ InSlot(g2, q)
      <4> SUFFICES ASSUME NEW u, u = sendMsgs[g2][q].task PROVE Covered(g2, q, u)'
        BY <3>5, <3>7 DEF Covered, FullyCommitted
      <4> QED
        BY <1>15, <3>4, <3>7, SlotFacts
    <3>8. CASE ~(InHand(g2) /\ msgPos[g2] = q) /\ ~InSlot(g2, q)
      BY <1>15, <3>4, <3>5, <3>8
    <3> QED
      BY <3>6, <3>7, <3>8
  <2> QED
    BY <2>3, <2>4 DEF CountOK
<1>18. PendingInv'
  <2>1. ASSUME NEW u, Pending(u) PROVE Pending(u)'
    <3>1. CASE u = t
      BY <1>w, <3>1 DEF Pending, LastWait
    <3>2. CASE u # t
      <4>1. PICK g2 \in Groups :
              \/ \E q \in Pos : InSlot(g2, q) /\ sendMsgs[g2][q].task = u
              \/ InHand(g2) /\ rcvMsg[g2].task = u
              \/ \E j \in 1 .. Len(stream[g2]) :
                  stream[g2][j].type = "waitCommit" /\ stream[g2][j].last
                    /\ stream[g2][j].task = u
        BY <2>1 DEF Pending
      <4>2. ASSUME NEW q \in Pos, InSlot(g2, q), sendMsgs[g2][q].task = u PROVE Pending(u)'
        <5>1. InSlot(g2, q)' /\ sendMsgs'[g2][q].task = u
          BY <1>d, <1>2, <3>2, <4>2 DEF InSlot
        <5> QED
          BY <5>1 DEF Pending
      <4>3. CASE InHand(g2) /\ rcvMsg[g2].task = u
        <5>1. g2 # g
          BY <1>d, <1>2, <3>2, <4>3
        <5> QED
          BY <1>3, <4>3, <5>1 DEF Pending
      <4>4. ASSUME NEW j \in 1 .. Len(stream[g2]), stream[g2][j].type = "waitCommit",
                   stream[g2][j].last, stream[g2][j].task = u
            PROVE  Pending(u)'
        <5>1. j \in 1 .. Len(stream'[g2]) /\ stream'[g2][j] = stream[g2][j]
          BY <1>d, <1>o, <1>g
        <5> QED
          BY <4>4, <5>1 DEF Pending
      <4> QED
        BY <4>1, <4>2, <4>3, <4>4
    <3> QED
      BY <3>1, <3>2
  <2> QED
    BY <1>a, <1>7, <2>1 DEF PendingInv, FullyCommitted, TasksKept
<1>19. TurnsInv'
  BY <1>a, <1>7 DEF TurnsInv, TasksKept
<1> QED
  BY <1>9, <1>12, <1>13, <1>14, <1>16, <1>17, <1>18, <1>19 DEF CommitInv, KernelInv, CountInv

\* A step of the client that changes only its own tables.
TablesOnly == /\ UNCHANGED <<sendMsgs, commitTurnCnt, serverVars, stream, tasks>>
              /\ PlacesKept

LEMMA OthersKept ==
    ASSUME TypeInv, CommitInv, TablesOnly
    PROVE  MessageInv' /\ EntryInv' /\ KernelInv' /\ CountInv' /\ PendingInv' /\ TurnsInv'
<1>a. /\ MessageInv /\ EntryInv /\ KernelInv /\ CountInv /\ PendingInv /\ TurnsInv
      /\ UNCHANGED <<sendMsgs, commitTurnCnt, serverVars, stream, tasks>> /\ PlacesKept
  BY DEF CommitInv, TablesOnly
<1>1. TasksGo
  BY <1>a, TaskFacts DEF TasksGo, FullyCommitted
<1>2. WaitingKept /\ MessagesKept
  BY <1>a, QuietSlots DEF WaitingKept
<1>3. MessageInv' /\ EntryInv'
  BY <1>a, <1>1, <1>2, MessageKept, EntryKept
<1>4. KernelInv' /\ TurnsInv'
  BY <1>a DEF KernelInv, KernelOK, TurnsInv
<1>5. CountInv'
  BY <1>a DEF CountInv, CountOK, Covered, FullyCommitted, Low, NoneLeft, NoneBefore, LastWait,
              InHand, InSlot, serverVars
<1>6. PendingInv'
  BY <1>a DEF PendingInv, Pending, FullyCommitted, InHand, InSlot, serverVars
<1> QED
  BY <1>3, <1>4, <1>5, <1>6

\* The rows of a finalized group: everything is committed.
LEMMA FinalizedCommitted ==
    ASSUME TypeInv, TableInv, CommittedInv, pc # "commit", NEW g \in Groups, finalized[g],
           NEW i \in 1 .. Len(handles[g])
    PROVE  FullyCommitted(handles[g][i].task)
<1>1. CommittedAll(g)
  BY DEF CommittedInv
<1>2. handles[g][i].commit = handles[g][i].repeat
  BY <1>1, CommittedRows
<1> QED
  BY <1>2 DEF TableInv, Committing, FullyCommitted

LEMMA NextLaunchKeeps ==
    ASSUME TypeInv, TypeInv', CommitInv, UNCHANGED <<serverVars, stream>>, NextLaunch
    PROVE  CommitInv'
<1>a. TableInv /\ CommittedInv
  BY DEF CommitInv
<1>1. /\ pc = "ready" /\ pc' = "ready" /\ \A g \in Groups : finalized[g]
      /\ UNCHANGED <<sendMsgs, commitTurnCnt, tasks>>
      /\ \A g \in Groups : Len(handles'[g]) = 0 /\ handles'[g] = <<>> /\ ~finalized'[g]
  BY DEF NextLaunch, areaVars, PerGroup
<1>2. PlacesKept
  BY <1>1 DEF PlacesKept, At
<1>3. TableInv'
  BY <1>1 DEF TableInv
<1>4. CommittedInv'
  <2>1. \A t \in 1 .. Len(tasks) : FullyCommitted(t)
    BY <1>a, <1>1, FinalizedCommitted DEF CommittedInv, InTable
  <2>2. \A t \in 1 .. Len(tasks') : FullyCommitted(t)'
    BY <1>1, <2>1 DEF FullyCommitted
  <2> QED
    BY <1>1, <2>2 DEF CommittedInv, CommittedAll
<1> QED
  BY <1>1, <1>2, <1>3, <1>4, OthersKept DEF CommitInv, TablesOnly

\* Commit raises the turn in its table first.
LEMMA CommitKeeps ==
    ASSUME TypeInv, TypeInv', CommitInv, UNCHANGED <<serverVars, stream>>,
           NEW g \in Groups, NEW h \in Handles, Commit(g, h)
    PROVE  CommitInv'
<1>a. TableInv /\ CommittedInv
  BY DEF CommitInv
<1>d. SUFFICES ASSUME NEW k, k = h + 1, NEW old, old = handles[g][k],
                      NEW hd, hd = [old EXCEPT !.commit = @ + 1]
               PROVE  CommitInv'
  OBVIOUS
<1>1. /\ pc = "ready" /\ ~finalized[g] /\ old.commit < old.repeat
      /\ handles' = [handles EXCEPT ![g][k] = hd]
      /\ pc' = "commit" /\ call' = ApiCall(g, h, NoMsg, FALSE)
      /\ UNCHANGED <<sendMsgs, commitTurnCnt, tasks, curMsgPosition, finalized>>
  BY <1>d DEF Commit, areaVars
<1>2. k \in 1 .. Len(handles[g]) /\ old \in Handle /\ k = h + 1
  BY <1>d, ConstantFacts, RowFacts DEF Commit
<1>3. /\ hd \in Handle /\ hd.pos = old.pos /\ hd.repeat = old.repeat /\ hd.task = old.task
      /\ hd.commit = old.commit + 1 /\ old.commit \in Nat /\ old.repeat \in Nat
  BY <1>d, <1>2 DEF Handle
<1>4. /\ \A g2 \in Groups : Len(handles'[g2]) = Len(handles[g2])
      /\ \A g2 \in Groups \ {g} : handles'[g2] = handles[g2]
      /\ handles'[g][k] = hd
      /\ \A i \in 1 .. Len(handles[g]) : i # k => handles'[g][i] = handles[g][i]
  <2>1. handles' = [handles EXCEPT ![g][k] = hd] /\ k \in 1 .. Len(handles[g]) /\ hd \in Handle
    BY <1>1, <1>2, <1>3
  <2> QED
    BY <2>1, RowChanged
<1>5. \A g2 \in Groups : \A i \in 1 .. Len(handles[g2]) :
        /\ handles'[g2][i].pos = handles[g2][i].pos /\ handles'[g2][i].task = handles[g2][i].task
        /\ handles'[g2][i].repeat = handles[g2][i].repeat
  BY <1>d, <1>3, <1>4
<1>6. PlacesKept
  BY <1>1, <1>4, <1>5 DEF PlacesKept, At
<1>7. TableInv'
  <2>1. ASSUME NEW g2 \in Groups, NEW i \in 1 .. Len(handles'[g2])
        PROVE  LET row == handles'[g2][i]
                   t == tasks'[row.task]
               IN /\ t.group = g2 /\ t.repeat = row.repeat
                  /\ row.commit <= row.repeat /\ row.pos < curMsgPosition'[g2]
                  /\ IF Committing(g2, i)' THEN t.committed < row.commit
                                           ELSE t.committed = row.commit
    <3>1. i \in 1 .. Len(handles[g2])
      BY <1>4
    <3>2. LET row == handles[g2][i]
              t == tasks[row.task]
          IN /\ t.group = g2 /\ t.repeat = row.repeat
             /\ row.commit <= row.repeat /\ row.pos < curMsgPosition[g2]
             /\ t.committed = row.commit
      BY <1>a, <1>1, <3>1 DEF TableInv, Committing
    <3>3. Committing(g2, i)' <=> g2 = g /\ i = k
      BY <1>1, <1>2 DEF Committing, ApiCall
    <3>4. CASE g2 = g /\ i = k
      <4>1. /\ tasks[old.task].group = g /\ tasks[old.task].repeat = old.repeat
            /\ old.pos < curMsgPosition[g] /\ tasks[old.task].committed = old.commit
        BY <1>d, <3>2, <3>4
      <4>2. handles'[g2][i] = hd /\ Committing(g2, i)'
        BY <1>4, <3>3, <3>4
      <4>3. hd.commit <= hd.repeat /\ old.commit < hd.commit
        BY <1>1, <1>3
      <4> QED
        BY <1>1, <1>3, <3>4, <4>1, <4>2, <4>3
    <3>5. CASE ~(g2 = g /\ i = k)
      <4>1. handles'[g2][i] = handles[g2][i]
        BY <1>4, <3>1, <3>5
      <4> QED
        BY <1>1, <3>2, <3>3, <3>5, <4>1
    <3> QED
      BY <3>4, <3>5
  <2>2. \A g2 \in Groups : \A i, j \in 1 .. Len(handles'[g2]) :
          i # j => /\ handles'[g2][i].pos # handles'[g2][j].pos
                   /\ handles'[g2][i].task # handles'[g2][j].task
    BY <1>a, <1>4, <1>5 DEF TableInv
  <2> QED
    BY <2>1, <2>2 DEF TableInv
<1>8. CommittedInv'
  <2>1. \A t \in 1 .. Len(tasks') : FullyCommitted(t)' \/ InTable(t)'
    BY <1>a, <1>1, <1>4, <1>5 DEF CommittedInv, FullyCommitted, InTable
  <2>2. \A g2 \in Groups : finalized[g2] => CommittedAll(g2)'
    BY <1>a, <1>1, <1>4 DEF CommittedInv, CommittedAll
  <2> QED
    BY <1>1, <2>1, <2>2 DEF CommittedInv
<1> QED
  BY <1>1, <1>6, <1>7, <1>8, OthersKept DEF CommitInv, TablesOnly

\* The count is written for a task that is waited for at its position alone.
LEMMA CommitWriteKeeps ==
    ASSUME TypeInv, TypeInv', CommitInv, UNCHANGED <<serverVars, stream>>, CommitWrite
    PROVE  CommitInv'
<1>a. /\ TableInv /\ CommittedInv /\ MessageInv /\ EntryInv /\ KernelInv
      /\ CountInv /\ PendingInv /\ TurnsInv
  BY DEF CommitInv
<1>d. SUFFICES ASSUME NEW g, g = call.group, NEW i, i = call.handle + 1,
                      NEW hd, hd = handles[g][i], NEW p, p = hd.pos, NEW t, t = hd.task
               PROVE  CommitInv'
  OBVIOUS
<1>1. /\ pc = "commit" /\ pc' = "ready"
      /\ commitTurnCnt' = [commitTurnCnt EXCEPT ![g][p] = hd.commit]
      /\ tasks' = [tasks EXCEPT ![t].committed = hd.commit]
      /\ UNCHANGED <<sendMsgs, handles, curMsgPosition, finalized, stream, serverVars>>
  BY <1>d DEF CommitWrite, Return
<1>2. /\ g \in Groups /\ i \in 1 .. Len(handles[g]) /\ hd \in Handle
      /\ t \in 1 .. Len(tasks) /\ tasks[t] \in Task
  BY <1>d, <1>1, CallTask
<1>3. /\ p \in Pos /\ hd.commit \in Nat /\ hd.repeat \in Nat
      /\ tasks[t].committed \in Nat /\ tasks[t].repeat \in Nat /\ tasks[t].executed \in Nat
  BY <1>d, <1>2, TaskFacts DEF Handle
<1>4. /\ tasks[t].group = g /\ tasks[t].repeat = hd.repeat
      /\ tasks[t].committed < hd.commit /\ hd.commit <= hd.repeat
  <2>1. Committing(g, i)
    BY <1>d, <1>1 DEF Committing
  <2>2. /\ tasks[t].group = g /\ tasks[t].repeat = hd.repeat
        /\ hd.commit <= hd.repeat
        /\ IF Committing(g, i) THEN tasks[t].committed < hd.commit
           ELSE tasks[t].committed = hd.commit
    <3>1. hd = handles[g][i] /\ t = handles[g][i].task
      BY <1>d
    <3> QED
      BY <1>a, <1>2, <3>1 DEF TableInv
  <2> QED
    BY <2>1, <2>2
<1>5. /\ Len(tasks') = Len(tasks) /\ tasks'[t] = [tasks[t] EXCEPT !.committed = hd.commit]
      /\ \A u \in 1 .. Len(tasks) : u # t => tasks'[u] = tasks[u]
  <2> DEFINE e == [tasks[t] EXCEPT !.committed = hd.commit]
  <2>1. e \in Task
    BY <1>2, <1>3 DEF Task
  <2>2. tasks' = [tasks EXCEPT ![t] = e]
    BY <1>1
  <2> HIDE DEF e
  <2>3. /\ Len(tasks') = Len(tasks) /\ tasks'[t] = e
        /\ \A u \in 1 .. Len(tasks) : u # t => tasks'[u] = tasks[u]
    BY <1>2, <2>1, <2>2, TaskChanged
  <2> QED
    BY <2>3 DEF e
<1>6. /\ tasks'[t].committed = hd.commit /\ tasks'[t].group = g
      /\ tasks'[t].repeat = tasks[t].repeat /\ tasks'[t].executed = tasks[t].executed
      /\ tasks'[t].launched = tasks[t].launched
  BY <1>2, <1>4, <1>5 DEF Task
<1>7. \A u \in 1 .. Len(tasks) :
        /\ tasks'[u].group = tasks[u].group /\ tasks'[u].repeat = tasks[u].repeat
        /\ tasks'[u].executed = tasks[u].executed /\ tasks'[u].launched = tasks[u].launched
  <2> SUFFICES ASSUME NEW u \in 1 .. Len(tasks)
               PROVE  /\ tasks'[u].group = tasks[u].group /\ tasks'[u].repeat = tasks[u].repeat
                      /\ tasks'[u].executed = tasks[u].executed
                      /\ tasks'[u].launched = tasks[u].launched
    OBVIOUS
  <2>1. CASE u = t
    BY <1>4, <1>6, <2>1
  <2>2. CASE u # t
    BY <1>5, <2>2
  <2> QED
    BY <2>1, <2>2
<1>8. \A u \in 1 .. Len(tasks) :
        /\ tasks'[u].committed \in Nat /\ tasks[u].committed <= tasks'[u].committed
        /\ FullyCommitted(u) => FullyCommitted(u)'
  <2> SUFFICES ASSUME NEW u \in 1 .. Len(tasks)
               PROVE  /\ tasks'[u].committed \in Nat /\ tasks[u].committed <= tasks'[u].committed
                      /\ FullyCommitted(u) => FullyCommitted(u)'
    OBVIOUS
  <2>1. CASE u = t
    BY <1>3, <1>4, <1>6, <2>1 DEF FullyCommitted
  <2>2. CASE u # t
    BY <1>5, <2>2, TaskFacts DEF FullyCommitted
  <2> QED
    BY <2>1, <2>2
<1>9. TasksGo /\ PlacesKept /\ WaitingKept /\ MessagesKept
  <2>1. TasksGo
    BY <1>5, <1>7, <1>8, TaskFacts DEF TasksGo
  <2>2. PlacesKept
    BY <1>1, <1>7 DEF PlacesKept, At
  <2> QED
    BY <1>1, <1>7, <2>1, <2>2, QuietSlots DEF WaitingKept
<1>10. MessageInv' /\ EntryInv'
  BY <1>a, <1>1, <1>9, MessageKept, EntryKept
<1>11. TableInv'
  <2>1. ASSUME NEW g2 \in Groups, NEW j \in 1 .. Len(handles'[g2])
        PROVE  LET row == handles'[g2][j]
                   u == tasks'[row.task]
               IN /\ u.group = g2 /\ u.repeat = row.repeat
                  /\ row.commit <= row.repeat /\ row.pos < curMsgPosition'[g2]
                  /\ IF Committing(g2, j)' THEN u.committed < row.commit
                                           ELSE u.committed = row.commit
    <3> SUFFICES ASSUME NEW row, row = handles[g2][j], NEW u, u = row.task
                 PROVE  /\ tasks'[u].group = g2 /\ tasks'[u].repeat = row.repeat
                        /\ row.commit <= row.repeat /\ row.pos < curMsgPosition[g2]
                        /\ tasks'[u].committed = row.commit
      BY <1>1 DEF Committing
    <3>1. /\ tasks[u].group = g2 /\ tasks[u].repeat = row.repeat
          /\ row.commit <= row.repeat /\ row.pos < curMsgPosition[g2]
          /\ ~Committing(g2, j) => tasks[u].committed = row.commit
      BY <1>a, <1>1 DEF TableInv
    <3>2. u \in 1 .. Len(tasks) /\ j \in 1 .. Len(handles[g2])
      BY <1>1, RowFacts
    <3>3. CASE g2 = g /\ j = i
      BY <1>d, <1>4, <1>6, <3>1, <3>3
    <3>4. CASE ~(g2 = g /\ j = i)
      <4>1. ~Committing(g2, j)
        BY <1>d, <3>4 DEF Committing
      <4>2. u # t
        <5>1. CASE g2 = g
          BY <1>a, <1>d, <1>2, <3>2, <3>4, <5>1 DEF TableInv
        <5>2. CASE g2 # g
          BY <1>4, <3>1, <5>2
        <5> QED
          BY <5>1, <5>2
      <4>3. tasks'[u] = tasks[u]
        BY <1>5, <3>2, <4>2
      <4> QED
        BY <3>1, <4>1, <4>3
    <3> QED
      BY <3>3, <3>4
  <2> QED
    BY <1>a, <1>1, <2>1 DEF TableInv
<1>12. CommittedInv'
  <2>1. \A u \in 1 .. Len(tasks') : FullyCommitted(u)' \/ InTable(u)'
    BY <1>a, <1>1, <1>5, <1>8 DEF CommittedInv, InTable
  <2> QED
    BY <1>a, <1>1, <2>1 DEF CommittedInv, CommittedAll
<1>13. ASSUME NEW g2 \in Groups PROVE \A j \in 1 .. Len(stream'[g2]) : KernelOK(g2, j)'
  <2> SUFFICES ASSUME NEW d, d = 0 PROVE \A j \in 1 .. Len(stream'[g2]) : KernelOK(g2, j)'
    OBVIOUS
  <2>1. Moved(g2, d)
    BY <1>1, MovedCases
  <2>2. \A k \in 1 .. Len(stream[g2]) : stream[g2][k].type = "kernel"
          => tasks'[stream[g2][k].task].executed < stream[g2][k].val
    <3> SUFFICES ASSUME NEW k \in 1 .. Len(stream[g2]), stream[g2][k].type = "kernel",
                        NEW t2, t2 = stream[g2][k].task
                 PROVE  tasks'[t2].executed < stream[g2][k].val
      OBVIOUS
    <3>1. KernelOK(g2, k) /\ EntryOK(stream[g2][k], g2)
      BY <1>a DEF KernelInv, EntryInv
    <3>2. t2 \in 1 .. Len(tasks)
      BY <3>1 DEF EntryOK
    <3>3. tasks[t2].executed < stream[g2][k].val
      BY <3>1 DEF KernelOK
    <3> QED
      BY <1>7, <3>2, <3>3
  <2> QED
    BY <1>a, <1>9, <2>1, <2>2, KernelMoved
<1>14. ASSUME NEW g2 \in Groups, NEW q \in Pos, g2 # g \/ q # p PROVE CountOK(g2, q)'
  <2> SUFFICES ASSUME NEW d, d = 0 PROVE CountOK(g2, q)'
    OBVIOUS
  <2>1. Moved(g2, d)
    BY <1>1, MovedCases
  <2>2. commitTurnCnt \in [Groups -> [Pos -> Nat]]
    BY DEF TypeInv, TypeOK, AreaTypeOK
  <2>3. commitTurnCnt'[g2][q] = commitTurnCnt[g2][q]
    BY <1>1, <1>2, <1>3, <1>14, <2>2
  <2>4. Low(g2, q)' = Low(g2, q) /\ Low(g2, q) \in Nat
    BY <2>3, SlotFacts DEF Low
  <2>5. ASSUME NEW u \in 1 .. Len(tasks), Covered(g2, q, u) PROVE Covered(g2, q, u)'
    <3>1. tasks[u].committed \in Nat /\ tasks'[u].committed \in Nat
          /\ tasks[u].committed <= tasks'[u].committed /\ (FullyCommitted(u) => FullyCommitted(u)')
      BY <1>8, TaskFacts
    <3> QED
      BY <2>4, <2>5, <3>1 DEF Covered
  <2> QED
    BY <1>a, <1>9, <2>1, <2>4, <2>5, CountMoved DEF CountInv
<1>15. CountOK(g, p)'
  <2>1. Low(g, p)' <= hd.commit
    <3>1. commitTurnCnt'[g][p] = hd.commit
      BY <1>1, <1>2, <1>3 DEF TypeInv, TypeOK, AreaTypeOK
    <3>2. \A c \in Nat : LoadHalf(c) <= c
      BY DEF LoadHalf, Half
    <3> QED
      BY <1>3, <3>1, <3>2 DEF Low
  <2>2. ASSUME NEW u \in 1 .. Len(tasks), At(g, p, u) PROVE Covered(g, p, u)'
    <3>1. CASE u = t
      BY <1>6, <2>1, <3>1 DEF Covered
    <3>2. CASE u # t
      <4>1. ~InTable(u)
        <5> SUFFICES ASSUME NEW g2 \in Groups, NEW j \in 1 .. Len(handles[g2]),
                            handles[g2][j].task = u
                     PROVE  FALSE
          BY DEF InTable
        <5>1. g2 = g
          BY <1>a, <2>2 DEF TableInv, At
        <5>2. handles[g][j].pos = p
          BY <2>2, <5>1 DEF At
        <5> QED
          BY <1>a, <1>d, <1>2, <3>2, <5>1, <5>2 DEF TableInv
      <4> QED
        BY <1>a, <1>8, <4>1 DEF CommittedInv, Covered
    <3> QED
      BY <3>1, <3>2
  <2>3. ASSUME NEW j \in 1 .. Len(stream'[g]), stream'[g][j].type = "waitCommit",
               stream'[g][j].pos = p
        PROVE  Covered(g, p, stream[g][j].task)'
    <3> SUFFICES ASSUME NEW u, u = stream[g][j].task PROVE Covered(g, p, u)'
      BY <1>1 DEF Covered, FullyCommitted
    <3>1. EntryOK(stream[g][j], g)
      BY <1>a, <1>1, <1>2 DEF EntryInv
    <3>2. u \in 1 .. Len(tasks) /\ At(g, p, u)
      BY <1>1, <2>3, <3>1 DEF EntryOK
    <3> QED
      BY <2>2, <3>2
  <2>4. ASSUME InHand(g), msgPos[g] = p PROVE Covered(g, p, rcvMsg[g].task)'
    <3> SUFFICES ASSUME NEW u, u = rcvMsg[g].task PROVE Covered(g, p, u)'
      BY <1>1 DEF Covered, FullyCommitted, serverVars
    <3> QED
      BY <1>a, <1>2, <2>2, <2>4, SlotFacts DEF MessageInv, NotLaunched
  <2>5. ASSUME InSlot(g, p) PROVE Covered(g, p, sendMsgs[g][p].task)'
    <3> SUFFICES ASSUME NEW u, u = sendMsgs[g][p].task PROVE Covered(g, p, u)'
      BY <1>1 DEF Covered, FullyCommitted
    <3> QED
      BY <1>a, <1>2, <1>3, <2>2, <2>5, SlotFacts DEF MessageInv, NotLaunched
  <2>6. At(g, p, t) /\ \A g2 \in Groups, q \in Pos : At(g2, q, t) => g2 = g /\ q = p
    <3>1. \A j \in 1 .. Len(handles[g]) : handles[g][j].task = t => j = i
      BY <1>a, <1>d, <1>2 DEF TableInv
    <3> QED
      <4>1. At(g, p, t)
        BY <1>d, <1>4, <3>1 DEF At
      <4>2. ASSUME NEW g2 \in Groups, NEW q \in Pos, At(g2, q, t) PROVE g2 = g /\ q = p
        <5>1. g2 = g
          BY <1>4, <4>2 DEF At
        <5>2. handles[g][i].task = t => handles[g][i].pos = q
          BY <1>2, <4>2, <5>1 DEF At
        <5> QED
          BY <1>d, <5>1, <5>2
      <4> QED
        BY <4>1, <4>2
  <2>7. ASSUME NoneLeft(g, p), ~InSlot(g, p), ~(InHand(g) /\ msgPos[g] = p) PROVE FALSE
    <3>1. Pending(t)
      BY <1>a, <1>2, <1>3, <1>4 DEF PendingInv, FullyCommitted
    <3>2. PICK g2 \in Groups :
            \/ \E q \in Pos : InSlot(g2, q) /\ sendMsgs[g2][q].task = t
            \/ InHand(g2) /\ rcvMsg[g2].task = t
            \/ \E j \in 1 .. Len(stream[g2]) :
                stream[g2][j].type = "waitCommit" /\ stream[g2][j].last /\ stream[g2][j].task = t
      BY <3>1 DEF Pending
    <3>3. ASSUME NEW q \in Pos, InSlot(g2, q), sendMsgs[g2][q].task = t PROVE FALSE
      BY <1>a, <2>6, <2>7, <3>2, <3>3 DEF MessageInv, NotLaunched
    <3>4. CASE InHand(g2) /\ rcvMsg[g2].task = t
      <4>1. At(g2, msgPos[g2], t) /\ msgPos[g2] \in Pos
        BY <1>a, <3>2, <3>4, SlotFacts DEF MessageInv, NotLaunched
      <4> QED
        BY <2>6, <2>7, <3>2, <3>4, <4>1
    <3>5. ASSUME NEW j \in 1 .. Len(stream[g2]), stream[g2][j].type = "waitCommit",
                 stream[g2][j].last, stream[g2][j].task = t
          PROVE  FALSE
      <4>1. EntryOK(stream[g2][j], g2) /\ stream[g2][j].pos \in Pos /\ Len(stream[g2]) \in Nat
        BY <1>a, <3>2, EntryFacts DEF EntryInv
      <4>2. At(g2, stream[g2][j].pos, t)
        BY <3>5, <4>1 DEF EntryOK
      <4>3. g2 = g /\ stream[g2][j].pos = p
        BY <2>6, <3>2, <4>1, <4>2
      <4>4. LastWait(stream[g][j], p) /\ j \in 1 .. (Len(stream[g]) + 1) - 1
        BY <3>5, <4>1, <4>3 DEF LastWait
      <4> QED
        BY <2>7, <4>4 DEF NoneLeft, NoneBefore
    <3> QED
      BY <3>2, <3>3, <3>4, <3>5
  <2>8. /\ NoneLeft(g, p)' <=> NoneLeft(g, p)
        /\ InSlot(g, p)' <=> InSlot(g, p)
        /\ InHand(g)' <=> InHand(g)
        /\ msgPos' = msgPos
    BY <1>1 DEF NoneLeft, NoneBefore, LastWait, InSlot, InHand, serverVars
  <2> QED
    BY <2>3, <2>4, <2>5, <2>7, <2>8 DEF CountOK
<1>16. PendingInv'
  <2>1. \A u : Pending(u)' <=> Pending(u)
    BY <1>1 DEF Pending, InHand, InSlot, serverVars
  <2> QED
    BY <1>a, <1>5, <1>8, <2>1 DEF PendingInv
<1>17. TurnsInv'
  <2> SUFFICES ASSUME NEW u \in 1 .. Len(tasks)
               PROVE  tasks'[u].executed <= tasks'[u].committed
                      /\ tasks'[u].committed <= tasks'[u].repeat
    BY <1>5 DEF TurnsInv
  <2>1. CASE u = t
    <3>1. tasks[t].executed <= tasks[t].committed
      BY <1>a, <1>2 DEF TurnsInv
    <3> QED
      BY <1>3, <1>4, <1>6, <2>1, <3>1
  <2>2. CASE u # t
    BY <1>a, <1>5, <2>2 DEF TurnsInv
  <2> QED
    BY <2>1, <2>2
<1> QED
  BY <1>10, <1>11, <1>12, <1>13, <1>14, <1>15, <1>16, <1>17 DEF CommitInv, KernelInv, CountInv

\* A message, a row and a task are added.
LEMMA RowAdded ==
    ASSUME TypeInv, NEW g \in Groups, NEW hd \in Handle,
           handles' = [handles EXCEPT ![g] = Append(@, hd)]
    PROVE  /\ Len(handles'[g]) = Len(handles[g]) + 1
           /\ handles'[g][Len(handles[g]) + 1] = hd
           /\ \A i \in 1 .. Len(handles[g]) : handles'[g][i] = handles[g][i]
           /\ \A g2 \in Groups \ {g} : handles'[g2] = handles[g2]
<1>1. handles \in [Groups -> Seq(Handle)] /\ handles[g] \in Seq(Handle)
  BY DEF TypeInv, TypeOK, ClientTypeOK
<1>2. handles'[g] = Append(handles[g], hd) /\ \A g2 \in Groups \ {g} : handles'[g2] = handles[g2]
  BY <1>1
<1> QED
  BY <1>1, <1>2, AppendProperties

LEMMA TaskAdded ==
    ASSUME TypeInv, NEW e \in Task, tasks' = Append(tasks, e)
    PROVE  /\ Len(tasks') = Len(tasks) + 1 /\ tasks'[Len(tasks) + 1] = e
           /\ \A t \in 1 .. Len(tasks) : tasks'[t] = tasks[t]
<1>1. tasks \in Seq(Task)
  BY DEF TypeInv, TypeOK
<1> QED
  BY <1>1, AppendProperties

\* What SendPrepare does to group g: the message m for a new task u at p.
Issued(g, m, u, hd) ==
    /\ g = call.group /\ m.handle = Len(handles[g])
    /\ m.seq = primitiveId /\ primitiveId' = NextSeq
    /\ tasks'[u].deps = deps[g] /\ tasks'[u].observed = 0 /\ hd.wait = 0
    /\ tasks' = Append(tasks, Api!NewTask(g, hd.repeat, deps[g]))
    /\ call.msg.type = "prepare" /\ UNCHANGED <<deps, launch>>
Prepared(g, p, m, u, hd) ==
    /\ g \in Groups /\ p \in Pos /\ p = curMsgPosition[g] /\ m \in Msg /\ hd \in Handle
    /\ u = Len(tasks) + 1 /\ m.type = "prepare" /\ m.task = u
    /\ hd.task = u /\ hd.pos = p /\ hd.repeat = m.repeat /\ hd.repeat \in Nat /\ hd.repeat > 0
    /\ pc = "send" /\ ~finalized[g] /\ sendMsgs[g][p] = NoMsg
    /\ sendMsgs' = [sendMsgs EXCEPT ![g][p] = m]
    /\ curMsgPosition' = [curMsgPosition EXCEPT ![g] = @ + 1]
    /\ handles' = [handles EXCEPT ![g] = Append(@, hd)]
    /\ Len(tasks') = u /\ \A t \in 1 .. Len(tasks) : tasks'[t] = tasks[t]
    /\ tasks'[u].group = g /\ tasks'[u].repeat = hd.repeat /\ ~tasks'[u].launched
    /\ tasks'[u].committed = 0 /\ tasks'[u].executed = 0
    /\ \/ /\ pc' = "commit" /\ call'.group = g /\ call'.handle = Len(handles[g])
          /\ hd.commit = hd.repeat
       \/ pc' = "ready" /\ hd.commit = 0
    /\ UNCHANGED <<commitTurnCnt, finalized, stream, serverVars>>
    /\ Issued(g, m, u, hd)

LEMMA SendPrepared ==
    ASSUME TypeInv, UNCHANGED <<serverVars, stream>>, SendPrepare
    PROVE  \E g, p, m, u, hd : Prepared(g, p, m, u, hd)
<1> DEFINE g == call.group
           r == call.msg.repeat
           p == curMsgPosition[g]
           u == Len(tasks) + 1
           m == [call.msg EXCEPT !.seq = primitiveId, !.task = u]
           hd == [pos |-> p, repeat |-> r, commit |-> IF call.flag THEN r ELSE 0,
                  wait |-> 0, task |-> u]
           e == Api!NewTask(g, r, deps[g])
<1>1. /\ pc = "send" /\ call.msg.type = "prepare" /\ sendMsgs[g][p] = NoMsg
      /\ sendMsgs' = [sendMsgs EXCEPT ![g][p] = m]
      /\ handles' = [handles EXCEPT ![g] = Append(@, hd)]
      /\ tasks' = Append(tasks, e)
      /\ primitiveId' = NextSeq /\ UNCHANGED <<deps, launch>>
      /\ curMsgPosition' = [curMsgPosition EXCEPT ![g] = @ + 1]
      /\ \/ pc' = "commit" /\ call' = ApiCall(g, call.msg.handle, NoMsg, TRUE) /\ call.flag
         \/ pc' = "ready" /\ ~call.flag
      /\ UNCHANGED <<commitTurnCnt, finalized, stream, serverVars>>
  BY DEF SendPrepare, PutMsg, AdvancePosition, Return
<1>2. /\ call \in Call /\ deps \in [Groups -> SUBSET (1 .. MaxTasks)]
      /\ curMsgPosition \in [Groups -> 0 .. MsgCnt] /\ primitiveId \in Nat
  BY SeqModAssumption DEF TypeInv, TypeOK, ClientTypeOK
<1>3. g \in Groups /\ call.msg \in Msg /\ call.flag \in BOOLEAN
  BY <1>2 DEF Call
<1>4. /\ r \in Repeats /\ p + 1 < MsgCnt /\ call.msg.handle = Len(handles[g]) /\ ~finalized[g]
  BY <1>1 DEF TypeInv, CallOK, Preparing
<1>5. p \in Pos /\ r \in Nat /\ r > 0 /\ u \in Nat
  <2>1. p \in 0 .. MsgCnt
    BY <1>2, <1>3
  <2>2. r \in Nat /\ r > 0
    <3>1. \A x \in Repeats : x \in Nat /\ x > 0
      BY RepeatsAssumption
    <3> HIDE DEF g, p, r, u
    <3> QED
      BY <1>4, <3>1
  <2>3. u \in Nat
    BY TaskFacts
  <2> HIDE DEF p, r, u
  <2>4. p \in Pos
    BY <1>4, <2>1, MsgCntAssumption DEF Pos
  <2> QED
    BY <2>2, <2>3, <2>4
<1>6. /\ m \in Msg /\ m.type = "prepare" /\ m.task = u /\ m.repeat = r
      /\ m.seq = primitiveId /\ m.handle = call.msg.handle
  <2> HIDE DEF g, r, p, u, hd, e
  <2> QED
    BY <1>1, <1>2, <1>3, <1>5 DEF Msg, r
<1>7. /\ hd \in Handle /\ hd.task = u /\ hd.pos = p /\ hd.repeat = r
      /\ hd.wait = 0 /\ hd.commit = IF call.flag THEN r ELSE 0
  <2> HIDE DEF g, r, p, u, m, e
  <2> QED
    BY <1>3, <1>5 DEF Handle
<1>8. /\ e \in Task /\ e.group = g /\ e.repeat = r /\ e.launched = FALSE
      /\ e.committed = 0 /\ e.executed = 0 /\ e.observed = 0 /\ e.deps = deps[g]
  <2> HIDE DEF g, r, p, u, m, hd
  <2> QED
    BY <1>2, <1>3, <1>4 DEF Api!NewTask, Task
<1> HIDE DEF g, r, p, u, m, hd, e
<1>9. Len(tasks') = u /\ tasks'[u] = e /\ \A t \in 1 .. Len(tasks) : tasks'[t] = tasks[t]
  BY <1>1, <1>8, TaskAdded DEF u
<1>10. \/ pc' = "commit" /\ call'.group = g /\ call'.handle = Len(handles[g]) /\ hd.commit = hd.repeat
       \/ pc' = "ready" /\ hd.commit = 0
  BY <1>1, <1>4, <1>7 DEF ApiCall
<1>11. p = curMsgPosition[g] /\ u = Len(tasks) + 1
  BY DEF p, u
<1>12. ~tasks'[u].launched
  BY <1>8, <1>9
<1>12a. g = call.group /\ e = Api!NewTask(g, r, deps[g])
  BY DEF g, e
<1>12b. Issued(g, m, u, hd)
  BY <1>1, <1>4, <1>6, <1>7, <1>8, <1>9, <1>12a DEF Issued
<1>13. Prepared(g, p, m, u, hd)
  BY <1>12b, <1>1, <1>3, <1>4, <1>5, <1>6, <1>7, <1>8, <1>9, <1>10, <1>11, <1>12 DEF Prepared
<1> QED
  BY <1>13

LEMMA SendPrepareKeeps ==
    ASSUME TypeInv, TypeInv', CommitInv, UNCHANGED <<serverVars, stream>>, SendPrepare
    PROVE  CommitInv'
<1>a. /\ TableInv /\ CommittedInv /\ MessageInv /\ EntryInv /\ KernelInv
      /\ CountInv /\ PendingInv /\ TurnsInv
  BY DEF CommitInv
<1>d. PICK g, p, m, u, hd : Prepared(g, p, m, u, hd)
  BY SendPrepared
<1>1. /\ g \in Groups /\ p \in Pos /\ hd \in Handle /\ Len(tasks) \in Nat
      /\ u = Len(tasks) + 1 /\ u \notin 1 .. Len(tasks) /\ Len(tasks') = u
      /\ 1 .. Len(tasks') = (1 .. Len(tasks)) \cup {u}
  BY <1>d, TaskFacts DEF Prepared
<1>2. /\ hd.task = u /\ hd.pos = p /\ hd.repeat \in Nat /\ hd.repeat > 0 /\ hd.repeat = m.repeat
      /\ hd.commit \in Nat /\ hd.commit <= hd.repeat
  BY <1>d DEF Prepared
<1>3. \A t \in 1 .. Len(tasks) : tasks'[t] = tasks[t]
  BY <1>d DEF Prepared
<1>4. /\ tasks'[u].group = g /\ tasks'[u].repeat = hd.repeat /\ ~tasks'[u].launched
      /\ tasks'[u].committed = 0 /\ tasks'[u].executed = 0
  BY <1>d DEF Prepared
<1>5. UNCHANGED <<commitTurnCnt, finalized, stream, serverVars>>
  BY <1>d DEF Prepared
<1>6. /\ m.type = "prepare" /\ m.task = u /\ ~InSlot(g, p) /\ InSlot(g, p)'
      /\ sendMsgs'[g][p] = m
      /\ \A g2 \in Groups, q \in Pos : g2 # g \/ q # p =>
           (InSlot(g2, q)' <=> InSlot(g2, q)) /\ sendMsgs'[g2][q] = sendMsgs[g2][q]
  <2>1. /\ m.type = "prepare" /\ m.task = u /\ sendMsgs[g][p] = NoMsg
        /\ sendMsgs' = [sendMsgs EXCEPT ![g][p] = m]
    BY <1>d DEF Prepared
  <2>2. sendMsgs \in [Groups -> [Pos -> Msg]] /\ NoMsg.type # "prepare"
    BY DEF TypeInv, TypeOK, AreaTypeOK, NoMsg
  <2>3. sendMsgs'[g][p] = m
    BY <1>1, <2>1, <2>2
  <2>4. \A g2 \in Groups, q \in Pos : g2 # g \/ q # p => sendMsgs'[g2][q] = sendMsgs[g2][q]
    BY <1>1, <2>1, <2>2
  <2> QED
    BY <1>1, <2>1, <2>2, <2>3, <2>4 DEF InSlot
<1>7. \A g2 \in Groups : /\ InHand(g2)' <=> InHand(g2)
                         /\ rcvMsg'[g2] = rcvMsg[g2] /\ msgPos'[g2] = msgPos[g2]
  BY <1>5 DEF serverVars, InHand
<1>8. /\ \A g2 \in Groups \ {g} : handles'[g2] = handles[g2]
      /\ Len(handles'[g]) = Len(handles[g]) + 1 /\ Len(handles[g]) \in Nat
      /\ handles'[g][Len(handles[g]) + 1] = hd
      /\ \A i \in 1 .. Len(handles[g]) : handles'[g][i] = handles[g][i]
  <2>1. handles' = [handles EXCEPT ![g] = Append(@, hd)]
    BY <1>d DEF Prepared
  <2> QED
    BY <1>1, <2>1, RowAdded, RowFacts
<1>9. \A g2 \in Groups : \A i \in 1 .. Len(handles'[g2]) :
        \/ i \in 1 .. Len(handles[g2]) /\ handles'[g2][i] = handles[g2][i]
        \/ g2 = g /\ i = Len(handles[g]) + 1 /\ handles'[g2][i] = hd
  BY <1>1, <1>8
<1>10. TasksGo /\ PlacesKept
  <2>1. TasksGo
    BY <1>1, <1>3, TaskFacts DEF TasksGo, FullyCommitted
  <2>2. ASSUME NEW g2 \in Groups, NEW q \in Pos, NEW t \in 1 .. Len(tasks), At(g2, q, t)
        PROVE  At(g2, q, t)'
    BY <1>1, <1>2, <1>3, <1>9, <2>2 DEF At
  <2> QED
    BY <2>1, <2>2 DEF PlacesKept
<1>11. At(g, p, u)'
  BY <1>1, <1>2, <1>4, <1>9, RowFacts DEF At
<1>12. TableInv'
  <2>1. /\ curMsgPosition \in [Groups -> 0 .. MsgCnt] /\ MsgCnt \in Nat
        /\ p = curMsgPosition[g] /\ curMsgPosition' = [curMsgPosition EXCEPT ![g] = @ + 1]
    BY <1>d, MsgCntAssumption DEF Prepared, TypeInv, TypeOK, ClientTypeOK
  <2>2. /\ p \in Nat /\ curMsgPosition'[g] = p + 1
        /\ \A g2 \in Groups \ {g} : curMsgPosition'[g2] = curMsgPosition[g2]
    BY <1>1, <2>1
  <2>3. ASSUME NEW g2 \in Groups, NEW i \in 1 .. Len(handles[g2])
        PROVE  /\ tasks[handles[g2][i].task].group = g2
               /\ tasks[handles[g2][i].task].repeat = handles[g2][i].repeat
               /\ handles[g2][i].commit <= handles[g2][i].repeat
               /\ handles[g2][i].pos < curMsgPosition[g2]
               /\ tasks[handles[g2][i].task].committed = handles[g2][i].commit
               /\ handles[g2][i].task \in 1 .. Len(tasks) /\ handles[g2][i].pos \in Nat
    <3>1. ~Committing(g2, i)
      BY <1>d DEF Prepared, Committing
    <3>2. handles[g2][i].task \in 1 .. Len(tasks) /\ handles[g2][i].pos \in Nat
      BY <2>3, RowFacts DEF Pos
    <3> QED
      BY <1>a, <2>3, <3>1, <3>2 DEF TableInv
  <2>4. ASSUME NEW g2 \in Groups, NEW i \in 1 .. Len(handles'[g2])
        PROVE  LET row == handles'[g2][i]
                   t == tasks'[row.task]
               IN /\ t.group = g2 /\ t.repeat = row.repeat
                  /\ row.commit <= row.repeat /\ row.pos < curMsgPosition'[g2]
                  /\ IF Committing(g2, i)' THEN t.committed < row.commit
                                           ELSE t.committed = row.commit
    <3>1. CASE i \in 1 .. Len(handles[g2]) /\ handles'[g2][i] = handles[g2][i]
      <4>1. ~Committing(g2, i)'
        <5>1. pc' = "commit" => call'.group = g /\ call'.handle = Len(handles[g])
          BY <1>d DEF Prepared
        <5>2. Len(handles[g]) \in Nat
          BY <1>8
        <5> QED
          BY <3>1, <5>1, <5>2 DEF Committing
      <4>2. tasks'[handles[g2][i].task] = tasks[handles[g2][i].task]
        BY <1>3, <2>3, <3>1
      <4>3. handles[g2][i].pos < curMsgPosition'[g2]
        <5>1. handles[g2][i].pos < curMsgPosition[g2] /\ handles[g2][i].pos \in Nat
          BY <2>3, <3>1
        <5> QED
          BY <2>1, <2>2, <5>1
      <4> QED
        BY <2>3, <3>1, <4>1, <4>2, <4>3
    <3>2. CASE g2 = g /\ i = Len(handles[g]) + 1 /\ handles'[g2][i] = hd
      <4>1. IF Committing(g, i)' THEN 0 < hd.commit ELSE hd.commit = 0
        <5>1. \/ /\ pc' = "commit" /\ call'.group = g /\ call'.handle = Len(handles[g])
                 /\ hd.commit = hd.repeat
              \/ pc' = "ready" /\ hd.commit = 0
          BY <1>d DEF Prepared
        <5> QED
          BY <1>2, <3>2, <5>1 DEF Committing
      <4> QED
        BY <1>2, <1>4, <2>2, <3>2, <4>1
    <3> QED
      BY <1>9, <3>1, <3>2
  <2>5. ASSUME NEW g2 \in Groups, NEW i \in 1 .. Len(handles'[g2]),
               NEW j \in 1 .. Len(handles'[g2]), i # j
        PROVE  /\ handles'[g2][i].pos # handles'[g2][j].pos
               /\ handles'[g2][i].task # handles'[g2][j].task
    <3>1. \A k \in 1 .. Len(handles[g]) : handles[g][k].pos < p /\ handles[g][k].pos \in Nat
                                          /\ handles[g][k].task # u
      BY <1>1, <2>1, <2>3
    <3>2. \A k \in 1 .. Len(handles[g]) : handles[g][k].pos # hd.pos /\ handles[g][k].task # hd.task
      BY <1>2, <2>2, <3>1
    <3> QED
      BY <1>a, <1>9, <2>5, <3>2 DEF TableInv
  <2> QED
    BY <2>4, <2>5 DEF TableInv
<1>13. CommittedInv'
  <2>1. ASSUME NEW t \in 1 .. Len(tasks), InTable(t) PROVE InTable(t)'
    <3>1. PICK g2 \in Groups : \E i \in 1 .. Len(handles[g2]) : handles[g2][i].task = t
      BY <2>1 DEF InTable
    <3>2. PICK i \in 1 .. Len(handles[g2]) : handles[g2][i].task = t
      BY <3>1
    <3>3. i \in 1 .. Len(handles'[g2]) /\ handles'[g2][i] = handles[g2][i]
      BY <1>8, <3>1, <3>2
    <3> QED
      BY <3>1, <3>2, <3>3 DEF InTable
  <2>2. InTable(u)'
    <3>1. Len(handles[g]) + 1 \in 1 .. Len(handles'[g])
      BY <1>8
    <3> QED
      BY <1>1, <1>2, <1>8, <3>1 DEF InTable
  <2>3. \A t \in 1 .. Len(tasks') : FullyCommitted(t)' \/ InTable(t)'
    BY <1>a, <1>1, <1>3, <2>1, <2>2 DEF CommittedInv, FullyCommitted
  <2>4. \A g2 \in Groups : finalized'[g2] => CommittedAll(g2)'
    <3>1. ~finalized[g]
      BY <1>d DEF Prepared
    <3> QED
      BY <1>a, <1>5, <1>8, <3>1 DEF CommittedInv, CommittedAll
  <2>5. pc' \in {"commit", "ready"}
    BY <1>d DEF Prepared
  <2> QED
    BY <2>3, <2>4, <2>5 DEF CommittedInv
<1>14. MessageInv'
  <2>1. ASSUME NEW g2 \in Groups, NEW q \in Pos, NEW n, NotLaunched(g2, q, n),
               n.task \in 1 .. Len(tasks)
        PROVE  NotLaunched(g2, q, n)'
    BY <1>3, <1>10, <2>1 DEF NotLaunched, PlacesKept
  <2>2. ASSUME NEW g2 \in Groups, NEW q \in Pos, InSlot(g2, q)'
        PROVE  /\ NotLaunched(g2, q, sendMsgs[g2][q])'
               /\ ~(g2 = g /\ q = p) => sendMsgs'[g2][q].task # u
    <3>1. CASE g2 = g /\ q = p
      <4>1. NotLaunched(g, p, m)'
        BY <1>2, <1>4, <1>6, <1>11 DEF NotLaunched, At
      <4> QED
        BY <1>6, <3>1, <4>1 DEF NotLaunched, At
    <3>2. CASE ~(g2 = g /\ q = p)
      <4>1. InSlot(g2, q) /\ sendMsgs'[g2][q] = sendMsgs[g2][q]
        BY <1>6, <2>2, <3>2
      <4> SUFFICES ASSUME NEW n, n = sendMsgs[g2][q]
                   PROVE  NotLaunched(g2, q, n)' /\ n.task # u
        BY <4>1 DEF NotLaunched, At
      <4>2. NotLaunched(g2, q, n) /\ n.task \in 1 .. Len(tasks)
        BY <1>a, <4>1, SlotFacts DEF MessageInv
      <4> QED
        BY <1>1, <2>1, <4>2
    <3> QED
      BY <3>1, <3>2
  <2>3. ASSUME NEW g2 \in Groups, InHand(g2)'
        PROVE  NotLaunched(g2, msgPos[g2], rcvMsg[g2])' /\ rcvMsg'[g2].task # u
    <3>1. InHand(g2) /\ rcvMsg'[g2] = rcvMsg[g2] /\ msgPos'[g2] = msgPos[g2]
      BY <1>7, <2>3
    <3> SUFFICES ASSUME NEW n, n = rcvMsg[g2], NEW q \in Pos, q = msgPos[g2]
                 PROVE  NotLaunched(g2, q, n)' /\ n.task # u
      BY <3>1, SlotFacts DEF NotLaunched, At
    <3>2. NotLaunched(g2, q, n) /\ n.task \in 1 .. Len(tasks)
      BY <1>a, <3>1, SlotFacts DEF MessageInv
    <3> QED
      BY <1>1, <2>1, <3>2
  <2>4. ASSUME NEW g2 \in Groups, NEW q \in Pos, NEW r \in Pos, InSlot(g2, q)', InSlot(g2, r)',
               q # r
        PROVE  sendMsgs'[g2][q].task # sendMsgs'[g2][r].task
    <3>1. CASE g2 = g /\ q = p
      BY <1>6, <2>2, <2>4, <3>1
    <3>2. CASE g2 = g /\ r = p
      BY <1>6, <2>2, <2>4, <3>2
    <3>3. CASE g2 # g \/ (q # p /\ r # p)
      BY <1>a, <1>6, <2>4, <3>3 DEF MessageInv
    <3> QED
      BY <3>1, <3>2, <3>3
  <2>5. ASSUME NEW g2 \in Groups, NEW q \in Pos, InSlot(g2, q)', InHand(g2)'
        PROVE  sendMsgs'[g2][q].task # rcvMsg'[g2].task
    <3>1. CASE g2 = g /\ q = p
      BY <1>6, <2>3, <2>5, <3>1
    <3>2. CASE ~(g2 = g /\ q = p)
      BY <1>a, <1>6, <1>7, <2>5, <3>2 DEF MessageInv
    <3> QED
      BY <3>1, <3>2
  <2> QED
    BY <2>2, <2>3, <2>4, <2>5 DEF MessageInv
<1>15. EntryInv'
  BY <1>a, <1>5, <1>10, EntryKept
<1>16. ASSUME NEW g2 \in Groups PROVE \A j \in 1 .. Len(stream'[g2]) : KernelOK(g2, j)'
  <2> SUFFICES ASSUME NEW d, d = 0 PROVE \A j \in 1 .. Len(stream'[g2]) : KernelOK(g2, j)'
    OBVIOUS
  <2>1. Moved(g2, d)
    BY <1>5, MovedCases
  <2>2. \A k \in 1 .. Len(stream[g2]) : stream[g2][k].type = "kernel"
          => tasks'[stream[g2][k].task].executed < stream[g2][k].val
    <3> SUFFICES ASSUME NEW k \in 1 .. Len(stream[g2]), stream[g2][k].type = "kernel",
                        NEW t2, t2 = stream[g2][k].task
                 PROVE  tasks'[t2].executed < stream[g2][k].val
      OBVIOUS
    <3>1. KernelOK(g2, k) /\ EntryOK(stream[g2][k], g2)
      BY <1>a DEF KernelInv, EntryInv
    <3>2. t2 \in 1 .. Len(tasks)
      BY <3>1 DEF EntryOK
    <3>3. tasks[t2].executed < stream[g2][k].val
      BY <3>1 DEF KernelOK
    <3> QED
      BY <1>3, <3>2, <3>3
  <2> QED
    BY <1>a, <1>10, <2>1, <2>2, KernelMoved
<1>17. ASSUME NEW g2 \in Groups, NEW q \in Pos PROVE CountOK(g2, q)'
  <2>1. CountOK(g2, q)
    BY <1>a DEF CountInv
  <2>2. /\ \A j : NoneBefore(g2, q, j)' <=> NoneBefore(g2, q, j)
        /\ NoneLeft(g2, q)' <=> NoneLeft(g2, q)
        /\ Low(g2, q)' = Low(g2, q)
        /\ \A t \in 1 .. Len(tasks) : Covered(g2, q, t) => Covered(g2, q, t)'
    BY <1>3, <1>5 DEF NoneBefore, NoneLeft, LastWait, Low, Covered, FullyCommitted
  <2>3. ASSUME NEW j \in 1 .. Len(stream'[g2]), stream'[g2][j].type = "waitCommit",
               stream'[g2][j].pos = q, NoneBefore(g2, q, j)'
        PROVE  Covered(g2, q, stream[g2][j].task)'
    <3> SUFFICES ASSUME NEW t, t = stream[g2][j].task PROVE Covered(g2, q, t)'
      BY <1>5 DEF Covered, FullyCommitted
    <3>1. EntryOK(stream[g2][j], g2)
      BY <1>a, <1>5 DEF EntryInv
    <3>2. t \in 1 .. Len(tasks)
      BY <1>5, <2>3, <3>1 DEF EntryOK
    <3>3. Covered(g2, q, t)
      BY <1>5, <2>1, <2>2, <2>3 DEF CountOK
    <3> QED
      BY <2>2, <3>2, <3>3
  <2>4. ASSUME NoneLeft(g2, q)
        PROVE  (IF InHand(g2) /\ msgPos[g2] = q THEN Covered(g2, q, rcvMsg[g2].task)
                ELSE IF InSlot(g2, q) THEN Covered(g2, q, sendMsgs[g2][q].task)
                ELSE Low(g2, q) = 0)'
    <3>1. IF InHand(g2) /\ msgPos[g2] = q THEN Covered(g2, q, rcvMsg[g2].task)
          ELSE IF InSlot(g2, q) THEN Covered(g2, q, sendMsgs[g2][q].task)
          ELSE Low(g2, q) = 0
      BY <2>1, <2>4 DEF CountOK
    <3>2. CASE InHand(g2) /\ msgPos[g2] = q
      <4> SUFFICES ASSUME NEW t, t = rcvMsg[g2].task PROVE Covered(g2, q, t)'
        BY <1>7, <3>2 DEF Covered, FullyCommitted
      <4> QED
        BY <2>2, <3>1, <3>2, SlotFacts
    <3>3. CASE ~(InHand(g2) /\ msgPos[g2] = q) /\ g2 = g /\ q = p
      <4>1. Low(g, p) = 0
        BY <1>6, <3>1, <3>3
      <4>2. Covered(g, p, u)'
        BY <1>4, <2>2, <3>3, <4>1 DEF Covered
      <4> QED
        BY <1>6, <1>7, <3>3, <4>2 DEF Covered, FullyCommitted
    <3>4. CASE ~(InHand(g2) /\ msgPos[g2] = q) /\ ~(g2 = g /\ q = p)
      <4>1. /\ ~(InHand(g2)' /\ msgPos'[g2] = q)
            /\ InSlot(g2, q)' <=> InSlot(g2, q)
            /\ sendMsgs'[g2][q] = sendMsgs[g2][q]
        BY <1>6, <1>7, <3>4
      <4>2. CASE InSlot(g2, q)
        <5> SUFFICES ASSUME NEW t, t = sendMsgs[g2][q].task PROVE Covered(g2, q, t)'
          BY <4>1, <4>2 DEF Covered, FullyCommitted
        <5> QED
          BY <2>2, <3>1, <3>4, <4>2, SlotFacts
      <4>3. CASE ~InSlot(g2, q)
        BY <2>2, <3>1, <3>4, <4>1, <4>3
      <4> QED
        BY <4>2, <4>3
    <3> QED
      BY <3>2, <3>3, <3>4
  <2> QED
    BY <2>2, <2>3, <2>4 DEF CountOK
<1>18. PendingInv'
  <2>1. ASSUME NEW t, Pending(t) PROVE Pending(t)'
    <3>1. PICK g2 \in Groups :
            \/ \E q \in Pos : InSlot(g2, q) /\ sendMsgs[g2][q].task = t
            \/ InHand(g2) /\ rcvMsg[g2].task = t
            \/ \E j \in 1 .. Len(stream[g2]) :
                stream[g2][j].type = "waitCommit" /\ stream[g2][j].last /\ stream[g2][j].task = t
      BY <2>1 DEF Pending
    <3>2. ASSUME NEW q \in Pos, InSlot(g2, q), sendMsgs[g2][q].task = t PROVE Pending(t)'
      <4>1. InSlot(g2, q)' /\ sendMsgs'[g2][q].task = t
        BY <1>6, <3>1, <3>2
      <4> QED
        BY <3>1, <4>1 DEF Pending
    <3>3. CASE InHand(g2) /\ rcvMsg[g2].task = t
      BY <1>7, <3>1, <3>3 DEF Pending
    <3>4. CASE \E j \in 1 .. Len(stream[g2]) :
                stream[g2][j].type = "waitCommit" /\ stream[g2][j].last /\ stream[g2][j].task = t
      BY <1>5, <3>1, <3>4 DEF Pending
    <3> QED
      BY <3>1, <3>2, <3>3, <3>4
  <2>2. Pending(u)'
    BY <1>1, <1>6 DEF Pending
  <2> QED
    BY <1>a, <1>1, <1>3, <2>1, <2>2 DEF PendingInv, FullyCommitted
<1>19. TurnsInv'
  BY <1>a, <1>1, <1>2, <1>3, <1>4 DEF TurnsInv
<1> QED
  BY <1>12, <1>13, <1>14, <1>15, <1>16, <1>17, <1>18, <1>19 DEF CommitInv, KernelInv, CountInv

LEMMA CommitStep == TypeInv /\ PlaceInv /\ CommitInv /\ [Next]_vars => CommitInv'
<1> SUFFICES ASSUME TypeInv, PlaceInv, CommitInv, [Next]_vars PROVE CommitInv'
  OBVIOUS
<1>a. TypeInv' /\ CommittedInv /\ RetryInv
  BY TypeStep DEF CommitInv, PlaceInv
<1>1. CASE ClientNext
  <2>1. UNCHANGED <<serverVars, stream>>
    BY <1>1 DEF ClientNext
  <2>2. CASE QuietClient
    BY <1>a, <2>1, <2>2, ClientQuiet, CommitQuiet
  <2>3. CASE \E g \in Groups, h \in Handles : Commit(g, h)
    BY <1>a, <2>1, <2>3, CommitKeeps
  <2>4. CASE CommitWrite
    BY <1>a, <2>1, <2>4, CommitWriteKeeps
  <2>5. CASE SendPrepare
    BY <1>a, <2>1, <2>5, SendPrepareKeeps
  <2>6. CASE NextLaunch
    BY <1>a, <2>1, <2>6, NextLaunchKeeps
  <2> QED
    BY <1>1, <2>2, <2>3, <2>4, <2>5, <2>6 DEF ClientNext, CallApi, ContinueCall, QuietClient
<1>2. CASE ServerNext
  <2>1. UNCHANGED clientVars
    BY <1>2 DEF ServerNext
  <2>2. CASE RestartServer \/ \E g \in Groups : QuietVisit(g)
    BY <1>a, <2>1, <2>2, ServerQuiet, CommitQuiet
  <2>3. CASE \E g \in Groups : PrepareProcess(g)
    BY <1>a, <2>1, <2>3, PrepareProcessKeeps
  <2>4. CASE \E g \in Groups : PrepareRetry(g)
    BY <1>a, <2>1, <2>4, PrepareRetryKeeps
  <2> QED
    BY <1>2, <2>2, <2>3, <2>4 DEF ServerNext, GroupServerProcess, QuietVisit
<1>3. ASSUME NEW g \in Groups, StreamNext(g) PROVE CommitInv'
  <2>1. CASE WaitFinish(g) \/ PostFinish(g)
    BY <1>a, <2>1, StreamQuiet, CommitQuiet
  <2>2. CASE WaitCommit(g)
    BY <1>a, <2>2, WaitCommitKeeps
  <2>3. CASE RunKernel(g)
    BY <1>a, <2>3, RunKernelKeeps
  <2> QED
    BY <1>3, <2>1, <2>2, <2>3 DEF StreamNext
<1>4. CASE UNCHANGED vars
  <2>1. /\ UNCHANGED <<clientVars, serverVars, tasks, sendMsgs, commitTurnCnt>>
        /\ stream' = stream
    BY <1>4 DEF vars, areaVars
  <2>2. TasksKept /\ RunsKept /\ MessagesKept
    BY <2>1, QuietTasks, QuietSlots
  <2>3. RowsKept
    BY <2>1, ClientRows
  <2> QED
    BY <1>a, <2>1, <2>2, <2>3, CommitQuiet DEF Quiet, clientVars, CommittedInv
<1> QED
  BY <1>1, <1>2, <1>3, <1>4 DEF Next, Terminated

LEMMA CommitInit == Init => CommitInv
<1> SUFFICES ASSUME Init PROVE CommitInv
  OBVIOUS
<1>1. /\ pc = "ready" /\ Len(tasks) = 0
      /\ \A g \in Groups : /\ retryCnt[g] = 0 /\ ~finalized[g]
                           /\ Len(handles[g]) = 0 /\ Len(stream[g]) = 0
                           /\ \A p \in Pos : sendMsgs[g][p] = NoMsg /\ commitTurnCnt[g][p] = 0
  BY DEF Init, InitArea, InitClient, InitServer, InitStream, FreshServer, PerGroup, PerPos,
         Api!Init
<1>2. TableInv /\ CommittedInv /\ PendingInv /\ TurnsInv
  BY <1>1 DEF TableInv, CommittedInv, CommittedAll, PendingInv, TurnsInv
<1>3. EntryInv /\ KernelInv
  BY <1>1 DEF EntryInv, KernelInv
<1>4. \A g \in Groups : ~InHand(g) /\ \A p \in Pos : ~InSlot(g, p)
  BY <1>1 DEF InSlot, InHand, NoMsg
<1>5. MessageInv
  BY <1>4 DEF MessageInv
<1>6. \A g \in Groups, p \in Pos : Low(g, p) = 0
  BY <1>1 DEF Low, LoadHalf, Half
<1>7. CountInv
  BY <1>1, <1>4, <1>6 DEF CountInv, CountOK
<1> QED
  BY <1>2, <1>3, <1>5, <1>7 DEF CommitInv

LEMMA CommitInvariant == Spec => [](TypeInv /\ CommitInv)
<1>1. TypeInv /\ PlaceInv /\ CommitInv /\ [Next]_vars => CommitInv'
  BY CommitStep
<1> QED
  BY <1>1, CommitInit, PlaceInvariant, PTL DEF Spec

\* The counts of the area outlive a launch, and Commit adds to one in two writes
\* (hccl_impl.h): still the stream's wait for a turn (comm_kfc_aicpu_server.cc)
\* never passes on what another task, or another launch, left there, so that no
\* turn runs that was not committed.
THEOREM ExecutedIsCommittedCorrect == Spec => []ExecutedIsCommitted
<1>1. TypeInv /\ CommitInv => ExecutedIsCommitted
  BY TaskFacts DEF CommitInv, TurnsInv, ExecutedIsCommitted
<1> QED
  BY <1>1, CommitInvariant, PTL

----------------------------------------------------------------------------
(* Shared with the proofs of the other server (KfcV2Proofs).                *)

\* An extension belongs to the message at its position, or to the call under way.
ExtAhead(g, p) ==
    pc = "send" /\ call.group = g /\ curMsgPosition[g] = p
        /\ call.msg.type = "prepare" /\ call.msg.ext
ExtInv ==
    /\ pc = "ext" => call.msg.ext
    /\ \A g \in Groups, p \in Pos : paramExt[g][p] => sendMsgs[g][p].ext \/ ExtAhead(g, p)

LEMMA ExtClient == ASSUME TypeInv, ExtInv, ClientNext PROVE ExtInv'
<1>a. /\ call.group \in Groups /\ paramExt \in [Groups -> [Pos -> BOOLEAN]]
      /\ sendMsgs \in [Groups -> [Pos -> Msg]] /\ call.msg \in Msg
      /\ NoMsg.ext = FALSE
  BY DEF TypeInv, TypeOK, ClientTypeOK, AreaTypeOK, Call, NoMsg
<1>1. ASSUME UNCHANGED <<sendMsgs, paramExt>>, pc # "send", pc' # "ext" PROVE ExtInv'
  BY <1>1 DEF ExtInv, ExtAhead
<1>2. ASSUME NEW g, NEW r, NEW ext, NEW commit, Prepare(g, r, ext, commit) PROVE ExtInv'
  <2>1. /\ UNCHANGED <<sendMsgs, paramExt>> /\ pc = "ready" /\ call'.msg.ext = ext
        /\ pc' = FirstStep(ext)
    BY <1>2 DEF Prepare, areaVars, ApiCall, NoMsg
  <2>2. pc' = "ext" => call'.msg.ext
    BY <2>1 DEF FirstStep
  <2> QED
    BY <2>1, <2>2 DEF ExtInv, ExtAhead
<1>3. CASE CallApi
  <2>1. ASSUME NEW g, PrepareRefused(g) PROVE ExtInv'
    BY <1>1, <2>1 DEF PrepareRefused, areaVars
  <2>2. ASSUME NEW g, NEW g2, NEW h, InterHcclGroupSync(g, g2, h) PROVE ExtInv'
    BY <1>1, <2>2 DEF InterHcclGroupSync, areaVars
  <2>3. ASSUME NEW g, NEW h, Commit(g, h) \/ Wait(g, h) PROVE ExtInv'
    BY <1>1, <2>3 DEF Commit, Wait, areaVars
  <2>4. ASSUME NEW g, NEW sync, Finalize(g, sync) PROVE ExtInv'
    BY <1>1, <2>4 DEF Finalize, areaVars
  <2>5. CASE NextLaunch
    BY <1>1, <2>5 DEF NextLaunch, areaVars
  <2> QED
    BY <1>2, <1>3, <2>1, <2>2, <2>3, <2>4, <2>5 DEF CallApi
<1>4. CASE SendExt
  <2>1. /\ pc = "ext" /\ pc' = "send" /\ call' = call /\ call.msg.type = "prepare"
        /\ call.msg.ext
        /\ paramExt' = [paramExt EXCEPT ![call.group][curMsgPosition[call.group]] = TRUE]
        /\ UNCHANGED <<sendMsgs, curMsgPosition>>
    BY <1>4 DEF SendExt, GoOn, TypeInv, CallOK, ExtInv
  <2> SUFFICES ASSUME NEW g \in Groups, NEW p \in Pos, paramExt'[g][p]
               PROVE  sendMsgs'[g][p].ext \/ ExtAhead(g, p)'
    BY <2>1 DEF ExtInv
  <2>2. CASE g = call.group /\ p = curMsgPosition[g]
    BY <2>1, <2>2 DEF ExtAhead
  <2>3. CASE ~(g = call.group /\ p = curMsgPosition[g])
    <3>1. paramExt[g][p]
      BY <1>a, <2>1, <2>3
    <3> QED
      BY <2>1, <3>1 DEF ExtInv, ExtAhead
  <2> QED
    BY <2>2, <2>3
<1>5. ASSUME NEW g, g = call.group, NEW m, NEW q, q = curMsgPosition[g],
             pc = "send", pc' \notin {"send", "ext"}, UNCHANGED paramExt,
             sendMsgs[g][q] = NoMsg, sendMsgs' = [sendMsgs EXCEPT ![g][q] = m],
             call.msg.type = "prepare" => m.ext = call.msg.ext
      PROVE  ExtInv'
  <2> SUFFICES ASSUME NEW g2 \in Groups, NEW p \in Pos, paramExt[g2][p]
               PROVE  sendMsgs'[g2][p].ext
    BY <1>5 DEF ExtInv
  <2>1. sendMsgs[g2][p].ext \/ ExtAhead(g2, p)
    BY DEF ExtInv
  <2>2. CASE g2 = g /\ p = q
    <3>1. ExtAhead(g, q)
      BY <1>5, <1>a, <2>1, <2>2
    <3> QED
      BY <1>5, <1>a, <2>2, <3>1 DEF ExtAhead
  <2>3. CASE ~(g2 = g /\ p = q)
    <3>1. ~ExtAhead(g2, p)
      BY <1>5, <2>3 DEF ExtAhead
    <3>2. sendMsgs'[g2][p] = sendMsgs[g2][p]
      BY <1>5, <1>a, <2>3
    <3> QED
      BY <2>1, <3>1, <3>2
  <2> QED
    BY <2>2, <2>3
<1>6. CASE SendPrepare
  <2> SUFFICES ASSUME NEW m, m = [call.msg EXCEPT !.seq = primitiveId, !.task = Len(tasks) + 1]
               PROVE  ExtInv'
    OBVIOUS
  <2>1. m.ext = call.msg.ext
    BY <1>a DEF Msg
  <2>2. /\ pc = "send" /\ UNCHANGED paramExt /\ pc' \in {"commit", "ready"}
        /\ sendMsgs[call.group][curMsgPosition[call.group]] = NoMsg
        /\ sendMsgs' = [sendMsgs EXCEPT ![call.group][curMsgPosition[call.group]] = m]
    BY <1>6 DEF SendPrepare, PutMsg, Return
  <2> QED
    BY <1>5, <2>1, <2>2
<1>7. CASE SendSync \/ SendFinalize
  <2>1. /\ pc = "send" /\ UNCHANGED paramExt /\ pc' \in {"finDone", "ready"}
        /\ sendMsgs[call.group][curMsgPosition[call.group]] = NoMsg
        /\ sendMsgs' = [sendMsgs EXCEPT ![call.group][curMsgPosition[call.group]] = call.msg]
    BY <1>7 DEF SendSync, SendFinalize, PutMsg, Return, GoOn
  <2> QED
    BY <1>5, <2>1
<1>8. CASE CommitWrite \/ WaitReturn \/ FinalizeQueried \/ FinalizeDone
  <2>1. UNCHANGED <<sendMsgs, paramExt>> /\ pc # "send" /\ pc' # "ext"
    BY <1>8 DEF CommitWrite, WaitReturn, FinalizeQueried, FinalizeDone, GoOn, Return, areaVars
  <2> QED
    BY <1>1, <2>1
<1> QED
  BY <1>3, <1>4, <1>6, <1>7, <1>8 DEF ClientNext, ContinueCall

LEMMA ExtTaken ==
    ASSUME TypeInv, ExtInv, UNCHANGED clientVars, NEW g \in Groups, TakeMsg(g) PROVE ExtInv'
<1>a. /\ paramExt \in [Groups -> [Pos -> BOOLEAN]] /\ sendMsgs \in [Groups -> [Pos -> Msg]]
      /\ msgPos[g] \in Pos
  BY DEF TypeInv, TypeOK, AreaTypeOK, ServerTypeOK
<1>1. CASE UNCHANGED <<sendMsgs, paramExt>>
  BY <1>1 DEF ExtInv, ExtAhead, clientVars
<1>2. CASE /\ sendMsgs' = [sendMsgs EXCEPT ![g][msgPos[g]] = NoMsg]
           /\ paramExt' = [paramExt EXCEPT ![g][msgPos[g]] = @ /\ ~sendMsgs[g][msgPos[g]].ext]
  <2> SUFFICES ASSUME NEW g2 \in Groups, NEW p \in Pos, paramExt'[g2][p]
               PROVE  sendMsgs'[g2][p].ext \/ ExtAhead(g2, p)
    BY DEF ExtInv, ExtAhead, clientVars
  <2>1. CASE g2 = g /\ p = msgPos[g]
    <3>1. paramExt[g][p] /\ ~sendMsgs[g][p].ext
      BY <1>2, <1>a, <2>1
    <3> QED
      BY <2>1, <3>1 DEF ExtInv
  <2>2. CASE ~(g2 = g /\ p = msgPos[g])
    <3>1. paramExt[g2][p] /\ sendMsgs'[g2][p] = sendMsgs[g2][p]
      BY <1>2, <1>a, <2>2
    <3> QED
      BY <3>1 DEF ExtInv
  <2> QED
    BY <2>1, <2>2
<1> QED
  BY <1>1, <1>2 DEF TakeMsg, CurrentMsg

\* The rows of the tables are of the tasks of this launch, those after b.
TableNumbers(b) == \A t \in 1 .. Len(tasks) : InTable(t) <=> t > b

\* The tasks launched are the first n.
LaunchedTo(n) == \A t \in 1 .. Len(tasks) : tasks[t].launched <=> t <= n

\* There are never more rows than handles.
RoomInv == \A g \in Groups : Len(handles[g]) <= MaxHandle

LEMMA RowMarked ==
    ASSUME TypeInv, NEW g \in Groups, NEW h \in Handles, Commit(g, h) \/ Wait(g, h),
           NEW k, k = h + 1
    PROVE  /\ k \in 1 .. Len(handles[g])
           /\ \A g2 \in Groups :
                /\ Len(handles'[g2]) = Len(handles[g2])
                /\ \A i \in 1 .. Len(handles[g2]) :
                    /\ handles'[g2][i].pos = handles[g2][i].pos
                    /\ handles'[g2][i].repeat = handles[g2][i].repeat
                    /\ handles'[g2][i].task = handles[g2][i].task
                    /\ handles'[g2][i].wait = IF Wait(g, h) /\ g2 = g /\ i = k
                                              THEN handles[g2][i].wait + 1
                                              ELSE handles[g2][i].wait
<1>d. SUFFICES ASSUME NEW old, old = handles[g][k],
                      NEW hd1, hd1 = [old EXCEPT !.commit = @ + 1],
                      NEW hd2, hd2 = [old EXCEPT !.wait = @ + 1]
               PROVE  /\ k \in 1 .. Len(handles[g])
                      /\ \A g2 \in Groups :
                            /\ Len(handles'[g2]) = Len(handles[g2])
                            /\ \A i \in 1 .. Len(handles[g2]) :
                                /\ handles'[g2][i].pos = handles[g2][i].pos
                                /\ handles'[g2][i].repeat = handles[g2][i].repeat
                                /\ handles'[g2][i].task = handles[g2][i].task
                                /\ handles'[g2][i].wait = IF Wait(g, h) /\ g2 = g /\ i = k
                                                          THEN handles[g2][i].wait + 1
                                                          ELSE handles[g2][i].wait
  OBVIOUS
<1>1. /\ h < Len(handles[g])
      /\ \/ Wait(g, h) /\ handles' = [handles EXCEPT ![g][k] = hd2]
         \/ ~Wait(g, h) /\ handles' = [handles EXCEPT ![g][k] = hd1]
  <2>1. CASE Wait(g, h)
    BY <1>d, <2>1 DEF Wait
  <2>2. CASE Commit(g, h) /\ ~Wait(g, h)
    <3>1. h < Len(handles[g]) /\ handles' = [handles EXCEPT ![g][k] = hd1]
      BY <1>d, <2>2 DEF Commit
    <3> QED
      BY <2>2, <3>1
  <2> QED
    BY <2>1, <2>2
<1>2. k \in 1 .. Len(handles[g]) /\ old \in Handle
  BY <1>d, <1>1, ConstantFacts, RowFacts
<1>3. /\ hd1 \in Handle /\ hd1.pos = old.pos /\ hd1.task = old.task /\ hd1.repeat = old.repeat
      /\ hd1.wait = old.wait
      /\ hd2 \in Handle /\ hd2.pos = old.pos /\ hd2.task = old.task /\ hd2.repeat = old.repeat
      /\ hd2.wait = old.wait + 1
  <2>1. /\ hd1 \in Handle /\ hd1.pos = old.pos /\ hd1.task = old.task
        /\ hd1.repeat = old.repeat /\ hd1.wait = old.wait
    BY <1>d, <1>2 DEF Handle
  <2>2. /\ hd2 \in Handle /\ hd2.pos = old.pos /\ hd2.task = old.task
        /\ hd2.repeat = old.repeat /\ hd2.wait = old.wait + 1
    <3>1. old.wait + 1 \in Nat
      BY <1>2 DEF Handle
    <3> QED
      BY <1>d, <1>2, <3>1 DEF Handle
  <2> QED
    BY <2>1, <2>2
<1>4. ASSUME NEW hd \in {hd1, hd2}, handles' = [handles EXCEPT ![g][k] = hd]
      PROVE  /\ \A g2 \in Groups : Len(handles'[g2]) = Len(handles[g2])
             /\ \A g2 \in Groups \ {g} : handles'[g2] = handles[g2]
             /\ handles'[g][k] = hd
             /\ \A i \in 1 .. Len(handles[g]) : i # k => handles'[g][i] = handles[g][i]
  <2>1. hd \in Handle
    BY <1>3
  <2> QED
    BY <1>2, <1>4, <2>1, RowChanged
<1>5. ASSUME NEW g2 \in Groups
      PROVE  /\ Len(handles'[g2]) = Len(handles[g2])
             /\ \A i \in 1 .. Len(handles[g2]) :
                  /\ handles'[g2][i].pos = handles[g2][i].pos
                  /\ handles'[g2][i].repeat = handles[g2][i].repeat
                  /\ handles'[g2][i].task = handles[g2][i].task
                  /\ handles'[g2][i].wait = IF Wait(g, h) /\ g2 = g /\ i = k
                                            THEN handles[g2][i].wait + 1
                                            ELSE handles[g2][i].wait
  <2>1. /\ Len(handles'[g2]) = Len(handles[g2])
        /\ \A i \in 1 .. Len(handles[g2]) :
             g2 # g \/ i # k => handles'[g2][i] = handles[g2][i]
    BY <1>1, <1>4
  <2>2. CASE Wait(g, h)
    <3>1. handles'[g][k] = hd2
      BY <1>1, <1>4, <2>2
    <3>2. hd2.wait = handles[g][k].wait + 1
      BY <1>d, <1>3
    <3> QED
      BY <1>d, <1>3, <2>1, <2>2, <3>1, <3>2
  <2>3. CASE ~Wait(g, h)
    <3>1. handles'[g][k] = hd1
      BY <1>1, <1>4, <2>3
    <3> QED
      BY <1>d, <1>3, <2>1, <2>3, <3>1
  <2> QED
    BY <2>2, <2>3
<1> QED
  BY <1>2, <1>5

\* The rows have room for the tasks of a launch, so that its numbers differ.
LEMMA Room ==
    ASSUME TypeInv, RoomInv, NGroups * MaxHandle <= SeqMod, NEW b \in 0 .. Len(tasks),
           TableNumbers(b), NEW g \in Groups, Len(handles[g]) < MaxHandle
    PROVE  Len(tasks) - b < SeqMod
<1>a. /\ Len(tasks) \in Nat /\ SeqMod \in Nat /\ MaxHandle \in Nat /\ NGroups \in Nat
      /\ \A g2 \in Groups : Len(handles[g2]) \in Nat
  BY TaskFacts, RowFacts, SeqModAssumption, MaxHandleAssumption, NGroupsAssumption
<1> DEFINE S == b + 1 .. Len(tasks)
           R == Groups \X (1 .. MaxHandle)
           x == <<g, Len(handles[g]) + 1>>
           Row(t) == CHOOSE y \in R \ {x} : /\ y[2] \in 1 .. Len(handles[y[1]])
                                            /\ handles[y[1]][y[2]].task = t
           f == [t \in S |-> Row(t)]
<1>d. SUFFICES ASSUME NEW size, size = NGroups * MaxHandle, Len(tasks) - b >= SeqMod
               PROVE  FALSE
  BY <1>a
<1>e. ASSUME NEW lo \in Int, NEW hi \in Int, lo <= hi + 1
      PROVE  IsFiniteSet(lo .. hi) /\ Cardinality(lo .. hi) = hi - lo + 1
  BY <1>e, FS_Interval
<1>1. /\ IsFiniteSet(S) /\ Cardinality(S) = Len(tasks) - b
  <2>1. b + 1 \in Int /\ Len(tasks) \in Int /\ b + 1 <= Len(tasks) + 1
    BY <1>a
  <2>2. IsFiniteSet(S) /\ Cardinality(S) = Len(tasks) - (b + 1) + 1
    BY <1>e, <2>1
  <2> QED
    BY <1>a, <2>2
<1>2. IsFiniteSet(R) /\ Cardinality(R) = size
  <2>0. ASSUME NEW lo, lo = 0, NEW one, one = 1
        PROVE  /\ IsFiniteSet(Groups) /\ Cardinality(Groups) = NGroups
               /\ IsFiniteSet(1 .. MaxHandle) /\ Cardinality(1 .. MaxHandle) = MaxHandle
    <3>1. lo \in Int /\ NGroups - 1 \in Int /\ lo <= (NGroups - 1) + 1
      BY <1>a, <2>0
    <3>2. IsFiniteSet(lo .. NGroups - 1) /\ Cardinality(lo .. NGroups - 1) = (NGroups - 1) - lo + 1
      BY <1>e, <3>1
    <3>3. one \in Int /\ MaxHandle \in Int /\ one <= MaxHandle + 1
      BY <1>a, <2>0
    <3>4. IsFiniteSet(one .. MaxHandle) /\ Cardinality(one .. MaxHandle) = MaxHandle - one + 1
      BY <1>e, <3>3
    <3> QED
      BY <1>a, <2>0, <3>2, <3>4 DEF Groups
  <2>1. /\ IsFiniteSet(Groups) /\ Cardinality(Groups) = NGroups
        /\ IsFiniteSet(1 .. MaxHandle) /\ Cardinality(1 .. MaxHandle) = MaxHandle
    BY <2>0
  <2>2. ASSUME NEW H, IsFiniteSet(H), Cardinality(H) = MaxHandle
        PROVE  IsFiniteSet(Groups \X H) /\ Cardinality(Groups \X H) = NGroups * MaxHandle
    BY <2>1, <2>2, FS_Product
  <2> QED
    BY <1>d, <2>1, <2>2
<1>3. IsFiniteSet(R \ {x}) /\ Cardinality(R \ {x}) = size - 1
  <2>1. x \in R
    BY <1>a, <1>d
  <2> HIDE DEF R, x
  <2> QED
    BY <1>2, <2>1, FS_RemoveElement
<1>4. size \in Nat /\ size <= SeqMod
  BY <1>a, <1>d
<1>5. \A t \in S : /\ f[t] \in R \ {x} /\ f[t][2] \in 1 .. Len(handles[f[t][1]])
                   /\ handles[f[t][1]][f[t][2]].task = t
  <2> SUFFICES ASSUME NEW t \in S
               PROVE  \E y \in R \ {x} : y[2] \in 1 .. Len(handles[y[1]])
                                         /\ handles[y[1]][y[2]].task = t
    <3> HIDE DEF R, x
    <3> QED
      OBVIOUS
  <2>1. PICK g2 \in Groups : \E i \in 1 .. Len(handles[g2]) : handles[g2][i].task = t
    BY <1>a, <1>d DEF TableNumbers, InTable
  <2>2. PICK i \in 1 .. Len(handles[g2]) : handles[g2][i].task = t
    BY <2>1
  <2>3. <<g2, i>> \in R /\ <<g2, i>> # x
    BY <1>a, <1>d, <2>2 DEF RoomInv
  <2> QED
    BY <2>2, <2>3
<1>6. f \in [S -> R \ {x}]
  <2> HIDE DEF R, x, Row
  <2> QED
    BY <1>5
<1>7. Cardinality(R \ {x}) < Cardinality(S)
  BY <1>a, <1>1, <1>3, <1>4, <1>d
<1>8. PICK t, u \in S : t # u /\ f[t] = f[u]
  <2> HIDE DEF R, x, f, S
  <2> QED
    BY <1>1, <1>3, <1>6, <1>7, FS_PigeonHole
<1>9. handles[f[t][1]][f[t][2]].task = t /\ handles[f[u][1]][f[u][2]].task = u
  <2> HIDE DEF R, x, f, S
  <2> QED
    BY <1>5
<1> QED
  <2> HIDE DEF f
  <2> QED
    BY <1>8, <1>9
=============================================================================
