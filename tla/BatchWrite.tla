------------------------------ MODULE BatchWrite ------------------------------
(***************************************************************************)
(* BatchWrite on several AICPU threads (aicpu_kfc_batchwrite_process.cc).   *)
(* The kernel starts on a number of blocks: the first becomes the master,   *)
(* which reads the messages, and the next on the preferred cluster slaves,  *)
(* which take each message from a ring of the master's and post the items   *)
(* whose rank falls to them.  The master reports a message finished when    *)
(* the counts the threads stored add up.                                    *)
(*                                                                          *)
(* A thread reads or writes one shared variable per step.  Messages are     *)
(* numbered over all launches; the item list of a message is the sequence   *)
(* of its remote ranks, 0 being the own rank, and stays as it is.           *)
(***************************************************************************)
EXTENDS Naturals, Sequences, FiniteSets

CONSTANTS
    MaxThreads,     \* MAX_BATCH_WRITE_THREAD_NUM
    Capacity,       \* DEFAULT_CAPACITY of the ring
    NumBlocks,      \* blocks the kernel is launched on
    CntMod,         \* 2^8: width of needSendTotalNum
    SlowPeek,       \* a Peek may last while the ring goes round once
    Ranks, MaxItems,    \* bounds: ranks of items, items of a message
    MaxMsgs,        \* bound: BatchWrite messages, over all launches
    Launches        \* bound: launches of the kernel

ASSUME ThreadsAssumption == MaxThreads \in Nat \ {0} /\ NumBlocks \in Nat \ {0}
ASSUME RingAssumption == Capacity \in Nat \ {0, 1} /\ SlowPeek \in BOOLEAN
ASSUME ItemsAssumption == CntMod \in Nat \ {0} /\ Ranks \subseteq Nat /\ MaxItems \in Nat
ASSUME BatchBounds == MaxMsgs \in Nat /\ Launches \in Nat \ {0}

VARIABLES
    startedThreadNum, workedThreadNum, taskFinishFlag, sendWqeNum,  \* g_sharedCtx
    head, tail, buffer,     \* g_hcclMsgQueue
    opThreadIdx,            \* blocks counted by GetVerifiedServerRole
    thread,                 \* where each thread is, and its local variables
    arrived, launch,        \* blocks started in this launch, launches so far
    batch, posted,          \* history: item lists of the messages, posts of each item
    completed               \* history: messages reported by WriteTurnCnt

sharedCtx == <<startedThreadNum, workedThreadNum, taskFinishFlag, sendWqeNum>>
ring      == <<head, tail, buffer>>
kernel    == <<opThreadIdx, arrived, launch>>
history   == <<batch, posted, completed>>
vars      == <<sharedCtx, ring, kernel, thread, history>>

Master == 0
Slaves == 1 .. MaxThreads - 1
Threads == {Master} \cup Slaves
Own == 0        \* items for the own rank are skipped
\* In sorted order only: the threads pick out their items in any case.
Batches == {items \in UNION {[1 .. n -> Ranks] : n \in 1 .. MaxItems} :
                \A i \in 1 .. Len(items) - 1 : items[i] <= items[i + 1]}

\* pc, and the locals: the message and its sequence number as read, the next
\* item, WQEs sent, head as Peek read it, sendSeqNum.
At(pc) == [pc |-> pc, msg |-> 0, seq |-> 0, item |-> 0, cnt |-> 0, idx |-> 0, last |-> 0]

Set(t, r) == thread' = [thread EXCEPT ![t] = r]
Goto(t, pc) == thread' = [thread EXCEPT ![t].pc = pc]

Init ==
    /\ startedThreadNum = 0 /\ workedThreadNum = 0 /\ taskFinishFlag = FALSE
    /\ sendWqeNum = [t \in Threads |-> 0]
    /\ head = 0 /\ tail = 0 /\ buffer = [i \in 0 .. Capacity - 1 |-> 0]
    /\ opThreadIdx = 0 /\ arrived = 0 /\ launch = 1
    /\ thread = [t \in Threads |-> At("none")]
    /\ batch = <<>> /\ posted = <<>> /\ completed = {}

----------------------------------------------------------------------------
(* GetVerifiedServerRole, under its mutex.                                  *)

Arrive ==
    /\ arrived < NumBlocks
    /\ arrived' = arrived + 1
    /\ opThreadIdx' = IF opThreadIdx + 1 = NumBlocks THEN 0 ELSE opThreadIdx + 1
    /\ UNCHANGED <<workedThreadNum, buffer, launch, history>>

\* A mutant of Clear: the ring is taken over as the last launch left it.
KeepRing == UNCHANGED <<head, tail>>
Clear == head' = 0 /\ tail' = 0

\* InitMultiThreadSharedCtx: workedThreadNum is kept.
StartMaster ==
    /\ Arrive /\ opThreadIdx = 0
    /\ startedThreadNum' = 1
    /\ Clear
    /\ taskFinishFlag' = FALSE
    /\ sendWqeNum' = [sendWqeNum EXCEPT ![Master] = 0]
    /\ Set(Master, At("read"))

StartSlave ==
    /\ Arrive /\ opThreadIdx # 0 /\ startedThreadNum < MaxThreads
    /\ startedThreadNum' = startedThreadNum + 1
    /\ sendWqeNum' = [sendWqeNum EXCEPT ![startedThreadNum] = 0]
    /\ Set(startedThreadNum, At("loop"))
    /\ UNCHANGED <<taskFinishFlag, head, tail>>

\* A block on the other cluster, or one too many.
StartInvalid == Arrive /\ opThreadIdx # 0 /\ UNCHANGED <<sharedCtx, head, tail, thread>>

\* The blocks have returned, and the kernel of the next operator starts.
Returned(t) == thread[t].pc \in {"none", "done", "failed"}

NextLaunch ==
    /\ arrived = NumBlocks /\ \A t \in Threads : Returned(t)
    /\ launch < Launches
    /\ launch' = launch + 1 /\ arrived' = 0
    /\ thread' = [t \in Threads |-> At("none")]
    /\ UNCHANGED <<sharedCtx, ring, opThreadIdx, history>>

----------------------------------------------------------------------------
(* ConcurrentPostSendWqe, the same for the master and a slave.              *)

Mine(t) == LET rank == batch[thread[t].msg][thread[t].item]
           IN rank # Own /\ rank % workedThreadNum = t

MoreItems(t) == thread[t].pc = "post" /\ thread[t].item <= Len(batch[thread[t].msg])

NextItem(t) ==
    /\ MoreItems(t)
    /\ IF Mine(t)
       THEN /\ posted' = [posted EXCEPT ![thread[t].msg][thread[t].item] = @ + 1]
            /\ thread' = [thread EXCEPT ![t].item = @ + 1, ![t].cnt = @ + 1]
       ELSE thread' = [thread EXCEPT ![t].item = @ + 1] /\ UNCHANGED posted
    /\ UNCHANGED <<sharedCtx, ring, kernel, batch, completed>>

\* CHK_RET(PostSend): the thread returns at once.
PostSendFails(t) ==
    /\ MoreItems(t) /\ Mine(t)
    /\ Set(t, At("failed"))
    /\ UNCHANGED <<sharedCtx, ring, kernel, history>>

StoreSendWqeNum(t) ==
    /\ thread[t].pc = "post" /\ ~MoreItems(t)
    /\ sendWqeNum' = [sendWqeNum EXCEPT ![t] = thread[t].cnt]
    /\ Set(t, IF t = Master THEN [At("count") EXCEPT !.msg = thread[t].msg]
              ELSE [At("loop") EXCEPT !.last = thread[t].seq])
    /\ UNCHANGED <<startedThreadNum, workedThreadNum, taskFinishFlag, ring, kernel, history>>

Post(t) == NextItem(t) \/ PostSendFails(t) \/ StoreSendWqeNum(t)

----------------------------------------------------------------------------
(* The master: RunRpcServerApi and HandleBatchWriteOperation.               *)

\* A mutant of WorkedThreads: the threads that may exist, not those that do.
AllThreads == MaxThreads
WorkedThreads == startedThreadNum

ReadMsg ==
    /\ thread[Master].pc = "read" /\ Len(batch) < MaxMsgs
    /\ \E items \in Batches :
        /\ batch' = Append(batch, items)
        /\ posted' = Append(posted, [i \in DOMAIN items |-> 0])
    /\ workedThreadNum' = WorkedThreads
    /\ Set(Master, [At(IF WorkedThreads > 1 THEN "enqueue" ELSE "post")
                      EXCEPT !.msg = Len(batch) + 1, !.item = 1])
    /\ UNCHANGED <<startedThreadNum, taskFinishFlag, sendWqeNum, ring, kernel, completed>>

\* Without SlowPeek, no thread is still reading the slot when the ring comes
\* back to it.
InPeek(s) == thread[s].pc \in {"tail", "payload", "seq", "check"}

Enqueue ==
    /\ thread[Master].pc = "enqueue"
    /\ (tail + 1) % Capacity # head
    /\ SlowPeek \/ \A s \in Slaves : InPeek(s) => thread[s].idx # tail
    /\ buffer' = [buffer EXCEPT ![tail] = thread[Master].msg]
    /\ tail' = (tail + 1) % Capacity
    /\ Goto(Master, "post")
    /\ UNCHANGED <<sharedCtx, head, kernel, history>>

NeedSendTotalNum(m) == Cardinality({i \in DOMAIN batch[m] : batch[m][i] # Own}) % CntMod

\* sendNum of WaitForSlaveCompletion, after n turns of its loop.
SendNum[n \in 0 .. MaxThreads] == IF n = 0 THEN 0 ELSE SendNum[n - 1] + sendWqeNum[n - 1]

AllSent == NeedSendTotalNum(thread[Master].msg) <= SendNum[workedThreadNum]

\* A mutant of ResetSendWqeNum: the counts stay for the next message.
KeepSendWqeNum == UNCHANGED sendWqeNum
ResetSendWqeNum ==
    sendWqeNum' = [t \in Threads |-> IF t < workedThreadNum THEN 0 ELSE sendWqeNum[t]]

WaitForSlaveCompletion ==
    /\ thread[Master].pc = "count" /\ AllSent
    /\ ResetSendWqeNum
    /\ Goto(Master, "dequeue")
    /\ UNCHANGED <<startedThreadNum, workedThreadNum, taskFinishFlag, ring, kernel, history>>

WqeSendTimeout ==
    /\ thread[Master].pc = "count" /\ ~AllSent
    /\ taskFinishFlag' = TRUE
    /\ Set(Master, At("failed"))
    /\ UNCHANGED <<startedThreadNum, workedThreadNum, sendWqeNum, ring, kernel, history>>

\* Dequeue (nothing, if there were no slaves), and WriteTurnCnt by the caller.
Dequeue ==
    /\ thread[Master].pc = "dequeue"
    /\ head' = IF head = tail THEN head ELSE (head + 1) % Capacity
    /\ completed' = completed \cup {thread[Master].msg}
    /\ Set(Master, At("read"))
    /\ UNCHANGED <<sharedCtx, tail, buffer, kernel, batch, posted>>

FinishProcess ==
    /\ thread[Master].pc = "read"
    /\ taskFinishFlag' = TRUE
    /\ Set(Master, At("done"))
    /\ UNCHANGED <<startedThreadNum, workedThreadNum, sendWqeNum, ring, kernel, history>>

\* ReadAddrMsg gives up, or the message is refused: no FinishProcess.
ReadFails ==
    /\ thread[Master].pc = "read"
    /\ Set(Master, At("failed"))
    /\ UNCHANGED <<sharedCtx, ring, kernel, history>>

HandleBatchWrite == Enqueue \/ Post(Master) \/ WaitForSlaveCompletion \/ Dequeue

MasterNext == ReadMsg \/ HandleBatchWrite \/ WqeSendTimeout \/ FinishProcess \/ ReadFails

----------------------------------------------------------------------------
(* A slave: RunSlaveRpcServerForApi, with Peek in steps.                    *)

SlaveStep(s, pc, r) ==
    /\ thread[s].pc = pc
    /\ Set(s, r)
    /\ UNCHANGED <<sharedCtx, ring, kernel, history>>

With(s, pc) == [thread[s] EXCEPT !.pc = pc]
Again(s) == [At("loop") EXCEPT !.last = thread[s].last]

SlaveLoop(s) ==
    SlaveStep(s, "loop", IF taskFinishFlag THEN At("done")
                         ELSE IF s < workedThreadNum THEN With(s, "head") ELSE thread[s])

\* A mutant of RingEmpty: Peek waits for a message instead of returning.
AwaitMsg(s) == With(s, "head")
RingEmpty(s) == Again(s)

PeekHead(s) == SlaveStep(s, "head", [With(s, "tail") EXCEPT !.idx = head])
PeekTail(s) == SlaveStep(s, "tail", IF thread[s].idx = tail THEN RingEmpty(s) ELSE With(s, "payload"))
CopyPayload(s) == SlaveStep(s, "payload", [With(s, "seq") EXCEPT !.msg = buffer[thread[s].idx]])
CopySeq(s) == SlaveStep(s, "seq", [With(s, "check") EXCEPT !.seq = buffer[thread[s].idx]])

\* The while of Peek, and the rest of the condition.
PeekDone(s) ==
    SlaveStep(s, "check", IF thread[s].idx # head THEN With(s, "head")
                          ELSE IF thread[s].seq = thread[s].last THEN Again(s)
                          ELSE [With(s, "post") EXCEPT !.item = 1])

SlaveNext(s) ==
    \/ SlaveLoop(s) \/ PeekHead(s) \/ PeekTail(s) \/ CopyPayload(s) \/ CopySeq(s)
    \/ PeekDone(s) \/ Post(s)

----------------------------------------------------------------------------
Terminated ==
    /\ launch = Launches /\ arrived = NumBlocks /\ \A t \in Threads : Returned(t)
    /\ UNCHANGED vars

Next ==
    \/ StartMaster \/ StartSlave \/ StartInvalid \/ NextLaunch
    \/ MasterNext
    \/ \E s \in Slaves : SlaveNext(s)
    \/ Terminated

Spec == Init /\ [][Next]_vars

\* The threads run; the AI core owes no message.  The timer of
\* WaitForSlaveCompletion is only relied upon when a slave has failed.
Fairness ==
    /\ WF_vars(StartMaster \/ StartSlave \/ StartInvalid)
    /\ WF_vars(HandleBatchWrite)
    /\ WF_vars(WqeSendTimeout /\ \E s \in Slaves : thread[s].pc = "failed")
    /\ \A s \in Slaves : WF_vars(SlaveNext(s))

FairSpec == Spec /\ Fairness

----------------------------------------------------------------------------
\* "Wait for the comm task of handleId to finish" (hccl.h:299): a message
\* reported finished has had every item for another rank posted.
CompletedIsPosted ==
    \A m \in completed : \A i \in DOMAIN batch[m] : batch[m][i] # Own => posted[m][i] > 0

\* No item is posted twice, by whichever threads and in whichever launch.
PostedOnce == \A m \in DOMAIN batch : \A i \in DOMAIN batch[m] : posted[m][i] <= 1

\* Peek "makes sure that head was not modified while reading"
\* (aicpu_kfc_batchwrite_process.cc:77): the copy it returns is one message.
PeekIntact == \A s \in Slaves : thread[s].pc = "post" => thread[s].msg = thread[s].seq

\* A message the master has begun is completed, without help of the timer,
\* unless a thread fails.
BatchCompletes == thread[Master].pc = "post" ~> thread[Master].pc \in {"read", "failed"}

\* Once the master has set the flag, whatever the slaves are doing, they return.
SlavesReturn == taskFinishFlag ~> \A s \in Slaves : Returned(s)
=============================================================================
