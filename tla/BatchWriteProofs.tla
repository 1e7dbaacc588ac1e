--------------------------- MODULE BatchWriteProofs ---------------------------
(***************************************************************************)
(* Proofs about BatchWrite: with a master and one slave no item is posted    *)
(* twice, and no message is reported finished before its items are posted,    *)
(* whatever the messages, the size of the ring and the number of blocks and   *)
(* launches, and although the next message may be begun while the slave is    *)
(* still busy with this one.  With two slaves it is not so: workedThreadNum    *)
(* would change under a slave that is late.                                    *)
(***************************************************************************)
EXTENDS BatchWrite, FiniteSetTheorems, TLAPS

----------------------------------------------------------------------------
(* The inductive invariant.                                                 *)

Slave == 1
Busy == {"enqueue", "post", "count", "dequeue"}     \* the master has a message
Peeking == {"head", "tail", "payload", "seq", "check"}
Copying == Peeking \ {"head"}   \* idx is known

Local == [pc : {"none", "read", "loop", "done", "failed"} \cup Busy \cup Peeking,
          msg : Nat, seq : Nat, item : Nat, cnt : Nat,
          idx : 0 .. Capacity - 1, last : Nat]

DataOK ==
    /\ startedThreadNum \in Nat /\ workedThreadNum \in 0 .. 2
    /\ head \in 0 .. Capacity - 1 /\ tail \in 0 .. Capacity - 1
    /\ batch \in Seq(Seq(Nat)) /\ posted \in Seq(Seq(Nat)) /\ Len(posted) = Len(batch)
    /\ \A m \in 1 .. Len(batch) : Len(posted[m]) = Len(batch[m])
    /\ buffer \in [0 .. Capacity - 1 -> 0 .. Len(batch)]
    /\ arrived \in 0 .. NumBlocks /\ opThreadIdx = IF arrived = NumBlocks THEN 0 ELSE arrived

TypeOK == DataOK /\ thread \in [Threads -> Local]

\* The blocks that have started are the threads that run.
StartInv ==
    /\ arrived = 0 => thread[Master].pc = "none" /\ thread[Slave].pc = "none"
    /\ arrived > 0 => startedThreadNum = IF thread[Slave].pc = "none" THEN 1 ELSE 2
    /\ thread[Slave].pc \notin {"read", "enqueue", "count", "dequeue"}
    /\ thread[Master].pc \notin Peeking \cup {"loop"}

\* The master's message is the last, and is shared out among those that run.
MasterInv ==
    /\ thread[Master].pc \in Busy =>
        /\ thread[Master].msg = Len(batch) /\ batch # <<>>
        /\ workedThreadNum \in 1 .. startedThreadNum
    /\ thread[Master].pc = "enqueue" => workedThreadNum = 2
    /\ thread[Slave].pc \in Peeking \cup {"post"} => workedThreadNum = 2

\* The items of message m that thread t has to post, and that it has not
\* posted those from the k-th on.
Share ==
    [m \in 1 .. Len(batch) |-> [t \in {Master, Slave} |->
        {i \in 1 .. Len(batch[m]) : batch[m][i] # Own /\ batch[m][i] % workedThreadNum = t}]]
Unposted(m, t, k) == \A i \in Share[m][t] : i >= k => posted[m][i] = 0
Untouched(m) == Unposted(m, Slave, 1)

\* A message the slave may take: it posts it if it is not the last it posted.
Offered(m) ==
    /\ m \in 1 .. Len(batch)
    /\ thread[Slave].last <= m
    /\ thread[Slave].last # m => Untouched(m)

\* The ring holds the master's message or nothing.
RingInv ==
    /\ arrived > 0 /\ thread[Master].pc \in {"read", "enqueue", "done"} => head = tail
    /\ thread[Master].pc = "enqueue" =>
        /\ Untouched(Len(batch))
        /\ \A i \in 0 .. Capacity - 1 : buffer[i] # Len(batch)
        /\ thread[Slave].pc \in {"seq", "check", "post"} => thread[Slave].msg # Len(batch)
    /\ arrived > 0 /\ head # tail =>
        /\ tail = (head + 1) % Capacity /\ workedThreadNum = 2
        /\ thread[Slave].pc # "none" /\ buffer[head] = Len(batch) /\ batch # <<>>
        /\ thread[Slave].pc \in Peeking \cup {"loop"} => Offered(Len(batch))
        /\ thread[Slave].pc = "post" => thread[Slave].msg = Len(batch) \/ Untouched(Len(batch))

\* What the slave copies was offered when it began, and stays in its slot.
PeekInv ==
    /\ thread[Slave].last <= Len(batch)
    /\ thread[Slave].pc \in Copying =>
        \/ thread[Slave].pc = "tail" /\ thread[Slave].idx = tail
        \/ Offered(buffer[thread[Slave].idx])
    /\ thread[Slave].pc \in {"seq", "check"} => thread[Slave].msg = buffer[thread[Slave].idx]
    /\ thread[Slave].pc = "check" => thread[Slave].seq = thread[Slave].msg
    /\ thread[Slave].pc = "post" =>
        thread[Slave].msg \in 1 .. Len(batch) /\ thread[Slave].seq = thread[Slave].msg

\* The items a thread has still to post are not posted.
PostInv(t) ==
    thread[t].pc \in {"enqueue", "post"} =>
        thread[t].item >= 1 /\ Unposted(thread[t].msg, t, thread[t].item)

IInv ==
    /\ TypeOK /\ StartInv /\ MasterInv /\ RingInv /\ PeekInv
    /\ PostInv(Master) /\ PostInv(Slave) /\ PostedOnce

\* The two hypotheses: the threads there are, and how long a Peek lasts.
TwoThreads == MaxThreads = 2 /\ ~SlowPeek

----------------------------------------------------------------------------
LEMMA ThreadSet == TwoThreads => Threads = {Master, Slave} /\ Slaves = {Slave}
BY DEF TwoThreads, Threads, Slaves, Master, Slave

LEMMA SetThread ==
    ASSUME TwoThreads, TypeOK, NEW t \in {Master, Slave}, NEW r \in Local, Set(t, r)
    PROVE  /\ thread' \in [Threads -> Local] /\ thread'[t] = r
           /\ \A u \in {Master, Slave} \ {t} : thread'[u] = thread[u]
BY ThreadSet DEF TypeOK, Set

LEMMA ShareStays == UNCHANGED <<batch, workedThreadNum>> => Share' = Share
BY DEF Share

LEMMA ShareIs ==
    ASSUME NEW m \in 1 .. Len(batch), NEW t \in {Master, Slave}
    PROVE  Share[m][t] = {i \in 1 .. Len(batch[m]) :
                            batch[m][i] # Own /\ batch[m][i] % workedThreadNum = t}
BY DEF Share

\* No item is both the master's and the slave's.
LEMMA ShareApart ==
    ASSUME NEW m \in 1 .. Len(batch)
    PROVE  /\ Share[m][Master] \cap Share[m][Slave] = {}
           /\ \A t \in {Master, Slave} : Share[m][t] \subseteq 1 .. Len(batch[m])
<1>1. ASSUME NEW t \in {Master, Slave}, NEW i \in Share[m][t]
      PROVE  i \in 1 .. Len(batch[m]) /\ batch[m][i] % workedThreadNum = t
  <2>1. i \in {j \in 1 .. Len(batch[m]) : batch[m][j] # Own /\ batch[m][j] % workedThreadNum = t}
    BY ShareIs
  <2> QED
    BY <2>1
<1>2. ASSUME NEW i \in Share[m][Master], i \in Share[m][Slave]
      PROVE  FALSE
  <2>1. batch[m][i] % workedThreadNum = Master
    BY <1>1
  <2>2. batch[m][i] % workedThreadNum = Slave
    BY <1>1, <1>2
  <2> QED
    BY <2>1, <2>2 DEF Master, Slave
<1> QED
  BY <1>1, <1>2

\* What changes when a thread, or the copy of Peek, goes on.
LEMMA WithPc ==
    ASSUME NEW t, thread[t] \in Local, NEW p \in Peeking \cup {"post"}
    PROVE  /\ With(t, p) \in Local /\ With(t, p).pc = p
           /\ With(t, p).idx = thread[t].idx /\ With(t, p).last = thread[t].last
           /\ With(t, p).msg = thread[t].msg /\ With(t, p).seq = thread[t].seq
BY DEF With, Local, Peeking, Busy

LEMMA Changed ==
    ASSUME NEW l \in Local
    PROVE  /\ \A h \in 0 .. Capacity - 1 :
                LET r == [l EXCEPT !.idx = h]
                IN r \in Local /\ r.pc = l.pc /\ r.last = l.last /\ r.idx = h
           /\ \A m \in Nat :
                LET r == [l EXCEPT !.msg = m]
                IN r \in Local /\ r.pc = l.pc /\ r.last = l.last /\ r.idx = l.idx /\ r.msg = m
           /\ \A m \in Nat :
                LET r == [l EXCEPT !.seq = m]
                IN /\ r \in Local /\ r.pc = l.pc /\ r.last = l.last /\ r.idx = l.idx
                   /\ r.msg = l.msg /\ r.seq = m
           /\ \A k \in Nat :
                LET r == [l EXCEPT !.item = k]
                IN /\ r \in Local /\ r.pc = l.pc /\ r.last = l.last
                   /\ r.msg = l.msg /\ r.seq = l.seq /\ r.item = k
BY DEF Local

LEMMA AgainIs ==
    ASSUME NEW t, thread[t] \in Local
    PROVE  Again(t) \in Local /\ Again(t).pc = "loop" /\ Again(t).last = thread[t].last
BY RingAssumption DEF Again, At, Local

----------------------------------------------------------------------------
(* The slave watches the ring.                                              *)

Watching == Peeking \cup {"loop"}

\* A step of Peek or of the loop disturbs at most what the slave copies.
LEMMA WatchKeeps ==
    ASSUME TwoThreads, IInv, NEW pc \in Watching, NEW r \in Local,
           SlaveStep(Slave, pc, r),
           r.pc \in Watching, r.last = thread[Slave].last,
           r.pc = "loop" \/ workedThreadNum = 2,
           PeekInv'
    PROVE  IInv'
<1> USE ThreadSet DEF IInv, Watching, Peeking, Busy, Master, Slave
<1>1. /\ thread' \in [Threads -> Local] /\ thread'[Slave] = r
      /\ thread'[Master] = thread[Master] /\ thread[Slave].pc = pc
      /\ UNCHANGED <<sharedCtx, ring, kernel, history>>
  BY SetThread DEF SlaveStep
<1>2. Share' = Share
  BY <1>1, ShareStays DEF sharedCtx, history
<1> USE <1>1, <1>2 DEF sharedCtx, ring, kernel, history
<1>3. TypeOK'
  BY DEF TypeOK, DataOK
<1>4. StartInv' /\ MasterInv'
  BY DEF StartInv, MasterInv
<1>5. RingInv'
  <2>1. thread[Master].pc = "enqueue" /\ r.pc \in {"seq", "check"} => r.msg # Len(batch)
    BY DEF RingInv, PeekInv, Copying, TypeOK, DataOK, Local
  <2>2. Offered(Len(batch)) => Offered(Len(batch))'
    BY DEF Offered, Untouched, Unposted
  <2>3. Untouched(Len(batch)) => Untouched(Len(batch))'
    BY DEF Untouched, Unposted
  <2> QED
    BY <2>1, <2>2, <2>3 DEF RingInv
<1>6. PostInv(Master)' /\ PostInv(Slave)'
  BY DEF PostInv, Unposted
<1>7. PostedOnce'
  BY DEF PostedOnce
<1> QED
  BY <1>3, <1>4, <1>5, <1>6, <1>7

\* A slave that returns disturbs nothing.
LEMMA SlaveStops ==
    ASSUME TwoThreads, IInv, NEW p \in {"done", "failed"}, thread[Slave].pc # "none",
           Set(Slave, At(p)), UNCHANGED <<sharedCtx, ring, kernel, history>>
    PROVE  IInv'
<1> USE ThreadSet DEF IInv, Peeking, Copying, Busy, Master, Slave
<1>1. At(p) \in Local
  BY RingAssumption DEF At, Local
<1>2. /\ thread' \in [Threads -> Local] /\ thread'[Slave] = At(p)
      /\ thread'[Master] = thread[Master]
  BY <1>1, SetThread
<1>3. Share' = Share
  BY ShareStays DEF sharedCtx, history
<1> USE <1>2, <1>3 DEF sharedCtx, ring, kernel, history, At
<1>4. TypeOK'
  BY DEF TypeOK, DataOK
<1>5. StartInv' /\ MasterInv'
  BY DEF StartInv, MasterInv
<1>6. RingInv'
  <2>1. Untouched(Len(batch)) => Untouched(Len(batch))'
    BY DEF Untouched, Unposted
  <2> QED
    BY <2>1 DEF RingInv
<1>7. PeekInv'
  BY DEF PeekInv, TypeOK, DataOK
<1>8. PostInv(Master)' /\ PostInv(Slave)' /\ PostedOnce'
  BY DEF PostInv, Unposted, PostedOnce
<1> QED
  BY <1>4, <1>5, <1>6, <1>7, <1>8

LEMMA SlaveLoopKeeps == TwoThreads /\ IInv /\ SlaveLoop(Slave) => IInv'
<1> SUFFICES ASSUME TwoThreads, IInv, SlaveLoop(Slave) PROVE IInv'
  OBVIOUS
<1>1. thread[Slave] \in Local /\ thread[Slave].pc = "loop"
  BY ThreadSet DEF IInv, TypeOK, SlaveLoop, SlaveStep
<1>2. CASE taskFinishFlag
  BY <1>1, <1>2, SlaveStops DEF SlaveLoop, SlaveStep
<1>3. CASE ~taskFinishFlag
  <2> DEFINE r == IF Slave < workedThreadNum THEN With(Slave, "head") ELSE thread[Slave]
  <2>1. /\ r \in Local /\ r.pc \in {"head", "loop"} /\ r.last = thread[Slave].last
        /\ r.pc = "loop" \/ workedThreadNum = 2
    BY <1>1, WithPc DEF Peeking, Slave, IInv, TypeOK, DataOK
  <2>2. SlaveStep(Slave, "loop", r)
    BY <1>3 DEF SlaveLoop
  <2> HIDE DEF r
  <2>3. PeekInv'
    <3>1. thread'[Slave] = r
      BY <2>1, <2>2, SetThread DEF SlaveStep, IInv
    <3> QED
      BY <2>1, <2>2, <3>1 DEF PeekInv, Copying, Peeking, SlaveStep, history, IInv
  <2> QED
    BY <2>1, <2>2, <2>3, WatchKeeps DEF Watching, Peeking
<1> QED
  BY <1>2, <1>3

LEMMA PeekHeadKeeps == TwoThreads /\ IInv /\ PeekHead(Slave) => IInv'
<1> SUFFICES ASSUME TwoThreads, IInv, PeekHead(Slave) PROVE IInv'
  OBVIOUS
<1> DEFINE r == [With(Slave, "tail") EXCEPT !.idx = head]
<1>1. thread[Slave] \in Local /\ thread[Slave].pc = "head" /\ SlaveStep(Slave, "head", r)
  BY ThreadSet DEF IInv, TypeOK, PeekHead, SlaveStep
<1>2. /\ r \in Local /\ r.pc = "tail" /\ r.idx = head /\ r.last = thread[Slave].last
      /\ workedThreadNum = 2 /\ arrived > 0
  <2>1. head \in 0 .. Capacity - 1 /\ workedThreadNum = 2 /\ arrived > 0
    BY <1>1, ThreadsAssumption DEF IInv, TypeOK, DataOK, MasterInv, StartInv, Peeking
  <2> QED
    BY <1>1, <2>1, WithPc, Changed DEF Peeking
<1> HIDE DEF r
<1>3. PeekInv'
  <2>1. thread'[Slave] = r /\ UNCHANGED <<ring, history, sharedCtx>> /\ Share' = Share
    BY <1>1, <1>2, SetThread, ShareStays DEF SlaveStep, IInv, sharedCtx, history
  <2>2. head # tail => Offered(buffer[head])'
    BY <1>1, <1>2, <2>1
       DEF IInv, RingInv, Offered, Untouched, Unposted, Peeking, ring, history
  <2> QED
    BY <1>1, <1>2, <2>1, <2>2 DEF PeekInv, IInv, ring, history
<1> QED
  BY <1>1, <1>2, <1>3, WatchKeeps DEF Watching, Peeking

LEMMA PeekTailKeeps == TwoThreads /\ IInv /\ PeekTail(Slave) => IInv'
<1> SUFFICES ASSUME TwoThreads, IInv, PeekTail(Slave) PROVE IInv'
  OBVIOUS
<1> DEFINE r == IF thread[Slave].idx = tail THEN RingEmpty(Slave) ELSE With(Slave, "payload")
<1>1. thread[Slave] \in Local /\ thread[Slave].pc = "tail" /\ SlaveStep(Slave, "tail", r)
  BY ThreadSet DEF IInv, TypeOK, PeekTail, SlaveStep
<1>2. /\ r \in Local /\ r.last = thread[Slave].last /\ workedThreadNum = 2
      /\ \/ r.pc = "loop"
         \/ r.pc = "payload" /\ r.idx = thread[Slave].idx /\ Offered(buffer[r.idx])
  <2>1. workedThreadNum = 2 /\ (thread[Slave].idx # tail => Offered(buffer[thread[Slave].idx]))
    BY <1>1 DEF IInv, MasterInv, PeekInv, Copying, Peeking
  <2> QED
    BY <1>1, <2>1, AgainIs, WithPc DEF RingEmpty, Peeking
<1> HIDE DEF r
<1>3. PeekInv'
  <2>1. thread'[Slave] = r /\ UNCHANGED <<ring, history, sharedCtx>> /\ Share' = Share
    BY <1>1, <1>2, SetThread, ShareStays DEF SlaveStep, IInv, sharedCtx, history
  <2>2. r.pc = "payload" => Offered(buffer[thread[Slave].idx])'
    BY <1>2, <2>1 DEF Offered, Untouched, Unposted, ring, history
  <2> QED
    BY <1>1, <1>2, <2>1, <2>2 DEF PeekInv, IInv, Copying, Peeking, ring, history
<1> QED
  BY <1>1, <1>2, <1>3, WatchKeeps DEF Watching, Peeking

LEMMA CopyKeeps ==
    TwoThreads /\ IInv /\ (CopyPayload(Slave) \/ CopySeq(Slave)) => IInv'
<1> SUFFICES ASSUME TwoThreads, IInv, CopyPayload(Slave) \/ CopySeq(Slave) PROVE IInv'
  OBVIOUS
<1> DEFINE slot == buffer[thread[Slave].idx]
           r == IF thread[Slave].pc = "payload" THEN [With(Slave, "seq") EXCEPT !.msg = slot]
                ELSE [With(Slave, "check") EXCEPT !.seq = slot]
<1>1. /\ thread[Slave] \in Local /\ thread[Slave].pc \in {"payload", "seq"}
      /\ SlaveStep(Slave, thread[Slave].pc, r)
  BY ThreadSet DEF IInv, TypeOK, CopyPayload, CopySeq, SlaveStep
<1>2. /\ r \in Local /\ r.last = thread[Slave].last /\ workedThreadNum = 2
      /\ r.idx = thread[Slave].idx /\ Offered(slot) /\ r.msg = slot
      /\ r.pc \in {"seq", "check"} /\ (r.pc = "check" => r.seq = slot)
  <2>1. slot \in Nat
    BY <1>1 DEF Local, IInv, TypeOK, DataOK
  <2>2. Offered(slot) /\ workedThreadNum = 2
    BY <1>1 DEF IInv, MasterInv, PeekInv, Copying, Peeking
  <2>3. thread[Slave].pc = "seq" => thread[Slave].msg = slot
    BY DEF IInv, PeekInv
  <2> HIDE DEF slot
  <2>4. CASE thread[Slave].pc = "payload"
    BY <1>1, <2>1, <2>2, <2>4, WithPc, Changed DEF Peeking
  <2>5. CASE thread[Slave].pc = "seq"
    BY <1>1, <2>1, <2>2, <2>3, <2>5, WithPc, Changed DEF Peeking
  <2> QED
    BY <1>1, <2>4, <2>5
<1> HIDE DEF r
<1>3. PeekInv'
  <2>1. thread'[Slave] = r /\ UNCHANGED <<ring, history, sharedCtx>> /\ Share' = Share
    BY <1>1, <1>2, SetThread, ShareStays DEF SlaveStep, IInv, sharedCtx, history
  <2>2. Offered(slot) => Offered(slot)'
    BY <1>2, <2>1 DEF Offered, Untouched, Unposted, ring, history
  <2> QED
    BY <1>1, <1>2, <2>1, <2>2 DEF PeekInv, IInv, Copying, Peeking, ring, history
<1> QED
  BY <1>1, <1>2, <1>3, WatchKeeps DEF Watching, Peeking

\* What PeekDone takes is the master's message, or one it has finished with.
LEMMA TakeKeeps ==
    ASSUME TwoThreads, IInv, NEW r \in Local, SlaveStep(Slave, "check", r),
           thread[Slave].seq # thread[Slave].last,
           r.pc = "post", r.item = 1, r.msg = thread[Slave].msg,
           r.seq = thread[Slave].seq, r.last = thread[Slave].last
    PROVE  IInv'
<1> USE ThreadSet DEF IInv, Peeking, Copying, Busy, Master, Slave
<1> DEFINE m == thread[Slave].msg
<1>1. /\ thread' \in [Threads -> Local] /\ thread'[Slave] = r
      /\ thread'[Master] = thread[Master] /\ thread[Slave].pc = "check"
      /\ UNCHANGED <<sharedCtx, ring, kernel, history>>
  BY SetThread DEF SlaveStep
<1>2. Share' = Share
  BY <1>1, ShareStays DEF sharedCtx, history
<1>3. Offered(m) /\ thread[Slave].seq = m /\ m \in 1 .. Len(batch) /\ Untouched(m)
  BY <1>1 DEF PeekInv, Offered
<1> USE <1>1, <1>2 DEF sharedCtx, ring, kernel, history
<1>4. TypeOK'
  BY DEF TypeOK, DataOK
<1>5. StartInv' /\ MasterInv'
  BY DEF StartInv, MasterInv
<1>6. RingInv'
  <2>1. Untouched(Len(batch)) => Untouched(Len(batch))'
    BY DEF Untouched, Unposted
  <2>2. Offered(Len(batch)) => m = Len(batch) \/ Untouched(Len(batch))
    BY <1>3 DEF Offered, TypeOK, DataOK, Local
  <2> QED
    BY <2>1, <2>2 DEF RingInv
<1>7. PeekInv'
  BY <1>3 DEF PeekInv
<1>8. PostInv(Master)'
  BY DEF PostInv, Unposted
<1>9. PostInv(Slave)'
  BY <1>3 DEF PostInv, Unposted, Untouched
<1>10. PostedOnce'
  BY DEF PostedOnce
<1> QED
  BY <1>4, <1>5, <1>6, <1>7, <1>8, <1>9, <1>10

LEMMA PeekDoneKeeps == TwoThreads /\ IInv /\ PeekDone(Slave) => IInv'
<1> SUFFICES ASSUME TwoThreads, IInv, PeekDone(Slave) PROVE IInv'
  OBVIOUS
<1>1. thread[Slave] \in Local /\ thread[Slave].pc = "check" /\ workedThreadNum = 2
  BY ThreadSet DEF IInv, TypeOK, MasterInv, Peeking, PeekDone, SlaveStep
<1>2. CASE thread[Slave].idx = head /\ thread[Slave].seq # thread[Slave].last
  <2> DEFINE r == [With(Slave, "post") EXCEPT !.item = 1]
  <2>1. SlaveStep(Slave, "check", r)
    BY <1>2 DEF PeekDone
  <2>2. /\ r \in Local /\ r.pc = "post" /\ r.item = 1 /\ r.msg = thread[Slave].msg
        /\ r.seq = thread[Slave].seq /\ r.last = thread[Slave].last
    BY <1>1, WithPc, Changed
  <2> HIDE DEF r
  <2> QED
    BY <1>2, <2>1, <2>2, TakeKeeps
<1>3. CASE ~(thread[Slave].idx = head /\ thread[Slave].seq # thread[Slave].last)
  <2> DEFINE r == IF thread[Slave].idx # head THEN With(Slave, "head") ELSE Again(Slave)
  <2>1. SlaveStep(Slave, "check", r)
    BY <1>3 DEF PeekDone
  <2>2. r \in Local /\ r.pc \in {"head", "loop"} /\ r.last = thread[Slave].last
    BY <1>1, WithPc, AgainIs DEF Peeking
  <2> HIDE DEF r
  <2>3. PeekInv'
    <3>1. thread'[Slave] = r /\ UNCHANGED batch
      BY <2>1, <2>2, SetThread DEF SlaveStep, IInv, history
    <3> QED
      BY <2>2, <3>1 DEF PeekInv, Copying, Peeking, IInv
  <2> QED
    BY <1>1, <2>1, <2>2, <2>3, WatchKeeps DEF Watching, Peeking
<1> QED
  BY <1>2, <1>3

LEMMA SlaveStoreKeeps == TwoThreads /\ IInv /\ StoreSendWqeNum(Slave) => IInv'
<1> SUFFICES ASSUME TwoThreads, IInv, StoreSendWqeNum(Slave) PROVE IInv'
  OBVIOUS
<1> USE ThreadSet DEF IInv, Peeking, Copying, Busy, Master, Slave
<1> DEFINE r == [At("loop") EXCEPT !.last = thread[Slave].seq]
<1>1. thread[Slave] \in Local /\ thread[Slave].pc = "post" /\ Set(Slave, r)
  BY DEF TypeOK, StoreSendWqeNum
<1>2. r \in Local /\ r.pc = "loop" /\ r.last = thread[Slave].seq
  BY <1>1, RingAssumption DEF At, Local
<1> HIDE DEF r
<1>3. /\ thread' \in [Threads -> Local] /\ thread'[Slave] = r
      /\ thread'[Master] = thread[Master]
      /\ UNCHANGED <<startedThreadNum, workedThreadNum, taskFinishFlag, ring, kernel, history>>
  BY <1>1, <1>2, SetThread DEF StoreSendWqeNum
<1>4. Share' = Share
  BY <1>3, ShareStays DEF history
<1>5. thread[Slave].msg \in 1 .. Len(batch) /\ thread[Slave].seq = thread[Slave].msg
  BY <1>1 DEF PeekInv
<1> USE <1>1, <1>2, <1>3, <1>4, <1>5 DEF ring, kernel, history
<1>6. TypeOK'
  BY DEF TypeOK, DataOK
<1>7. StartInv' /\ MasterInv'
  BY DEF StartInv, MasterInv
<1>8. RingInv'
  <2>1. Untouched(Len(batch)) => Untouched(Len(batch))'
    BY DEF Untouched, Unposted
  <2>2. /\ batch # <<>>
        /\ thread[Slave].msg = Len(batch) \/ Untouched(Len(batch))
        => Offered(Len(batch))'
    BY <2>1 DEF Offered, TypeOK, DataOK
  <2> QED
    BY <2>1, <2>2 DEF RingInv
<1>9. PeekInv'
  BY DEF PeekInv
<1>10. PostInv(Master)' /\ PostInv(Slave)' /\ PostedOnce'
  BY DEF PostInv, Unposted, PostedOnce
<1> QED
  BY <1>6, <1>7, <1>8, <1>9, <1>10

----------------------------------------------------------------------------
(* The master.                                                              *)

\* A master that returns disturbs nothing.
LEMMA MasterStops ==
    ASSUME TwoThreads, IInv, NEW p \in {"done", "failed"},
           arrived > 0, p = "done" => thread[Master].pc = "read",
           Set(Master, At(p)),
           UNCHANGED <<startedThreadNum, workedThreadNum, ring, kernel, history>>
    PROVE  IInv'
<1> USE ThreadSet DEF IInv, Peeking, Copying, Busy, Master, Slave
<1>1. At(p) \in Local
  BY RingAssumption DEF At, Local
<1>2. /\ thread' \in [Threads -> Local] /\ thread'[Master] = At(p)
      /\ thread'[Slave] = thread[Slave]
  BY <1>1, SetThread
<1>3. Share' = Share
  BY ShareStays DEF history
<1> USE <1>2, <1>3 DEF ring, kernel, history, At
<1>4. TypeOK'
  BY DEF TypeOK, DataOK
<1>5. StartInv' /\ MasterInv'
  BY DEF StartInv, MasterInv
<1>6. RingInv' /\ PeekInv'
  <2>1. ASSUME NEW m PROVE Offered(m) <=> Offered(m)'
    BY DEF Offered, Untouched, Unposted
  <2>2. Untouched(Len(batch)) => Untouched(Len(batch))'
    BY DEF Untouched, Unposted
  <2> QED
    BY <2>1, <2>2 DEF RingInv, PeekInv
<1>7. PostInv(Master)' /\ PostInv(Slave)' /\ PostedOnce'
  BY DEF PostInv, Unposted, PostedOnce
<1> QED
  BY <1>4, <1>5, <1>6, <1>7

LEMMA MasterStopsKeeps ==
    /\ TwoThreads /\ IInv
    /\ FinishProcess \/ ReadFails \/ WqeSendTimeout \/ PostSendFails(Master)
    => IInv'
<1> SUFFICES ASSUME TwoThreads, IInv,
                    FinishProcess \/ ReadFails \/ WqeSendTimeout \/ PostSendFails(Master)
             PROVE  IInv'
  OBVIOUS
<1>1. PICK p \in {"done", "failed"} :
        /\ p = "done" => thread[Master].pc = "read"
        /\ thread[Master].pc # "none" /\ Set(Master, At(p))
        /\ UNCHANGED <<startedThreadNum, workedThreadNum, ring, kernel, history>>
  BY DEF FinishProcess, ReadFails, WqeSendTimeout, PostSendFails, MoreItems, sharedCtx
<1>2. arrived > 0
  BY <1>1, ThreadsAssumption DEF IInv, TypeOK, DataOK, StartInv
<1> QED
  BY <1>1, <1>2, MasterStops

\* From counting to the next message: enqueue, count, dequeue.
LEMMA EnqueueKeeps == TwoThreads /\ IInv /\ Enqueue => IInv'
<1> SUFFICES ASSUME TwoThreads, IInv, Enqueue PROVE IInv'
  OBVIOUS
<1> USE ThreadSet, RingAssumption DEF IInv, Peeking, Copying, Busy, Master, Slave
<1>1. thread[Master] \in Local /\ thread[Slave] \in Local /\ thread[Master].pc = "enqueue"
  BY DEF TypeOK, Enqueue
<1>2. /\ thread' \in [Threads -> Local] /\ thread'[Slave] = thread[Slave]
      /\ thread'[Master] = [thread[Master] EXCEPT !.pc = "post"]
  BY <1>1 DEF Enqueue, Goto, TypeOK, Local
<1>3. /\ UNCHANGED <<sharedCtx, kernel, history, head>>
      /\ buffer' = [buffer EXCEPT ![tail] = Len(batch)] /\ tail' = (tail + 1) % Capacity
      /\ arrived > 0 /\ head = tail /\ workedThreadNum = 2 /\ batch # <<>>
      /\ thread[Master].msg = Len(batch)
  <2>1. arrived > 0
    BY <1>1, ThreadsAssumption DEF StartInv, TypeOK, DataOK
  <2>2. head = tail
    BY <1>1, <2>1 DEF RingInv
  <2>3. workedThreadNum = 2 /\ batch # <<>> /\ thread[Master].msg = Len(batch)
    BY <1>1 DEF MasterInv
  <2> QED
    BY <2>1, <2>2, <2>3 DEF Enqueue
<1>4. Share' = Share
  BY <1>3, ShareStays DEF sharedCtx, history
<1>5. ASSUME NEW m PROVE Offered(m) <=> Offered(m)'
  BY <1>2, <1>3, <1>4 DEF Offered, Untouched, Unposted, history
<1>6. Len(batch) \in Nat /\ tail' \in 0 .. Capacity - 1
  BY <1>3 DEF TypeOK, DataOK
<1>7. buffer' \in [0 .. Capacity - 1 -> 0 .. Len(batch)] /\ buffer'[tail] = Len(batch)
  BY <1>3, <1>6 DEF TypeOK, DataOK
<1>8. TypeOK'
  BY <1>2, <1>3, <1>6, <1>7 DEF TypeOK, DataOK, sharedCtx, kernel, history
<1>9. StartInv' /\ MasterInv'
  BY <1>1, <1>2, <1>3 DEF StartInv, MasterInv, sharedCtx, kernel, history, Local
<1>10. thread[Slave].pc \in {"tail", "payload", "seq", "check"} =>
            thread[Slave].idx # tail /\ buffer'[thread[Slave].idx] = buffer[thread[Slave].idx]
  BY <1>1, <1>3 DEF Enqueue, InPeek, TwoThreads, Local, TypeOK, DataOK
<1>11. RingInv'
  <2>1. Untouched(Len(batch)) /\ Untouched(Len(batch))'
    BY <1>1, <1>3, <1>4 DEF RingInv, Untouched, Unposted, history
  <2>2. thread[Slave].last <= Len(batch) /\ Len(batch) \in 1 .. Len(batch)
    BY <1>3, <1>6 DEF PeekInv, TypeOK, DataOK
  <2>3. Offered(Len(batch))
    BY <2>1, <2>2 DEF Offered
  <2>4. thread[Slave].pc # "none"
    BY <1>1, <1>3 DEF MasterInv, StartInv, TypeOK, DataOK
  <2> QED
    BY <1>1, <1>2, <1>3, <1>5, <1>7, <2>1, <2>3, <2>4
       DEF RingInv, Local, sharedCtx, kernel, history
<1>12. PeekInv'
  <2>1. thread[Slave].pc \in Copying =>
            thread[Slave].idx # tail /\ Offered(buffer[thread[Slave].idx])
    BY <1>1, <1>3, <1>10 DEF PeekInv
  <2>2. ASSUME NEW n, n = buffer[thread[Slave].idx], thread[Slave].pc \in Copying
        PROVE  Offered(n)' /\ n = buffer'[thread[Slave].idx]
    BY <1>5, <1>10, <2>1, <2>2
  <2>3. thread[Slave].pc \in {"seq", "check"} =>
            thread[Slave].msg = buffer'[thread[Slave].idx]
    BY <1>10 DEF PeekInv
  <2> QED
    BY <1>2, <1>3, <2>2, <2>3 DEF PeekInv, history
<1>13. PostInv(Master)' /\ PostInv(Slave)' /\ PostedOnce'
  <2>1. thread'[Master].pc = "post" /\ thread'[Master].item = thread[Master].item
        /\ thread'[Master].msg = thread[Master].msg
    BY <1>1, <1>2 DEF Local
  <2>2. \A n, t, k : Unposted(n, t, k)' <=> Unposted(n, t, k)
    BY <1>3, <1>4 DEF Unposted, history
  <2>3. PostInv(Master)'
    BY <1>1, <2>1, <2>2 DEF PostInv
  <2>4. PostInv(Slave)'
    BY <1>2, <2>2 DEF PostInv
  <2>5. PostedOnce'
    BY <1>3 DEF PostedOnce, history
  <2> QED
    BY <2>3, <2>4, <2>5
<1> QED
  BY <1>8, <1>9, <1>11, <1>12, <1>13

LEMMA WaitKeeps ==
    TwoThreads /\ IInv /\ (StoreSendWqeNum(Master) \/ WaitForSlaveCompletion) => IInv'
<1> SUFFICES ASSUME TwoThreads, IInv, StoreSendWqeNum(Master) \/ WaitForSlaveCompletion
             PROVE  IInv'
  OBVIOUS
<1> USE ThreadSet, RingAssumption DEF IInv, Peeking, Copying, Busy, Master, Slave
<1>1. thread[Master] \in Local /\ thread[Master].pc \in {"post", "count"}
  BY DEF TypeOK, StoreSendWqeNum, WaitForSlaveCompletion
<1>2. /\ thread' \in [Threads -> Local] /\ thread'[Slave] = thread[Slave]
      /\ thread'[Master].pc \in {"count", "dequeue"} /\ thread'[Master].msg = thread[Master].msg
  <2>1. CASE StoreSendWqeNum(Master)
    <3> DEFINE r == [At("count") EXCEPT !.msg = thread[Master].msg]
    <3>1. r \in Local /\ r.pc = "count" /\ r.msg = thread[Master].msg
      BY <1>1 DEF At, Local
    <3>2. Set(Master, r)
      BY <2>1 DEF StoreSendWqeNum
    <3> HIDE DEF r
    <3> QED
      BY <3>1, <3>2, SetThread
  <2>2. CASE WaitForSlaveCompletion
    BY <2>2 DEF WaitForSlaveCompletion, Goto, TypeOK, Local
  <2> QED
    BY <2>1, <2>2
<1>3. UNCHANGED <<startedThreadNum, workedThreadNum, ring, kernel, history>>
  BY DEF StoreSendWqeNum, WaitForSlaveCompletion
<1>4. Share' = Share
  BY <1>3, ShareStays DEF history
<1> USE <1>1, <1>2, <1>3, <1>4 DEF ring, kernel, history
<1>5. TypeOK'
  BY DEF TypeOK, DataOK
<1>6. StartInv' /\ MasterInv'
  BY DEF StartInv, MasterInv
<1>7. RingInv' /\ PeekInv'
  <2>1. ASSUME NEW m PROVE Offered(m) <=> Offered(m)'
    BY DEF Offered, Untouched, Unposted
  <2>2. Untouched(Len(batch)) => Untouched(Len(batch))'
    BY DEF Untouched, Unposted
  <2> QED
    BY <2>1, <2>2 DEF RingInv, PeekInv
<1>8. PostInv(Master)' /\ PostInv(Slave)' /\ PostedOnce'
  BY DEF PostInv, Unposted, PostedOnce
<1> QED
  BY <1>5, <1>6, <1>7, <1>8

LEMMA DequeueKeeps == TwoThreads /\ IInv /\ Dequeue => IInv'
<1> SUFFICES ASSUME TwoThreads, IInv, Dequeue PROVE IInv'
  OBVIOUS
<1> USE ThreadSet, RingAssumption DEF IInv, Peeking, Copying, Busy, Master, Slave
<1>1. thread[Master].pc = "dequeue" /\ Set(Master, At("read")) /\ At("read") \in Local
  BY DEF Dequeue, At, Local
<1>2. /\ thread' \in [Threads -> Local] /\ thread'[Slave] = thread[Slave]
      /\ thread'[Master].pc = "read"
  BY <1>1, SetThread DEF At
<1>3. UNCHANGED <<sharedCtx, tail, buffer, kernel, batch, posted>> /\ Share' = Share
  BY ShareStays DEF Dequeue, sharedCtx
<1>4. arrived > 0
  BY <1>1, ThreadsAssumption DEF StartInv, TypeOK, DataOK
<1>5. head' = tail
  <2>1. head # tail => tail = (head + 1) % Capacity
    BY <1>4 DEF RingInv
  <2> QED
    BY <2>1 DEF Dequeue
<1> USE <1>1, <1>2, <1>3, <1>4, <1>5 DEF sharedCtx, kernel
<1>6. TypeOK'
  BY DEF TypeOK, DataOK
<1>7. StartInv' /\ MasterInv'
  BY DEF StartInv, MasterInv
<1>8. RingInv'
  BY DEF RingInv
<1>9. PeekInv'
  <2>1. ASSUME NEW m PROVE Offered(m) <=> Offered(m)'
    BY DEF Offered, Untouched, Unposted
  <2> QED
    BY <2>1 DEF PeekInv
<1>10. PostInv(Master)' /\ PostInv(Slave)' /\ PostedOnce'
  BY DEF PostInv, Unposted, PostedOnce
<1> QED
  BY <1>6, <1>7, <1>8, <1>9, <1>10

\* A new message: nothing of it is posted.
LEMMA BatchesAre ==
    ASSUME NEW items \in Batches
    PROVE  /\ items \in Seq(Nat)
           /\ [i \in DOMAIN items |-> 0] \in Seq(Nat)
           /\ Len([i \in DOMAIN items |-> 0]) = Len(items)
<1>1. PICK n \in 1 .. MaxItems : items \in [1 .. n -> Ranks]
  BY DEF Batches
<1>2. n \in Nat /\ items \in [1 .. n -> Nat] /\ DOMAIN items = 1 .. n
  <2>1. n \in Nat
    BY ItemsAssumption
  <2>2. \A i \in 1 .. n : items[i] \in Nat
    BY <1>1, ItemsAssumption
  <2> QED
    BY <1>1, <2>1, <2>2
<1>3. items \in Seq(Nat) /\ Len(items) = n
  BY <1>2
<1>4. [i \in 1 .. n |-> 0] \in Seq(Nat) /\ Len([i \in 1 .. n |-> 0]) = n
  BY <1>2
<1> QED
  BY <1>2, <1>3, <1>4

\* What ReadMsg leaves: a message more, of which nothing is posted.
LEMMA ReadMsgIs ==
    ASSUME TwoThreads, IInv, ReadMsg, NEW m, m = Len(batch) + 1
    PROVE  /\ Len(batch) \in Nat /\ \A k \in 1 .. m : k \in 1 .. Len(batch) \/ k = m
           /\ thread[Master].pc = "read" /\ workedThreadNum' = startedThreadNum
           /\ UNCHANGED <<startedThreadNum, ring, kernel, sendWqeNum, completed>>
           /\ arrived > 0 /\ startedThreadNum \in {1, 2} /\ head = tail
           /\ startedThreadNum = 1 <=> thread[Slave].pc = "none"
           /\ Len(batch') = m /\ Len(posted') = m
           /\ batch' \in Seq(Seq(Nat)) /\ posted' \in Seq(Seq(Nat))
           /\ \A k \in 1 .. Len(batch) : batch'[k] = batch[k] /\ posted'[k] = posted[k]
           /\ batch'[m] \in Batches /\ posted'[m] = [i \in DOMAIN batch'[m] |-> 0]
           /\ thread' \in [Threads -> Local] /\ thread'[Slave] = thread[Slave]
           /\ thread'[Master].pc = (IF startedThreadNum > 1 THEN "enqueue" ELSE "post")
           /\ thread'[Master].msg = m /\ thread'[Master].item = 1 /\ thread'[Master].cnt = 0
           /\ \A k \in 1 .. Len(batch) : workedThreadNum = 2 /\ thread[Slave].pc # "none" =>
                Share'[k] = Share[k]
<1> USE ThreadSet, RingAssumption DEF IInv, Peeking, Copying, Busy, Master, Slave
<1> DEFINE r == [At(IF startedThreadNum > 1 THEN "enqueue" ELSE "post")
                    EXCEPT !.msg = Len(batch) + 1, !.item = 1]
<1>0. Len(batch) \in Nat /\ \A k \in 1 .. m : k \in 1 .. Len(batch) \/ k = m
  BY DEF TypeOK, DataOK
<1>1. PICK items \in Batches :
        /\ batch' = Append(batch, items)
        /\ posted' = Append(posted, [i \in DOMAIN items |-> 0])
  BY DEF ReadMsg
<1>2. /\ thread[Master].pc = "read" /\ Set(Master, r)
      /\ workedThreadNum' = startedThreadNum
      /\ UNCHANGED <<startedThreadNum, ring, kernel, sendWqeNum, completed>>
  BY DEF ReadMsg, WorkedThreads
<1>3. /\ arrived > 0 /\ startedThreadNum \in {1, 2} /\ head = tail
      /\ startedThreadNum = 1 <=> thread[Slave].pc = "none"
  <2>1. arrived > 0 /\ (startedThreadNum = 1 <=> thread[Slave].pc = "none")
    BY <1>2 DEF StartInv, TypeOK, DataOK
  <2>2. startedThreadNum \in {1, 2}
    BY <2>1 DEF StartInv
  <2>3. head = tail
    BY <1>2, <2>1 DEF RingInv
  <2> QED
    BY <2>1, <2>2, <2>3
<1>4. /\ Len(batch) \in Nat /\ Len(batch') = m /\ batch'[m] = items
      /\ posted'[m] = [i \in DOMAIN items |-> 0] /\ Len(posted') = m
      /\ batch' \in Seq(Seq(Nat)) /\ posted' \in Seq(Seq(Nat))
      /\ \A k \in 1 .. Len(batch) : batch'[k] = batch[k] /\ posted'[k] = posted[k]
  <2> DEFINE zeros == [i \in DOMAIN items |-> 0]
  <2>1. zeros \in Seq(Nat) /\ items \in Seq(Nat)
    BY BatchesAre
  <2>2. posted' = Append(posted, zeros)
    BY <1>1
  <2> HIDE DEF zeros
  <2>3. /\ posted'[m] = zeros /\ Len(posted') = m /\ posted' \in Seq(Seq(Nat))
        /\ \A k \in 1 .. Len(batch) : posted'[k] = posted[k]
    BY <2>1, <2>2 DEF TypeOK, DataOK
  <2>4. /\ Len(batch) \in Nat /\ Len(batch') = m /\ batch'[m] = items
        /\ batch' \in Seq(Seq(Nat)) /\ \A k \in 1 .. Len(batch) : batch'[k] = batch[k]
    BY <1>1, <2>1 DEF TypeOK, DataOK
  <2> QED
    BY <2>3, <2>4 DEF zeros
<1>5. /\ r \in Local /\ r.pc = (IF startedThreadNum > 1 THEN "enqueue" ELSE "post")
      /\ r.msg = m /\ r.item = 1 /\ r.cnt = 0
  <2> DEFINE pc == IF startedThreadNum > 1 THEN "enqueue" ELSE "post"
             l == [At(pc) EXCEPT !.msg = Len(batch) + 1]
  <2>1. pc \in {"enqueue", "post"} /\ r = [l EXCEPT !.item = 1]
    BY DEF At
  <2> HIDE DEF pc
  <2>2. At(pc) \in Local /\ At(pc).pc = pc /\ At(pc).cnt = 0
    BY <2>1, RingAssumption DEF At, Local
  <2>3. m \in Nat /\ l = [At(pc) EXCEPT !.msg = m]
    BY <1>4
  <2> HIDE DEF l
  <2>4. l \in Local /\ l.pc = pc /\ l.msg = m /\ l.cnt = 0
    BY <2>2, <2>3 DEF Local
  <2> HIDE DEF r
  <2> QED
    BY <2>1, <2>4 DEF pc, Local
<1> HIDE DEF r
<1>6. /\ thread' \in [Threads -> Local] /\ thread'[Master] = r
      /\ thread'[Slave] = thread[Slave]
  BY <1>2, <1>5, SetThread
\* The slave keeps its share of the messages it may know of.
<1>7. \A k \in 1 .. Len(batch) : workedThreadNum = 2 /\ thread[Slave].pc # "none" =>
            Share'[k] = Share[k]
  <2> SUFFICES ASSUME NEW k \in 1 .. Len(batch), workedThreadNum = 2,
                      thread[Slave].pc # "none"
               PROVE  Share'[k] = Share[k]
    OBVIOUS
  <2>1. k \in 1 .. m /\ workedThreadNum' = 2 /\ batch'[k] = batch[k]
    BY <1>2, <1>3, <1>4
  <2>2. Share[k] = [t \in {Master, Slave} |->
            {i \in 1 .. Len(batch[k]) : batch[k][i] # Own /\ batch[k][i] % 2 = t}]
    BY DEF Share
  <2>3. Share'[k] = [t \in {Master, Slave} |->
            {i \in 1 .. Len(batch'[k]) : batch'[k][i] # Own /\ batch'[k][i] % 2 = t}]
    BY <1>4, <2>1 DEF Share
  <2> QED
    BY <2>1, <2>2, <2>3
<1> QED
  BY <1>0, <1>1, <1>2, <1>3, <1>4, <1>5, <1>6, <1>7

LEMMA ReadMsgKeeps == TwoThreads /\ IInv /\ ReadMsg => IInv'
<1> SUFFICES ASSUME TwoThreads, IInv, ReadMsg, NEW m, m = Len(batch) + 1,
                    NEW items, items = batch'[m], NEW r, r = thread'[Master]
             PROVE  IInv'
  OBVIOUS
<1>0. Len(batch) \in Nat /\ \A k \in 1 .. m : k \in 1 .. Len(batch) \/ k = m
  BY ReadMsgIs
<1>1. items \in Batches
  BY ReadMsgIs
<1>2. /\ thread[Master].pc = "read" /\ workedThreadNum' = startedThreadNum
      /\ UNCHANGED <<startedThreadNum, ring, kernel>>
  BY ReadMsgIs
<1>3. /\ arrived > 0 /\ startedThreadNum \in {1, 2} /\ head = tail
      /\ startedThreadNum = 1 <=> thread[Slave].pc = "none"
  BY ReadMsgIs
<1>4. /\ Len(batch) \in Nat /\ Len(batch') = m /\ batch'[m] = items
      /\ posted'[m] = [i \in DOMAIN items |-> 0] /\ Len(posted') = m
      /\ batch' \in Seq(Seq(Nat)) /\ posted' \in Seq(Seq(Nat))
      /\ \A k \in 1 .. Len(batch) : batch'[k] = batch[k] /\ posted'[k] = posted[k]
  BY ReadMsgIs
<1>5. /\ r.pc = (IF startedThreadNum > 1 THEN "enqueue" ELSE "post")
      /\ r.msg = m /\ r.item = 1
  BY ReadMsgIs
<1>6. /\ thread' \in [Threads -> Local] /\ thread'[Master] = r
      /\ thread'[Slave] = thread[Slave]
  BY ReadMsgIs
<1>7. \A k \in 1 .. Len(batch) : workedThreadNum = 2 /\ thread[Slave].pc # "none" =>
            Share'[k] = Share[k]
  BY ReadMsgIs
<1> USE ThreadSet, RingAssumption DEF IInv, Peeking, Copying, Busy, Master, Slave
<1>8. \A t \in {Master, Slave} : \A i \in Share'[m][t] : posted'[m][i] = 0
  <2>1. \A t \in {Master, Slave} : Share'[m][t] \subseteq 1 .. Len(items)
    BY <1>4 DEF Share
  <2>2. \A i \in 1 .. Len(items) : posted'[m][i] = 0
    BY <1>4, BatchesAre
  <2> QED
    BY <2>1, <2>2
<1>9. TypeOK'
  <2>1. \A k \in 1 .. m : Len(posted'[k]) = Len(batch'[k])
    <3>1. Len(posted'[m]) = Len(batch'[m])
      BY <1>4, BatchesAre
    <3>2. \A k \in 1 .. Len(batch) : Len(posted'[k]) = Len(batch'[k])
      BY <1>4 DEF TypeOK, DataOK
    <3> QED
      BY <1>0, <3>1, <3>2
  <2>2. buffer \in [0 .. Capacity - 1 -> 0 .. m]
    BY <1>4 DEF TypeOK, DataOK
  <2> QED
    BY <1>2, <1>3, <1>4, <1>6, <2>1, <2>2 DEF TypeOK, DataOK, ring, kernel
<1>10. StartInv' /\ MasterInv'
  <2>1. StartInv'
    BY <1>2, <1>3, <1>5, <1>6 DEF StartInv, kernel
  <2>2. batch' # <<>>
    BY <1>4
  <2>3. MasterInv'
    BY <1>2, <1>3, <1>4, <1>5, <1>6, <2>2 DEF StartInv, MasterInv
  <2> QED
    BY <2>1, <2>3
<1>11. RingInv'
  <2>1. Untouched(Len(batch))'
    BY <1>4, <1>8 DEF Untouched, Unposted
  <2>2. \A i \in 0 .. Capacity - 1 : buffer[i] # m
    BY <1>4 DEF TypeOK, DataOK
  <2>3. thread[Slave].pc \in {"seq", "check", "post"} => thread[Slave].msg # m
    BY <1>4 DEF PeekInv, Offered
  <2> QED
    BY <1>2, <1>3, <1>4, <1>5, <1>6, <2>1, <2>2, <2>3 DEF RingInv, ring, kernel
<1>12. PeekInv'
  <2>1. ASSUME NEW k, Offered(k), thread[Slave].pc \in Copying PROVE Offered(k)'
    <3>1. k \in 1 .. Len(batch) /\ workedThreadNum = 2 /\ thread[Slave].pc # "none"
      BY <2>1 DEF Offered, MasterInv
    <3>2. k \in 1 .. m
      BY <1>0, <3>1
    <3>3. Share'[k] = Share[k]
      BY <1>7, <3>1
    <3> QED
      BY <1>4, <1>6, <2>1, <3>1, <3>2, <3>3 DEF Offered, Untouched, Unposted
  <2> QED
    <3>1. thread[Slave].last <= Len(batch) => thread[Slave].last <= m
      BY <1>4 DEF TypeOK, Local
    <3>2. thread[Slave].msg \in 1 .. Len(batch) => thread[Slave].msg \in 1 .. m
      BY <1>4
    <3> QED
      BY <1>2, <1>4, <1>6, <2>1, <3>1, <3>2 DEF PeekInv, ring
<1>13. PostInv(Master)'
  BY <1>5, <1>6, <1>8 DEF PostInv, Unposted
<1>14. PostInv(Slave)'
  <2> SUFFICES ASSUME thread[Slave].pc = "post" PROVE PostInv(Slave)'
    BY <1>6 DEF PostInv, StartInv
  <2>1. thread[Slave].msg \in 1 .. Len(batch) /\ workedThreadNum = 2
    BY DEF PeekInv, MasterInv
  <2>2. /\ Share'[thread[Slave].msg] = Share[thread[Slave].msg]
        /\ posted'[thread[Slave].msg] = posted[thread[Slave].msg]
    BY <1>4, <1>7, <2>1
  <2> QED
    BY <1>6, <2>2 DEF PostInv, Unposted
<1>15. PostedOnce'
  <2>1. \A i \in DOMAIN batch'[m] : posted'[m][i] <= 1
    BY <1>4
  <2>2. \A k \in 1 .. Len(batch) : \A i \in DOMAIN batch'[k] : posted'[k][i] <= 1
    <3>1. DOMAIN batch = 1 .. Len(batch)
      BY DEF TypeOK, DataOK
    <3>2. \A k \in 1 .. Len(batch) : \A i \in DOMAIN batch[k] : posted[k][i] <= 1
      BY <3>1 DEF PostedOnce
    <3> QED
      BY <1>4, <3>2
  <2>3. DOMAIN batch' = 1 .. m
    BY <1>4
  <2> QED
    BY <1>0, <2>1, <2>2, <2>3 DEF PostedOnce
<1> QED
  BY <1>9, <1>10, <1>11, <1>12, <1>13, <1>14, <1>15

----------------------------------------------------------------------------
(* Either thread: an item more.                                             *)

\* What NextItem leaves of item k0 of message m0: it is posted if it is of the
\* thread's share.
ItemDone(t, m0, k0) ==
    /\ thread[t].pc = "post" /\ UNCHANGED <<sharedCtx, ring, kernel, batch, completed>>
    /\ m0 \in 1 .. Len(batch) /\ k0 \in 1 .. Len(batch[m0])
    /\ Share' = Share
    /\ thread' \in [Threads -> Local]
    /\ \A u \in {Master, Slave} \ {t} : thread'[u] = thread[u]
    /\ thread'[t].pc = "post" /\ thread'[t].msg = m0 /\ thread'[t].item = k0 + 1
    /\ thread'[t].seq = thread[t].seq /\ thread'[t].last = thread[t].last
    /\ thread'[t].idx = thread[t].idx
    /\ thread'[t].cnt = thread[t].cnt + (IF k0 \in Share[m0][t] THEN 1 ELSE 0)
    /\ posted' \in Seq(Seq(Nat)) /\ Len(posted') = Len(batch)
    /\ \A j \in 1 .. Len(batch) : Len(posted'[j]) = Len(batch[j])
    /\ \A j \in 1 .. Len(batch) : \A i \in 1 .. Len(batch[j]) :
         \/ posted'[j][i] = posted[j][i]
         \/ j = m0 /\ i = k0 /\ k0 \in Share[m0][t] /\ posted'[j][i] = 1
    /\ k0 \in Share[m0][t] => posted'[m0][k0] = 1

LEMMA NextItemIs ==
    ASSUME TwoThreads, IInv, NEW t \in {Master, Slave}, NextItem(t),
           NEW m0, m0 = thread[t].msg, NEW k0, k0 = thread[t].item
    PROVE  ItemDone(t, m0, k0)
<1>1. /\ thread[t] \in Local /\ thread[t].pc = "post" /\ Mine(t) \in BOOLEAN
      /\ UNCHANGED <<sharedCtx, ring, kernel, batch, completed>>
  BY ThreadSet DEF NextItem, MoreItems, IInv, TypeOK, Mine
<1>2. batch \in Seq(Seq(Nat)) /\ Len(batch) \in Nat /\ DOMAIN batch = 1 .. Len(batch)
  BY DEF IInv, TypeOK, DataOK
<1>3. m0 \in 1 .. Len(batch) /\ k0 \in 1 .. Len(batch[m0])
  <2>1. m0 \in 1 .. Len(batch)
    <3>1. CASE t = Master
      <4>1. m0 = Len(batch) /\ batch # <<>>
        BY <1>1, <3>1 DEF IInv, MasterInv, Busy
      <4> QED
        BY <1>2, <4>1
    <3>2. CASE t = Slave
      BY <1>1, <3>2 DEF IInv, PeekInv
    <3> QED
      BY <3>1, <3>2
  <2>2. k0 >= 1 /\ k0 \in Nat
    BY <1>1 DEF IInv, PostInv, Local
  <2>3. k0 <= Len(batch[m0])
    BY DEF NextItem, MoreItems
  <2>4. Len(batch[m0]) \in Nat
    BY <1>2, <2>1
  <2> QED
    BY <2>1, <2>2, <2>3, <2>4
<1>4. Share' = Share
  BY <1>1, ShareStays DEF sharedCtx
<1>5. Mine(t) <=> k0 \in Share[m0][t]
  BY <1>3, ShareIs DEF Mine
\* The thread goes on to the next item.
<1>6. /\ thread' \in [Threads -> Local]
      /\ \A u \in {Master, Slave} \ {t} : thread'[u] = thread[u]
      /\ thread'[t].pc = "post" /\ thread'[t].msg = m0 /\ thread'[t].item = k0 + 1
      /\ thread'[t].seq = thread[t].seq /\ thread'[t].last = thread[t].last
      /\ thread'[t].idx = thread[t].idx
      /\ thread'[t].cnt = thread[t].cnt + (IF k0 \in Share[m0][t] THEN 1 ELSE 0)
  <2>1. thread \in [Threads -> Local] /\ t \in Threads
    BY ThreadSet DEF IInv, TypeOK
  <2>2. \/ Mine(t) /\ thread' = [thread EXCEPT ![t].item = @ + 1, ![t].cnt = @ + 1]
        \/ ~Mine(t) /\ thread' = [thread EXCEPT ![t].item = @ + 1]
    BY DEF NextItem
  <2> QED
    BY <1>1, <1>5, <2>1, <2>2, ThreadSet DEF Local
\* It has posted this one if it is of its share.
<1>7. \/ k0 \notin Share[m0][t] /\ posted' = posted
      \/ /\ k0 \in Share[m0][t] /\ posted[m0][k0] = 0
         /\ posted' = [posted EXCEPT ![m0][k0] = @ + 1]
  <2>1. CASE Mine(t)
    <3>1. k0 \in Share[m0][t]
      BY <1>5, <2>1
    <3>2. posted[m0][k0] = 0
      BY <1>1, <1>3, <3>1 DEF IInv, PostInv, Unposted
    <3> QED
      BY <2>1, <3>1, <3>2 DEF NextItem
  <2>2. CASE ~Mine(t)
    BY <1>5, <2>2 DEF NextItem
  <2> QED
    BY <2>1, <2>2
<1>8. posted \in Seq(Seq(Nat)) /\ Len(posted) = Len(batch)
      /\ \A j \in 1 .. Len(batch) : Len(posted[j]) = Len(batch[j])
  BY DEF IInv, TypeOK, DataOK
<1>9. /\ posted' \in Seq(Seq(Nat)) /\ Len(posted') = Len(batch)
      /\ \A j \in 1 .. Len(batch) : Len(posted'[j]) = Len(batch[j])
      /\ \A j \in 1 .. Len(batch) : \A i \in 1 .. Len(batch[j]) :
            \/ posted'[j][i] = posted[j][i]
            \/ j = m0 /\ i = k0 /\ k0 \in Share[m0][t] /\ posted'[j][i] = 1
      /\ k0 \in Share[m0][t] => posted'[m0][k0] = 1
  <2>1. CASE k0 \notin Share[m0][t] /\ posted' = posted
    BY <1>8, <2>1
  <2>2. CASE /\ k0 \in Share[m0][t] /\ posted[m0][k0] = 0
             /\ posted' = [posted EXCEPT ![m0][k0] = @ + 1]
    <3> DEFINE s == [posted[m0] EXCEPT ![k0] = 1]
    <3>1. posted[m0] \in Seq(Nat) /\ Len(posted[m0]) = Len(batch[m0])
      <4>1. m0 \in 1 .. Len(posted)
        BY <1>3, <1>8
      <4>2. \A j \in 1 .. Len(posted) : posted[j] \in Seq(Nat)
        BY <1>8
      <4> QED
        BY <1>3, <1>8, <4>1, <4>2
    <3>2. s \in Seq(Nat) /\ Len(s) = Len(batch[m0]) /\ s[k0] = 1
          /\ \A i \in 1 .. Len(batch[m0]) : i # k0 => s[i] = posted[m0][i]
      BY <1>3, <3>1
    <3>3. posted' = [posted EXCEPT ![m0] = s]
      BY <2>2
    <3> HIDE DEF s
    <3>4. /\ posted' \in Seq(Seq(Nat)) /\ Len(posted') = Len(batch) /\ posted'[m0] = s
          /\ \A j \in 1 .. Len(batch) : j # m0 => posted'[j] = posted[j]
      BY <1>3, <1>8, <3>2, <3>3
    <3>5. \A j \in 1 .. Len(batch) : Len(posted'[j]) = Len(batch[j])
      BY <1>8, <3>2, <3>4
    <3>6. \A j \in 1 .. Len(batch) : \A i \in 1 .. Len(batch[j]) :
            posted'[j][i] = posted[j][i] \/ (j = m0 /\ i = k0 /\ posted'[j][i] = 1)
      BY <3>2, <3>4
    <3> QED
      BY <2>2, <3>2, <3>4, <3>5, <3>6
  <2> QED
    BY <1>7, <2>1, <2>2
<1> QED
  BY <1>1, <1>3, <1>4, <1>6, <1>9 DEF ItemDone

LEMMA NextItemKeeps ==
    ASSUME TwoThreads, IInv, NEW t \in {Master, Slave}, NextItem(t)
    PROVE  IInv'
<1> DEFINE m == thread[t].msg
           k == thread[t].item
<1> SUFFICES ASSUME NEW m0, m0 = m, NEW k0, k0 = k PROVE IInv'
  OBVIOUS
<1>0. ItemDone(t, m0, k0)
  BY NextItemIs
<1>1. thread[t].pc = "post" /\ UNCHANGED <<sharedCtx, ring, kernel, batch, completed>>
  BY <1>0 DEF ItemDone
<1>2. batch \in Seq(Seq(Nat)) /\ Len(batch) \in Nat /\ DOMAIN batch = 1 .. Len(batch)
  BY DEF IInv, TypeOK, DataOK
<1>3. m0 \in 1 .. Len(batch) /\ k0 \in 1 .. Len(batch[m0])
  BY <1>0 DEF ItemDone
<1>4. Share' = Share
  BY <1>0 DEF ItemDone
<1>5. /\ thread' \in [Threads -> Local]
      /\ \A u \in {Master, Slave} \ {t} : thread'[u] = thread[u]
      /\ thread'[t].pc = "post" /\ thread'[t].msg = m0 /\ thread'[t].item = k0 + 1
      /\ thread'[t].seq = thread[t].seq /\ thread'[t].last = thread[t].last
      /\ thread'[t].idx = thread[t].idx
  BY <1>0 DEF ItemDone
<1>6. /\ posted' \in Seq(Seq(Nat)) /\ Len(posted') = Len(batch)
      /\ \A j \in 1 .. Len(batch) : Len(posted'[j]) = Len(batch[j])
      /\ \A j \in 1 .. Len(batch) : \A i \in 1 .. Len(batch[j]) :
            \/ posted'[j][i] = posted[j][i]
            \/ j = m0 /\ i = k0 /\ k0 \in Share[m0][t] /\ posted'[j][i] = 1
  BY <1>0 DEF ItemDone
\* Nothing of the other thread's, and nothing that lies ahead, is disturbed.
<1>7. ASSUME NEW u \in {Master, Slave}, NEW j \in 1 .. Len(batch), NEW h,
             Unposted(j, u, h), u # t \/ j # m0 \/ h = k0 + 1
      PROVE  \A i \in Share[j][u] : i >= h => posted'[j][i] = 0
  <2> SUFFICES ASSUME NEW i \in Share[j][u], i >= h PROVE posted'[j][i] = 0
    OBVIOUS
  <2>1. posted[j][i] = 0 /\ i \in 1 .. Len(batch[j])
    BY <1>7, ShareApart DEF Unposted
  <2>2. ~(j = m0 /\ i = k0 /\ k0 \in Share[m0][t])
    BY <1>3, <1>7, ShareApart
  <2> QED
    BY <1>6, <2>1, <2>2
<1> HIDE DEF m, k
<1> USE DEF sharedCtx, ring, kernel
<1>8. /\ \A u \in {Master, Slave} :
            /\ thread'[u].pc = thread[u].pc /\ thread'[u].msg = thread[u].msg
            /\ thread'[u].last = thread[u].last /\ thread'[u].seq = thread[u].seq
            /\ thread'[u].idx = thread[u].idx
       /\ Master \in {Master, Slave} /\ Slave \in {Master, Slave} /\ Master # Slave
  BY <1>1, <1>5 DEF m, Master, Slave
<1>9. TypeOK'
  BY <1>1, <1>5, <1>6 DEF IInv, TypeOK, DataOK
<1>10. StartInv' /\ MasterInv'
  BY <1>1, <1>8 DEF IInv, StartInv, MasterInv
<1>11. ASSUME NEW u \in {Master, Slave} PROVE PostInv(u)'
  <2> SUFFICES ASSUME thread[u].pc \in {"enqueue", "post"} PROVE PostInv(u)'
    BY <1>8 DEF PostInv
  <2>1. thread[u].item >= 1 /\ Unposted(thread[u].msg, u, thread[u].item)
    BY DEF IInv, PostInv
  <2>2. CASE u = t
    <3>1. Unposted(m0, t, k0 + 1)
      BY <1>3, <2>1, <2>2, ShareApart DEF Unposted, m, k
    <3> QED
      BY <1>3, <1>4, <1>5, <1>7, <2>1, <2>2, <3>1 DEF PostInv, Unposted, m, k
  <2>3. CASE u # t
    <3>1. thread[u].msg \in 1 .. Len(batch)
      <4>1. u = Master => thread[u].msg = Len(batch) /\ batch # <<>>
        BY DEF IInv, MasterInv, Busy
      <4>2. u = Slave => thread[u].msg \in 1 .. Len(batch)
        BY DEF IInv, PeekInv, StartInv
      <4> QED
        BY <1>2, <4>1, <4>2
    <3>2. thread'[u] = thread[u]
      BY <1>5, <2>3
    <3>3. \A i \in Share[thread[u].msg][u] :
                i >= thread[u].item => posted'[thread[u].msg][i] = 0
      BY <1>7, <2>1, <2>3, <3>1
    <3> QED
      BY <1>4, <2>1, <3>2, <3>3 DEF PostInv, Unposted
  <2> QED
    BY <2>2, <2>3
<1>12. ASSUME NEW j \in 1 .. Len(batch), t = Master \/ j # m0, Untouched(j)
       PROVE  \A i \in Share[j][Slave] : i >= 1 => posted'[j][i] = 0
  BY <1>7, <1>8, <1>12 DEF Untouched
<1>13. ASSUME NEW j, t = Master, Offered(j) PROVE Offered(j)'
  BY <1>1, <1>4, <1>8, <1>12, <1>13 DEF Offered, Untouched, Unposted
<1>14. RingInv'
  <2>1. ASSUME thread[Master].pc = "enqueue" PROVE Untouched(Len(batch))'
    <3>1. t = Slave /\ m0 # Len(batch) /\ Untouched(Len(batch)) /\ batch # <<>>
      BY <1>1, <2>1 DEF IInv, RingInv, MasterInv, Busy, m
    <3>2. Len(batch) \in 1 .. Len(batch)
      BY <1>2, <3>1
    <3> QED
      BY <1>1, <1>4, <1>12, <3>1, <3>2 DEF Untouched, Unposted
  <2>2. ASSUME arrived > 0, head # tail, thread[Slave].pc \in Peeking \cup {"loop"}
        PROVE  Offered(Len(batch))'
    BY <1>1, <1>13, <2>2 DEF IInv, RingInv, Peeking
  <2>3. ASSUME arrived > 0, head # tail, thread[Slave].pc = "post"
        PROVE  thread[Slave].msg = Len(batch) \/ Untouched(Len(batch))'
    <3>1. /\ batch # <<>> /\ Len(batch) \in 1 .. Len(batch)
          /\ thread[Slave].msg = Len(batch) \/ Untouched(Len(batch))
      BY <1>2, <2>3 DEF IInv, RingInv
    <3>2. t = Master \/ m0 = thread[Slave].msg
      BY DEF m
    <3> QED
      BY <1>1, <1>4, <1>12, <3>1, <3>2 DEF Untouched, Unposted
  <2> QED
    BY <1>1, <1>8, <2>1, <2>2, <2>3 DEF IInv, RingInv
<1>15. PeekInv'
  <2>1. ASSUME NEW j, thread[Slave].pc \in Copying, Offered(j) PROVE Offered(j)'
    BY <1>1, <1>13, <2>1 DEF Copying, Peeking
  <2> QED
    BY <1>1, <1>8, <2>1 DEF IInv, PeekInv
<1>16. PostedOnce'
  <2>1. \A j \in 1 .. Len(batch) : DOMAIN batch[j] = 1 .. Len(batch[j])
    BY <1>2
  <2>2. \A j \in 1 .. Len(batch) : \A i \in DOMAIN batch[j] : posted[j][i] <= 1
    BY <1>2 DEF IInv, PostedOnce
  <2>3. ASSUME NEW j \in 1 .. Len(batch), NEW i \in DOMAIN batch[j] PROVE posted'[j][i] <= 1
    <3>1. posted'[j][i] = posted[j][i] \/ posted'[j][i] = 1
      BY <1>6, <2>1
    <3> QED
      BY <2>2, <3>1
  <2> QED
    BY <1>1, <1>2, <2>3 DEF PostedOnce
<1> QED
  BY <1>8, <1>9, <1>10, <1>11, <1>14, <1>15, <1>16 DEF IInv

----------------------------------------------------------------------------
(* The blocks, and the whole.                                               *)

LEMMA ArriveIs ==
    ASSUME DataOK, Arrive
    PROVE  /\ arrived' \in 1 .. NumBlocks
           /\ opThreadIdx' = IF arrived' = NumBlocks THEN 0 ELSE arrived'
           /\ opThreadIdx = arrived
           /\ UNCHANGED <<workedThreadNum, buffer, history>>
BY ThreadsAssumption DEF DataOK, Arrive

LEMMA StartKeeps ==
    TwoThreads /\ IInv /\ (StartMaster \/ StartSlave \/ StartInvalid) => IInv'
<1> SUFFICES ASSUME TwoThreads, IInv, StartMaster \/ StartSlave \/ StartInvalid
             PROVE  IInv'
  OBVIOUS
<1> USE ThreadSet, RingAssumption, ThreadsAssumption DEF IInv, Peeking, Copying, Busy, Master, Slave
<1>1. /\ arrived' \in 1 .. NumBlocks
      /\ opThreadIdx' = IF arrived' = NumBlocks THEN 0 ELSE arrived'
      /\ opThreadIdx = arrived
      /\ UNCHANGED <<workedThreadNum, buffer, history>>
  BY ArriveIs DEF TypeOK, StartMaster, StartSlave, StartInvalid
<1>2. Share' = Share
  BY <1>1, ShareStays DEF history
<1>3. /\ arrived \in Nat /\ arrived' > 0 /\ 0 \in 0 .. Capacity - 1
      /\ At("read") \in Local /\ At("loop") \in Local
      /\ thread[Master] \in Local /\ thread[Slave] \in Local
  BY <1>1 DEF TypeOK, DataOK, At, Local
<1>4. CASE StartMaster
  <2>1. /\ arrived = 0 /\ startedThreadNum' = 1 /\ head' = 0 /\ tail' = 0
        /\ Set(Master, At("read"))
    BY <1>1, <1>4 DEF StartMaster, Clear
  <2>2. /\ thread' \in [Threads -> Local] /\ thread'[Slave] = thread[Slave]
        /\ thread'[Master] = At("read")
        /\ thread[Master].pc = "none" /\ thread[Slave].pc = "none"
    BY <1>3, <2>1, SetThread DEF StartInv
  <2>3. TypeOK'
    BY <1>1, <1>3, <2>1, <2>2 DEF TypeOK, DataOK, history
  <2>4. StartInv' /\ MasterInv' /\ RingInv' /\ PeekInv'
    BY <1>1, <1>3, <2>1, <2>2 DEF StartInv, MasterInv, RingInv, PeekInv, At, history
  <2>5. PostInv(Master)' /\ PostInv(Slave)' /\ PostedOnce'
    BY <1>1, <1>2, <2>2 DEF PostInv, Unposted, PostedOnce, At, history
  <2> QED
    BY <2>3, <2>4, <2>5
<1>5. CASE StartSlave
  <2>1. /\ arrived > 0 /\ startedThreadNum = 1 /\ startedThreadNum' = 2
        /\ thread[Slave].pc = "none" /\ head' = head /\ tail' = tail
        /\ Set(Slave, At("loop"))
    BY <1>1, <1>3, <1>5 DEF StartSlave, StartInv, TwoThreads
  <2>2. /\ thread' \in [Threads -> Local] /\ thread'[Slave] = At("loop")
        /\ thread'[Master] = thread[Master]
    BY <1>3, <2>1, SetThread
  <2>3. head = tail
    BY <2>1 DEF RingInv
  <2>4. TypeOK'
    BY <1>1, <1>3, <2>1, <2>2 DEF TypeOK, DataOK, history
  <2>5. StartInv' /\ MasterInv'
    BY <1>1, <1>3, <2>1, <2>2 DEF StartInv, MasterInv, At, history
  <2>6. RingInv'
    <3>1. Untouched(Len(batch)) => Untouched(Len(batch))'
      BY <1>1, <1>2 DEF Untouched, Unposted, history
    <3> QED
      BY <1>1, <2>1, <2>2, <2>3, <3>1 DEF RingInv, At, history
  <2>7. PeekInv'
    BY <1>1, <2>2 DEF PeekInv, At, history, TypeOK, DataOK
  <2>8. PostInv(Master)' /\ PostInv(Slave)' /\ PostedOnce'
    BY <1>1, <1>2, <2>2 DEF PostInv, Unposted, PostedOnce, At, history
  <2> QED
    BY <2>4, <2>5, <2>6, <2>7, <2>8
<1>6. CASE StartInvalid
  <2>1. arrived > 0 /\ UNCHANGED <<startedThreadNum, head, tail, thread>>
    BY <1>1, <1>3, <1>6 DEF StartInvalid, sharedCtx
  <2>2. TypeOK'
    BY <1>1, <2>1 DEF TypeOK, DataOK, history
  <2>3. StartInv' /\ MasterInv'
    BY <1>1, <1>3, <2>1 DEF StartInv, MasterInv, history
  <2>4. RingInv' /\ PeekInv'
    <3>1. ASSUME NEW m PROVE Offered(m) <=> Offered(m)'
      BY <1>1, <1>2, <2>1 DEF Offered, Untouched, Unposted, history
    <3>2. Untouched(Len(batch)) => Untouched(Len(batch))'
      BY <1>1, <1>2 DEF Untouched, Unposted, history
    <3> QED
      BY <1>1, <2>1, <3>1, <3>2 DEF RingInv, PeekInv, history
  <2>5. PostInv(Master)' /\ PostInv(Slave)' /\ PostedOnce'
    BY <1>1, <1>2, <2>1 DEF PostInv, Unposted, PostedOnce, history
  <2> QED
    BY <2>2, <2>3, <2>4, <2>5
<1> QED
  BY <1>4, <1>5, <1>6

LEMMA NextLaunchKeeps == TwoThreads /\ IInv /\ NextLaunch => IInv'
<1> SUFFICES ASSUME TwoThreads, IInv, NextLaunch PROVE IInv'
  OBVIOUS
<1> USE ThreadSet, RingAssumption, ThreadsAssumption
    DEF IInv, Peeking, Copying, Busy, Master, Slave, sharedCtx, ring, history
<1>1. /\ arrived = NumBlocks /\ arrived' = 0
      /\ thread' = [t \in Threads |-> At("none")]
      /\ UNCHANGED <<sharedCtx, ring, opThreadIdx, history>>
  BY DEF NextLaunch
<1>2. At("none") \in Local
  BY DEF At, Local
<1>3. /\ thread' \in [Threads -> Local]
      /\ thread'[Master] = At("none") /\ thread'[Slave] = At("none")
  BY <1>1, <1>2
<1>4. TypeOK'
  BY <1>1, <1>3 DEF TypeOK, DataOK
<1>5. StartInv' /\ MasterInv' /\ RingInv'
  BY <1>1, <1>3 DEF StartInv, MasterInv, RingInv, At
<1>6. PeekInv'
  BY <1>1, <1>3 DEF PeekInv, At, TypeOK, DataOK
<1>7. PostInv(Master)' /\ PostInv(Slave)' /\ PostedOnce'
  BY <1>1, <1>3 DEF PostInv, PostedOnce, At
<1> QED
  BY <1>4, <1>5, <1>6, <1>7

LEMMA StutterKeeps == TwoThreads /\ IInv /\ UNCHANGED vars => IInv'
<1> SUFFICES ASSUME TwoThreads, IInv, UNCHANGED vars PROVE IInv'
  OBVIOUS
<1> USE DEF vars, sharedCtx, ring, kernel, history
<1>1. Share' = Share
  BY ShareStays
<1>2. ASSUME NEW m PROVE (Offered(m) <=> Offered(m)') /\ (Untouched(m) <=> Untouched(m)')
  BY <1>1 DEF Offered, Untouched, Unposted
<1>3. (TypeOK /\ StartInv /\ MasterInv)'
  BY DEF IInv, TypeOK, DataOK, StartInv, MasterInv
<1>4. RingInv' /\ PeekInv'
  <2>1. Untouched(Len(batch)) => Untouched(Len(batch))'
    BY <1>1 DEF Untouched, Unposted
  <2> QED
    BY <1>2, <2>1 DEF IInv, RingInv, PeekInv
<1>5. PostInv(Master)' /\ PostInv(Slave)' /\ PostedOnce'
  BY <1>1 DEF IInv, PostInv, Unposted, PostedOnce
<1> QED
  BY <1>3, <1>4, <1>5 DEF IInv

LEMMA InitInv == TwoThreads /\ Init => IInv
<1> SUFFICES ASSUME TwoThreads, Init PROVE IInv
  OBVIOUS
<1> USE ThreadSet, RingAssumption, ThreadsAssumption
    DEF Init, Peeking, Copying, Busy, Master, Slave
<1>1. At("none") \in Local
  BY DEF At, Local
<1>2. /\ thread \in [Threads -> Local]
      /\ thread[Master] = At("none") /\ thread[Slave] = At("none")
  BY <1>1
<1>3. TypeOK
  BY <1>2 DEF TypeOK, DataOK
<1>4. StartInv /\ MasterInv /\ RingInv /\ PeekInv
  BY <1>2 DEF StartInv, MasterInv, RingInv, PeekInv, At
<1>5. PostInv(Master) /\ PostInv(Slave) /\ PostedOnce
  BY <1>2 DEF PostInv, PostedOnce, At
<1> QED
  BY <1>3, <1>4, <1>5 DEF IInv

LEMMA IInvKeeps == TwoThreads /\ IInv /\ [Next]_vars => IInv'
<1> SUFFICES ASSUME TwoThreads, IInv, [Next]_vars PROVE IInv'
  OBVIOUS
<1>1. CASE StartMaster \/ StartSlave \/ StartInvalid
  BY <1>1, StartKeeps
<1>2. CASE NextLaunch
  BY <1>2, NextLaunchKeeps
<1>3. CASE MasterNext
  <2>1. Master \in {Master, Slave}
    OBVIOUS
  <2> QED
    BY <1>3, <2>1, ReadMsgKeeps, EnqueueKeeps, NextItemKeeps, MasterStopsKeeps, WaitKeeps,
       DequeueKeeps DEF MasterNext, HandleBatchWrite, Post
<1>4. CASE \E s \in Slaves : SlaveNext(s)
  <2>1. SlaveNext(Slave) /\ Slave \in {Master, Slave}
    BY <1>4, ThreadSet
  <2>2. ASSUME PostSendFails(Slave) PROVE IInv'
    BY <2>2, SlaveStops DEF PostSendFails, MoreItems
  <2> QED
    BY <2>1, <2>2, SlaveLoopKeeps, PeekHeadKeeps, PeekTailKeeps, CopyKeeps, PeekDoneKeeps,
       NextItemKeeps, SlaveStoreKeeps DEF SlaveNext, Post
<1>5. CASE Terminated \/ UNCHANGED vars
  BY <1>5, StutterKeeps DEF Terminated
<1> QED
  BY <1>1, <1>2, <1>3, <1>4, <1>5 DEF Next

----------------------------------------------------------------------------
\* No item is posted twice (HandleBatchWriteOperation hands each item to one
\* thread by its rank): with the two threads of MAX_BATCH_WRITE_THREAD_NUM, and
\* a Peek that is over before the ring comes round.
THEOREM ItemsPostedOnce == ASSUME MaxThreads = 2, ~SlowPeek PROVE Spec => []PostedOnce
<1>1. TwoThreads
  BY DEF TwoThreads
<1>2. Init => IInv
  BY <1>1, InitInv
<1>3. IInv /\ [Next]_vars => IInv'
  BY <1>1, IInvKeeps
<1>4. IInv => PostedOnce
  BY DEF IInv
<1> QED
  BY <1>2, <1>3, <1>4, PTL DEF Spec
----------------------------------------------------------------------------
(* A message reported finished is posted.  The counts the master adds up are  *)
(* those of its own message: a slave that is late has nothing left to count.   *)

\* The share of thread t in message m is posted, and how much it is.
Settled(m, t) == \A i \in Share[m][t] : posted[m][i] > 0
Due(m, t) == Cardinality(Share[m][t])
Passed(m, t, k) == {i \in Share[m][t] : i < k}

\* Messages fit their count, and only messages are completed.
NumOK ==
    /\ sendWqeNum \in [Threads -> Nat]
    /\ \A m \in 1 .. Len(batch) : Len(batch[m]) <= MaxItems
    /\ completed \subseteq 1 .. Len(batch)
    /\ arrived > 0 => thread[Master].pc # "none"

\* A thread has posted, and counted, what it has passed of its share.
TallyInv(t) ==
    /\ thread[t].pc \in Peeking \cup {"loop"} => thread[t].cnt = 0
    /\ thread[t].pc \in {"enqueue", "post"} =>
        LET m == thread[t].msg
            passed == Passed(m, t, thread[t].item)
        IN thread[t].cnt = Cardinality(passed) /\ \A i \in passed : posted[m][i] > 0

\* What is stored is the share of the master's message, or nothing yet.
StoredInv ==
    /\ thread[Master].pc = "count" =>
        sendWqeNum[Master] = Due(Len(batch), Master) /\ Settled(Len(batch), Master)
    /\ thread[Slave].pc # "none" /\ thread[Master].pc \in Busy \cup {"read"} =>
        \/ sendWqeNum[Slave] = 0
        \/ /\ thread[Master].pc \in {"post", "count"}
           /\ sendWqeNum[Slave] = Due(Len(batch), Slave) /\ Settled(Len(batch), Slave)
    /\ thread[Master].pc = "dequeue" =>
        Settled(Len(batch), Master) /\ Settled(Len(batch), Slave)

\* The slave is at the message the master is at, or at one that is settled.
Underway(m) == m = Len(batch) /\ thread[Master].pc \in {"post", "count", "failed"}
LateInv ==
    /\ thread[Slave].pc \in Copying =>
        \/ thread[Slave].pc = "tail" /\ thread[Slave].idx = tail
        \/ Underway(buffer[thread[Slave].idx])
        \/ Settled(buffer[thread[Slave].idx], Slave)
    /\ thread[Slave].pc = "post" =>
        \/ Share[thread[Slave].msg][Slave] = {}
        \/ /\ Underway(thread[Slave].msg)
           /\ thread[Master].pc # "failed" => sendWqeNum[Slave] = 0

CountInv ==
    /\ NumOK /\ TallyInv(Master) /\ TallyInv(Slave) /\ StoredInv /\ LateInv
    /\ CompletedIsPosted

----------------------------------------------------------------------------
LEMMA ShareFinite ==
    ASSUME TypeOK, NEW m \in 1 .. Len(batch), NEW t \in {Master, Slave}
    PROVE  /\ IsFiniteSet(Share[m][t]) /\ Due(m, t) \in Nat
           /\ Share[m][t] \subseteq 1 .. Len(batch[m]) /\ Len(batch[m]) \in Nat
<1>1. Len(batch[m]) \in Nat
  BY DEF TypeOK, DataOK
<1>2. Share[m][t] \subseteq 1 .. Len(batch[m])
  BY ShareApart
<1>3. IsFiniteSet(1 .. Len(batch[m]))
  BY <1>1, FS_Interval
<1>4. IsFiniteSet(Share[m][t])
  BY <1>2, <1>3, FS_Subset
<1> QED
  BY <1>1, <1>2, <1>4, FS_CardinalityType DEF Due

\* One item further.
LEMMA PassedNext ==
    ASSUME TypeOK, NEW m \in 1 .. Len(batch), NEW t \in {Master, Slave}, NEW k \in Nat
    PROVE  /\ Cardinality(Passed(m, t, k)) \in Nat
           /\ Passed(m, t, k + 1) =
                Passed(m, t, k) \cup (IF k \in Share[m][t] THEN {k} ELSE {})
           /\ Cardinality(Passed(m, t, k + 1)) =
                Cardinality(Passed(m, t, k)) + (IF k \in Share[m][t] THEN 1 ELSE 0)
<1>1. IsFiniteSet(Share[m][t]) /\ \A i \in Share[m][t] : i \in Nat
  BY ShareFinite
<1>2. IsFiniteSet(Passed(m, t, k)) /\ k \notin Passed(m, t, k)
  BY <1>1, FS_Subset DEF Passed
<1>3. Passed(m, t, k + 1) = Passed(m, t, k) \cup (IF k \in Share[m][t] THEN {k} ELSE {})
  BY <1>1 DEF Passed
<1>4. /\ Cardinality(Passed(m, t, k)) \in Nat
      /\ Cardinality(Passed(m, t, k) \cup {k}) = Cardinality(Passed(m, t, k)) + 1
  BY <1>2, FS_CardinalityType, FS_AddElement
<1>5. Cardinality(Passed(m, t, k + 1)) =
        Cardinality(Passed(m, t, k)) + (IF k \in Share[m][t] THEN 1 ELSE 0)
  <2>1. CASE k \in Share[m][t]
    BY <1>3, <1>4, <2>1
  <2>2. CASE k \notin Share[m][t]
    <3>1. Passed(m, t, k + 1) = Passed(m, t, k)
      BY <1>3, <2>2
    <3> QED
      BY <1>4, <2>2, <3>1
  <2> QED
    BY <2>1, <2>2
<1> QED
  BY <1>3, <1>4, <1>5

\* Before the first item nothing is passed, after the last the whole share.
LEMMA PassedEnds ==
    ASSUME TypeOK, NEW m \in 1 .. Len(batch), NEW t \in {Master, Slave}
    PROVE  /\ Passed(m, t, 1) = {} /\ Cardinality({}) = 0
           /\ \A k \in Nat : k > Len(batch[m]) => Passed(m, t, k) = Share[m][t]
BY ShareFinite, FS_EmptySet DEF Passed

\* The loop of WaitForSlaveCompletion, for one thread and for two.
LEMMA SendNumIs ==
    ASSUME TwoThreads, sendWqeNum \in [Threads -> Nat]
    PROVE  /\ SendNum[1] = sendWqeNum[Master]
           /\ SendNum[2] = sendWqeNum[Master] + sendWqeNum[Slave]
<1> DEFINE F(f) == [n \in 0 .. 2 |-> IF n = 0 THEN 0 ELSE f[n - 1] + sendWqeNum[n - 1]]
           g == [n \in 0 .. 2 |-> IF n = 0 THEN 0
                                  ELSE IF n = 1 THEN sendWqeNum[0]
                                  ELSE sendWqeNum[0] + sendWqeNum[1]]
<1>1. sendWqeNum[0] \in Nat /\ sendWqeNum[1] \in Nat
  BY ThreadSet DEF Master, Slave
<1>2. g = F(g)
  <2>1. \A n \in 0 .. 2 : g[n] = F(g)[n]
    BY <1>1
  <2> QED
    BY <2>1
<1>3. SendNum = CHOOSE f : f = F(f)
  BY DEF SendNum, TwoThreads
<1> HIDE DEF F, g
<1>4. SendNum = F(SendNum)
  BY <1>2, <1>3
<1>5. \A n \in 0 .. 2 : SendNum[n] = IF n = 0 THEN 0 ELSE SendNum[n - 1] + sendWqeNum[n - 1]
  BY <1>4 DEF F
<1>6. SendNum[0] = 0 /\ SendNum[1] = SendNum[0] + sendWqeNum[0]
      /\ SendNum[2] = SendNum[1] + sendWqeNum[1]
  BY <1>5
<1> QED
  BY <1>1, <1>6 DEF Master, Slave

\* All items for other ranks, counted without overflow, are the two shares.
LEMMA NeedIs ==
    ASSUME TypeOK, NumOK, MaxItems < CntMod, NEW m \in 1 .. Len(batch), workedThreadNum \in {1, 2}
    PROVE  /\ NeedSendTotalNum(m) = Due(m, Master) + Due(m, Slave)
           /\ \A i \in 1 .. Len(batch[m]) : batch[m][i] # Own =>
                    i \in Share[m][Master] \cup Share[m][Slave]
           /\ workedThreadNum = 1 => Due(m, Slave) = 0
<1> DEFINE all == {i \in DOMAIN batch[m] : batch[m][i] # Own}
<1>1. /\ Len(batch[m]) \in Nat /\ DOMAIN batch[m] = 1 .. Len(batch[m])
      /\ \A i \in 1 .. Len(batch[m]) : batch[m][i] \in Nat
  <2>1. batch[m] \in Seq(Nat)
    BY DEF TypeOK, DataOK
  <2> QED
    BY <2>1
<1>2. \A i \in 1 .. Len(batch[m]) : /\ batch[m][i] % workedThreadNum \in {Master, Slave}
                                    /\ workedThreadNum = 1 => batch[m][i] % workedThreadNum = Master
  BY <1>1 DEF Master, Slave
<1>3. all = Share[m][Master] \cup Share[m][Slave]
  BY <1>1, <1>2, ShareIs
<1>4. workedThreadNum = 1 => Share[m][Slave] = {}
  BY <1>2, ShareIs DEF Master, Slave
<1>5. Cardinality(all) = Due(m, Master) + Due(m, Slave)
  <2>1. Share[m][Master] \cap Share[m][Slave] = {}
    BY ShareApart
  <2>2. /\ IsFiniteSet(Share[m][Master]) /\ Due(m, Master) \in Nat
        /\ IsFiniteSet(Share[m][Slave]) /\ Due(m, Slave) \in Nat
    BY ShareFinite
  <2>3. Cardinality(all) = Cardinality(Share[m][Master]) + Cardinality(Share[m][Slave]) - 0
    BY <1>3, <2>1, <2>2, FS_Union, FS_EmptySet
  <2> QED
    BY <2>2, <2>3 DEF Due
<1>6. Cardinality(all) \in Nat /\ Cardinality(all) < CntMod
  <2>1. all \subseteq 1 .. Len(batch[m])
    BY <1>1
  <2>2. IsFiniteSet(1 .. Len(batch[m])) /\ Cardinality(1 .. Len(batch[m])) = Len(batch[m])
    <3>1. ASSUME NEW n \in Nat PROVE IsFiniteSet(1 .. n) /\ Cardinality(1 .. n) = n
      <4>1. Cardinality(1 .. n) = IF 1 > n THEN 0 ELSE n - 1 + 1
        BY FS_Interval
      <4> QED
        BY <4>1, FS_Interval
    <3> QED
      BY <1>1, <3>1
  <2>3. IsFiniteSet(all) /\ Cardinality(all) <= Len(batch[m])
    BY <2>1, <2>2, FS_Subset
  <2>4. Cardinality(all) \in Nat
    BY <2>3, FS_CardinalityType
  <2>5. Len(batch[m]) <= MaxItems
    BY DEF NumOK
  <2> HIDE DEF all
  <2> QED
    BY <1>1, <2>3, <2>4, <2>5, ItemsAssumption
<1>7. NeedSendTotalNum(m) = Cardinality(all)
  <2>1. NeedSendTotalNum(m) = Cardinality(all) % CntMod
    BY DEF NeedSendTotalNum
  <2> HIDE DEF all
  <2> QED
    BY <1>6, <2>1, ItemsAssumption
<1>8. \A i \in 1 .. Len(batch[m]) : batch[m][i] # Own => i \in Share[m][Master] \cup Share[m][Slave]
  BY <1>1, <1>3
<1> QED
  BY <1>4, <1>5, <1>7, <1>8, FS_EmptySet DEF Due

\* Where no message, share or post changes, nothing that is counted does.
LEMMA SameCounts ==
    ASSUME UNCHANGED <<batch, workedThreadNum, posted>>
    PROVE  /\ Share' = Share
           /\ \A m, t : (Settled(m, t)' <=> Settled(m, t)) /\ Due(m, t)' = Due(m, t)
           /\ \A m, t, k : Passed(m, t, k)' = Passed(m, t, k)
<1>1. Share' = Share
  BY ShareStays
<1> QED
  BY <1>1 DEF Settled, Due, Passed

LEMMA TallyStays ==
    ASSUME UNCHANGED <<batch, workedThreadNum, posted>>, NEW t, thread'[t] = thread[t], TallyInv(t)
    PROVE  TallyInv(t)'
BY SameCounts DEF TallyInv

\* A step of the slave's own: what it copies or takes is all that matters.
LEMMA SlaveMoves ==
    ASSUME TwoThreads, IInv, CountInv, NEW r \in Local, Set(Slave, r),
           UNCHANGED <<sharedCtx, ring, kernel, history>>,
           thread[Slave].pc # "none", TallyInv(Slave)', LateInv'
    PROVE  CountInv'
<1> USE DEF CountInv
<1>1. /\ thread'[Master] = thread[Master]
      /\ UNCHANGED <<sharedCtx, ring, kernel, history>>
  BY SetThread DEF IInv, Master, Slave
<1> USE <1>1 DEF sharedCtx, ring, kernel, history
<1>2. NumOK'
  BY DEF NumOK
<1>3. TallyInv(Master)'
  BY TallyStays
<1>4. StoredInv'
  BY SameCounts DEF StoredInv
<1>5. CompletedIsPosted'
  BY DEF CompletedIsPosted
<1> QED
  BY <1>2, <1>3, <1>4, <1>5

\* Neither copying nor posting, a slave has nothing that could be late.
LEMMA SlaveRests ==
    ASSUME TwoThreads, IInv, CountInv, NEW r \in Local, Set(Slave, r),
           UNCHANGED <<sharedCtx, ring, kernel, history>>,
           thread[Slave].pc # "none", r.pc \in {"loop", "head", "done", "failed"}, r.cnt = 0
    PROVE  CountInv'
<1>1. thread'[Slave] = r
  BY SetThread DEF IInv
<1>2. TallyInv(Slave)' /\ LateInv'
  BY <1>1 DEF TallyInv, LateInv, Copying, Peeking
<1> QED
  BY <1>2, SlaveMoves

\* It goes on copying from the same slot.
LEMMA SlaveCopies ==
    ASSUME TwoThreads, IInv, CountInv, NEW r \in Local, Set(Slave, r),
           UNCHANGED <<sharedCtx, ring, kernel, history>>,
           thread[Slave].pc \in Copying, ~(thread[Slave].pc = "tail" /\ thread[Slave].idx = tail),
           r.pc \in Copying, r.idx = thread[Slave].idx, r.cnt = 0
    PROVE  CountInv'
<1>1. thread'[Slave] = r /\ thread'[Master] = thread[Master]
  BY SetThread DEF IInv, Master, Slave
<1>2. TallyInv(Slave)'
  BY <1>1 DEF TallyInv, Copying, Peeking
<1>3. \/ Underway(buffer[r.idx])
      \/ Settled(buffer[r.idx], Slave)
  BY DEF CountInv, LateInv
<1>4. LateInv'
  <2>1. \A m : (Underway(m)' <=> Underway(m)) /\ (Settled(m, Slave)' <=> Settled(m, Slave))
    BY <1>1, SameCounts DEF Underway, sharedCtx, history
  <2>2. UNCHANGED <<buffer, tail>> /\ r.pc # "post"
    BY DEF ring, Copying, Peeking
  <2> QED
    BY <1>1, <1>3, <2>1, <2>2 DEF LateInv
<1> QED
  BY <1>2, <1>4, SlaveMoves DEF Copying, Peeking

\* A slave that looks for a message has counted nothing.
LEMMA WithCnt ==
    ASSUME TwoThreads, IInv, CountInv, thread[Slave].pc \in Peeking \cup {"loop"}
    PROVE  /\ thread[Slave].cnt = 0 /\ Again(Slave).cnt = 0
           /\ \A p : With(Slave, p).cnt = 0
<1>1. thread[Slave] \in Local /\ thread[Slave].cnt = 0
  BY ThreadSet DEF IInv, TypeOK, CountInv, TallyInv
<1> QED
  BY <1>1 DEF Again, At, With, Local

LEMMA SlaveLoopCounts == TwoThreads /\ IInv /\ CountInv /\ SlaveLoop(Slave) => CountInv'
<1> SUFFICES ASSUME TwoThreads, IInv, CountInv, SlaveLoop(Slave) PROVE CountInv'
  OBVIOUS
<1> DEFINE r == IF taskFinishFlag THEN At("done")
                ELSE IF Slave < workedThreadNum THEN With(Slave, "head") ELSE thread[Slave]
<1>1. thread[Slave] \in Local /\ thread[Slave].pc = "loop" /\ Set(Slave, r)
      /\ UNCHANGED <<sharedCtx, ring, kernel, history>>
  BY ThreadSet DEF IInv, TypeOK, SlaveLoop, SlaveStep
<1>2. r \in Local /\ r.pc \in {"loop", "head", "done", "failed"} /\ r.cnt = 0
  <2>1. At("done") \in Local /\ At("done").pc = "done" /\ At("done").cnt = 0
    BY RingAssumption DEF At, Local
  <2>2. /\ With(Slave, "head") \in Local /\ With(Slave, "head").pc = "head"
        /\ With(Slave, "head").cnt = 0 /\ thread[Slave].cnt = 0
    BY <1>1, WithPc, WithCnt DEF Peeking
  <2> QED
    BY <1>1, <2>1, <2>2
<1> HIDE DEF r
<1> QED
  BY <1>1, <1>2, SlaveRests

LEMMA PeekHeadCounts == TwoThreads /\ IInv /\ CountInv /\ PeekHead(Slave) => CountInv'
<1> SUFFICES ASSUME TwoThreads, IInv, CountInv, PeekHead(Slave) PROVE CountInv'
  OBVIOUS
<1> DEFINE r == [With(Slave, "tail") EXCEPT !.idx = head]
<1>1. thread[Slave] \in Local /\ thread[Slave].pc = "head" /\ Set(Slave, r)
      /\ UNCHANGED <<sharedCtx, ring, kernel, history>>
  BY ThreadSet DEF IInv, TypeOK, PeekHead, SlaveStep
<1>2. r \in Local /\ r.pc = "tail" /\ r.idx = head /\ r.cnt = 0
  <2>1. head \in 0 .. Capacity - 1
    BY DEF IInv, TypeOK, DataOK
  <2>2. With(Slave, "tail") \in Local /\ With(Slave, "tail").pc = "tail"
        /\ With(Slave, "tail").cnt = 0
    BY <1>1, WithPc, WithCnt DEF Peeking
  <2> QED
    BY <2>1, <2>2 DEF Local
<1> HIDE DEF r
<1>3. thread'[Slave] = r /\ thread'[Master] = thread[Master]
  BY <1>1, <1>2, SetThread DEF IInv, Master, Slave
<1>4. head # tail => Underway(buffer[head]) \/ Settled(buffer[head], Slave)
  <2> SUFFICES ASSUME head # tail PROVE Underway(buffer[head]) \/ Settled(buffer[head], Slave)
    OBVIOUS
  <2>1. arrived > 0
    BY <1>1, ThreadsAssumption DEF IInv, TypeOK, DataOK, StartInv
  <2>2. buffer[head] = Len(batch) /\ thread[Master].pc \notin {"read", "enqueue", "done", "none"}
    BY <2>1 DEF IInv, RingInv, CountInv, NumOK
  <2>3. thread[Master].pc \in {"post", "count", "failed", "dequeue"}
    BY <2>2, ThreadSet DEF IInv, TypeOK, StartInv, Local, Busy
  <2>4. thread[Master].pc = "dequeue" => Settled(Len(batch), Slave)
    BY DEF CountInv, StoredInv
  <2> QED
    BY <2>2, <2>3, <2>4 DEF Underway
<1>5. LateInv'
  <2>1. \A m : (Underway(m)' <=> Underway(m)) /\ (Settled(m, Slave)' <=> Settled(m, Slave))
    BY <1>1, <1>3, SameCounts DEF Underway, sharedCtx, history
  <2>2. UNCHANGED <<buffer, head, tail>>
    BY <1>1 DEF ring
  <2> QED
    BY <1>2, <1>3, <1>4, <2>1, <2>2 DEF LateInv
<1>6. TallyInv(Slave)'
  BY <1>2, <1>3 DEF TallyInv, Peeking
<1> QED
  BY <1>1, <1>2, <1>5, <1>6, SlaveMoves

LEMMA PeekTailCounts == TwoThreads /\ IInv /\ CountInv /\ PeekTail(Slave) => CountInv'
<1> SUFFICES ASSUME TwoThreads, IInv, CountInv, PeekTail(Slave) PROVE CountInv'
  OBVIOUS
<1>1. thread[Slave] \in Local /\ thread[Slave].pc = "tail"
      /\ UNCHANGED <<sharedCtx, ring, kernel, history>>
  BY ThreadSet DEF IInv, TypeOK, PeekTail, SlaveStep
<1>2. CASE thread[Slave].idx = tail
  <2>1. Set(Slave, Again(Slave))
    BY <1>2 DEF PeekTail, SlaveStep, RingEmpty
  <2> QED
    BY <1>1, <2>1, AgainIs, WithCnt, SlaveRests DEF Peeking
<1>3. CASE thread[Slave].idx # tail
  <2>1. Set(Slave, With(Slave, "payload"))
    BY <1>3 DEF PeekTail, SlaveStep
  <2> QED
    BY <1>1, <1>3, <2>1, WithPc, WithCnt, SlaveCopies DEF Copying, Peeking
<1> QED
  BY <1>2, <1>3

LEMMA CopyCounts ==
    TwoThreads /\ IInv /\ CountInv /\ (CopyPayload(Slave) \/ CopySeq(Slave)) => CountInv'
<1> SUFFICES ASSUME TwoThreads, IInv, CountInv, CopyPayload(Slave) \/ CopySeq(Slave)
             PROVE  CountInv'
  OBVIOUS
<1> DEFINE slot == buffer[thread[Slave].idx]
           r == IF thread[Slave].pc = "payload" THEN [With(Slave, "seq") EXCEPT !.msg = slot]
                ELSE [With(Slave, "check") EXCEPT !.seq = slot]
<1>1. /\ thread[Slave] \in Local /\ thread[Slave].pc \in {"payload", "seq"} /\ Set(Slave, r)
      /\ UNCHANGED <<sharedCtx, ring, kernel, history>>
  BY ThreadSet DEF IInv, TypeOK, CopyPayload, CopySeq, SlaveStep
<1>2. slot \in Nat
  <2>1. /\ buffer \in [0 .. Capacity - 1 -> 0 .. Len(batch)] /\ Len(batch) \in Nat
        /\ thread[Slave].idx \in 0 .. Capacity - 1
    BY <1>1 DEF Local, IInv, TypeOK, DataOK
  <2> QED
    BY <2>1
<1> HIDE DEF slot
<1>3. r \in Local /\ r.pc \in {"seq", "check"} /\ r.idx = thread[Slave].idx /\ r.cnt = 0
  BY <1>1, <1>2, WithPc, WithCnt, Changed DEF Peeking, Local
<1> HIDE DEF r
<1> QED
  BY <1>1, <1>3, SlaveCopies DEF Copying, Peeking

\* What it takes it has not posted: it is the master's, or nothing of it is due.
LEMMA PeekDoneCounts == TwoThreads /\ IInv /\ CountInv /\ PeekDone(Slave) => CountInv'
<1> SUFFICES ASSUME TwoThreads, IInv, CountInv, PeekDone(Slave),
                    NEW m, m = thread[Slave].msg
             PROVE  CountInv'
  OBVIOUS
<1>1. thread[Slave] \in Local /\ thread[Slave].pc = "check"
      /\ UNCHANGED <<sharedCtx, ring, kernel, history>>
  BY ThreadSet DEF IInv, TypeOK, PeekDone, SlaveStep
<1>2. CASE thread[Slave].idx = head /\ thread[Slave].seq # thread[Slave].last
  <2> DEFINE r == [With(Slave, "post") EXCEPT !.item = 1]
  <2>1. Set(Slave, r)
    BY <1>2 DEF PeekDone, SlaveStep
  <2>2. r \in Local /\ r.pc = "post" /\ r.item = 1 /\ r.msg = m /\ r.cnt = thread[Slave].cnt
    BY <1>1 DEF With, Local, Busy
  <2> HIDE DEF r
  <2>3. thread'[Slave] = r /\ thread'[Master] = thread[Master]
    BY <2>1, <2>2, SetThread DEF IInv, Master, Slave
  <2>4. /\ m \in 1 .. Len(batch) /\ m = buffer[thread[Slave].idx]
        /\ \A i \in Share[m][Slave] : posted[m][i] = 0
    <3>1. Offered(m) /\ thread[Slave].seq = m /\ m = buffer[thread[Slave].idx]
      BY <1>1 DEF IInv, PeekInv, Copying, Peeking
    <3>2. Untouched(m) /\ m \in 1 .. Len(batch)
      BY <1>2, <3>1 DEF Offered
    <3>3. \A i \in Share[m][Slave] : i \in Nat /\ i >= 1
      BY <3>2, ShareFinite DEF IInv
    <3> QED
      BY <3>1, <3>2, <3>3 DEF Untouched, Unposted
  <2>5. Settled(m, Slave) => Share[m][Slave] = {}
    BY <2>4 DEF Settled
  <2>6. \/ Share[m][Slave] = {}
        \/ Underway(m) /\ (thread[Master].pc # "failed" => sendWqeNum[Slave] = 0)
    <3>1. Underway(m) \/ Settled(m, Slave)
      BY <1>1, <2>4 DEF CountInv, LateInv, Copying, Peeking
    <3>2. Underway(m) /\ thread[Master].pc # "failed" =>
            sendWqeNum[Slave] = 0 \/ Settled(m, Slave)
      BY <1>1 DEF CountInv, StoredInv, Underway, Busy
    <3> QED
      BY <2>5, <3>1, <3>2
  <2>7. LateInv'
    <3>1. (Underway(m)' <=> Underway(m)) /\ Share' = Share /\ UNCHANGED sendWqeNum
      BY <1>1, <2>3, SameCounts DEF Underway, sharedCtx, history
    <3> QED
      BY <2>2, <2>3, <2>6, <3>1 DEF LateInv, Copying, Peeking
  <2>8. TallyInv(Slave)'
    <3>1. thread[Slave].cnt = 0
      BY <1>1, WithCnt DEF Peeking
    <3>2. Passed(m, Slave, 1)' = {} /\ Cardinality({}) = 0
      BY <1>1, <2>4, PassedEnds, SameCounts DEF IInv, sharedCtx, history
    <3> QED
      BY <2>2, <2>3, <3>1, <3>2 DEF TallyInv, Peeking
  <2> QED
    BY <1>1, <2>1, <2>2, <2>7, <2>8, SlaveMoves
<1>3. CASE ~(thread[Slave].idx = head /\ thread[Slave].seq # thread[Slave].last)
  <2> DEFINE r == IF thread[Slave].idx # head THEN With(Slave, "head") ELSE Again(Slave)
  <2>1. Set(Slave, r)
    BY <1>3 DEF PeekDone, SlaveStep
  <2>2. r \in Local /\ r.pc \in {"head", "loop"} /\ r.cnt = 0
    BY <1>1, WithPc, AgainIs, WithCnt DEF Peeking
  <2> HIDE DEF r
  <2> QED
    BY <1>1, <2>1, <2>2, SlaveRests
<1> QED
  BY <1>2, <1>3

LEMMA SlaveStoreCounts ==
    TwoThreads /\ IInv /\ CountInv /\ StoreSendWqeNum(Slave) => CountInv'
<1> SUFFICES ASSUME TwoThreads, IInv, CountInv, StoreSendWqeNum(Slave),
                    NEW m, m = thread[Slave].msg
             PROVE  CountInv'
  OBVIOUS
<1> DEFINE r == [At("loop") EXCEPT !.last = thread[Slave].seq]
<1>1. thread[Slave] \in Local /\ thread[Slave].pc = "post" /\ Set(Slave, r)
      /\ UNCHANGED <<startedThreadNum, workedThreadNum, taskFinishFlag, ring, kernel, history>>
      /\ sendWqeNum' = [sendWqeNum EXCEPT ![Slave] = thread[Slave].cnt]
      /\ thread[Slave].item > Len(batch[m])
  <2>1. thread[Slave] \in Local
    BY ThreadSet DEF IInv, TypeOK
  <2>2. m \in 1 .. Len(batch) /\ thread[Slave].pc = "post"
    BY DEF IInv, PeekInv, StoreSendWqeNum
  <2>3. Len(batch[m]) \in Nat
    BY <2>2, ShareFinite DEF IInv
  <2>4. thread[Slave].item \in Nat
    BY <2>1 DEF Local
  <2> QED
    BY <2>1, <2>2, <2>3, <2>4 DEF StoreSendWqeNum, MoreItems, Master, Slave
<1>2. r \in Local /\ r.pc = "loop" /\ r.cnt = 0
  BY <1>1, RingAssumption DEF At, Local
<1> HIDE DEF r
<1>3. thread'[Slave] = r /\ thread'[Master] = thread[Master]
  BY <1>1, <1>2, SetThread DEF IInv, Master, Slave
<1>4. m \in 1 .. Len(batch)
  BY <1>1 DEF IInv, PeekInv
<1>5. thread[Slave].cnt = Due(m, Slave) /\ Settled(m, Slave) /\ Due(m, Slave) \in Nat
  <2>1. Passed(m, Slave, thread[Slave].item) = Share[m][Slave]
    BY <1>1, <1>4, PassedEnds DEF IInv, Local
  <2>2. Due(m, Slave) \in Nat
    BY <1>4, ShareFinite DEF IInv
  <2> QED
    BY <1>1, <2>1, <2>2 DEF CountInv, TallyInv, Due, Settled
<1>6. /\ sendWqeNum' \in [Threads -> Nat] /\ sendWqeNum'[Slave] = Due(m, Slave)
      /\ sendWqeNum'[Master] = sendWqeNum[Master]
  BY <1>1, <1>5, ThreadSet DEF CountInv, NumOK, Master, Slave
<1> USE DEF ring, kernel, history
<1>7. NumOK'
  BY <1>1, <1>3, <1>6 DEF CountInv, NumOK
<1>8. TallyInv(Master)' /\ TallyInv(Slave)'
  <2>1. TallyInv(Slave)'
    BY <1>2, <1>3 DEF TallyInv
  <2> QED
    BY <1>1, <1>3, <2>1, TallyStays DEF CountInv
<1>9. StoredInv'
  <2>1. Share[m][Slave] = {} => Due(m, Slave) = 0
    BY FS_EmptySet DEF Due
  <2>2. Due(m, Slave) = 0 \/ Underway(m)
    BY <1>1, <2>1 DEF CountInv, LateInv
  <2>3. /\ thread'[Master] = thread[Master] /\ Len(batch') = Len(batch)
        /\ thread'[Slave].pc # "none" /\ thread[Slave].pc # "none"
    BY <1>1, <1>2, <1>3
  <2>4. thread[Master].pc = "count" =>
            sendWqeNum'[Master] = Due(Len(batch), Master)' /\ Settled(Len(batch), Master)'
    BY <1>1, <1>6, SameCounts DEF CountInv, StoredInv
  <2>5. thread[Master].pc = "dequeue" =>
            Settled(Len(batch), Master)' /\ Settled(Len(batch), Slave)'
    BY <1>1, SameCounts DEF CountInv, StoredInv
  <2>6. Due(m, Slave) # 0 /\ thread[Master].pc \in Busy \cup {"read"} =>
            /\ thread[Master].pc \in {"post", "count"}
            /\ sendWqeNum'[Slave] = Due(Len(batch), Slave)' /\ Settled(Len(batch), Slave)'
    BY <1>1, <1>5, <1>6, <2>2, SameCounts DEF Underway, Busy
  <2> QED
    BY <1>6, <2>3, <2>4, <2>5, <2>6 DEF StoredInv
<1>10. LateInv'
  BY <1>2, <1>3 DEF LateInv, Copying, Peeking
<1>11. CompletedIsPosted'
  BY <1>1 DEF CountInv, CompletedIsPosted
<1> QED
  BY <1>7, <1>8, <1>9, <1>10, <1>11 DEF CountInv

\* The master returns: a message that is still with the slave may stay so.
LEMMA MasterStopsCounts ==
    /\ TwoThreads /\ IInv /\ CountInv
    /\ FinishProcess \/ ReadFails \/ WqeSendTimeout \/ PostSendFails(Master)
    => CountInv'
<1> SUFFICES ASSUME TwoThreads, IInv, CountInv,
                    FinishProcess \/ ReadFails \/ WqeSendTimeout \/ PostSendFails(Master)
             PROVE  CountInv'
  OBVIOUS
<1>1. PICK p \in {"done", "failed"} :
        /\ thread[Master].pc \in {"read", "count", "post"}
        /\ p = "done" => thread[Master].pc = "read"
        /\ Set(Master, At(p))
        /\ UNCHANGED <<workedThreadNum, sendWqeNum, ring, kernel, history>>
  BY DEF FinishProcess, ReadFails, WqeSendTimeout, PostSendFails, MoreItems, sharedCtx
<1>2. At(p) \in Local /\ At(p).pc = p
  BY RingAssumption DEF At, Local
<1>3. thread'[Master] = At(p) /\ thread'[Slave] = thread[Slave]
  BY <1>1, <1>2, SetThread DEF IInv, Master, Slave
<1> USE DEF CountInv, ring, kernel, history
<1>4. NumOK' /\ CompletedIsPosted'
  BY <1>1, <1>2, <1>3 DEF NumOK, CompletedIsPosted
<1>5. TallyInv(Master)' /\ TallyInv(Slave)'
  <2>1. TallyInv(Master)'
    BY <1>2, <1>3 DEF TallyInv, Peeking
  <2> QED
    BY <1>1, <1>3, <2>1, TallyStays
<1>6. StoredInv'
  BY <1>2, <1>3 DEF StoredInv, Busy
<1>7. LateInv'
  <2>1. \A m : (Underway(m) => Underway(m)') /\ (Settled(m, Slave)' <=> Settled(m, Slave))
    BY <1>1, <1>2, <1>3, SameCounts DEF Underway
  <2>2. Share' = Share /\ UNCHANGED <<buffer, tail, sendWqeNum>>
    BY <1>1, SameCounts
  <2>3. \A m : Underway(m)' => thread'[Master].pc = "failed"
    BY <1>2, <1>3 DEF Underway
  <2> QED
    BY <1>3, <2>1, <2>2, <2>3 DEF LateInv
<1> QED
  BY <1>4, <1>5, <1>6, <1>7

LEMMA EnqueueCounts == TwoThreads /\ IInv /\ CountInv /\ Enqueue => CountInv'
<1> SUFFICES ASSUME TwoThreads, IInv, CountInv, Enqueue PROVE CountInv'
  OBVIOUS
<1>1. /\ thread[Master] \in Local /\ thread[Slave] \in Local /\ thread[Master].pc = "enqueue"
      /\ UNCHANGED <<sharedCtx, kernel, history>>
      /\ buffer' = [buffer EXCEPT ![tail] = thread[Master].msg]
  BY ThreadSet DEF IInv, TypeOK, Enqueue
<1>2. /\ thread'[Slave] = thread[Slave] /\ thread'[Master] = [thread[Master] EXCEPT !.pc = "post"]
  BY ThreadSet DEF Enqueue, Goto, IInv, TypeOK, Master, Slave
<1>3. thread'[Master].pc = "post" /\ thread'[Master].item = thread[Master].item
      /\ thread'[Master].msg = thread[Master].msg /\ thread'[Master].cnt = thread[Master].cnt
  BY <1>1, <1>2 DEF Local
<1> USE DEF CountInv, sharedCtx, kernel, history
<1>4. NumOK' /\ CompletedIsPosted'
  BY <1>1, <1>3 DEF NumOK, CompletedIsPosted
<1>5. TallyInv(Master)' /\ TallyInv(Slave)'
  <2>1. TallyInv(Master)'
    BY <1>1, <1>3, SameCounts DEF TallyInv, Peeking
  <2> QED
    BY <1>1, <1>2, <2>1, TallyStays
<1>6. StoredInv'
  BY <1>1, <1>2, <1>3 DEF StoredInv, Busy
<1>7. LateInv'
  <2>1. thread[Slave].pc \in Copying =>
            /\ thread[Slave].idx # tail /\ buffer'[thread[Slave].idx] = buffer[thread[Slave].idx]
    <3>1. thread[Slave].pc \in Copying => thread[Slave].idx # tail
      BY ThreadSet DEF Enqueue, InPeek, TwoThreads, Copying, Peeking
    <3>2. /\ buffer \in [0 .. Capacity - 1 -> 0 .. Len(batch)]
          /\ thread[Slave].idx \in 0 .. Capacity - 1
      BY <1>1 DEF IInv, TypeOK, DataOK, Local
    <3> QED
      BY <1>1, <3>1, <3>2
  <2>2. thread[Slave].pc \in Copying => Settled(buffer[thread[Slave].idx], Slave)
    BY <1>1, <2>1 DEF LateInv, Underway
  <2>3. thread[Slave].pc = "post" => Share[thread[Slave].msg][Slave] = {}
    BY <1>1 DEF LateInv, Underway
  <2>4. Share' = Share /\ \A m : Settled(m, Slave)' <=> Settled(m, Slave)
    BY <1>1, SameCounts
  <2>5. ASSUME thread[Slave].pc \in Copying PROVE Settled(buffer[thread[Slave].idx], Slave)'
    <3> SUFFICES ASSUME NEW m, m = buffer'[thread'[Slave].idx] PROVE Settled(m, Slave)'
      BY <1>2, <2>1, <2>5
    <3> QED
      BY <1>2, <2>1, <2>2, <2>4, <2>5
  <2> QED
    BY <1>2, <2>3, <2>4, <2>5 DEF LateInv
<1> QED
  BY <1>4, <1>5, <1>6, <1>7

LEMMA MasterStoreCounts ==
    TwoThreads /\ IInv /\ CountInv /\ StoreSendWqeNum(Master) => CountInv'
<1> SUFFICES ASSUME TwoThreads, IInv, CountInv, StoreSendWqeNum(Master),
                    NEW m, m = Len(batch)
             PROVE  CountInv'
  OBVIOUS
<1> DEFINE r == [At("count") EXCEPT !.msg = thread[Master].msg]
<1>1. /\ thread[Master] \in Local /\ thread[Master].pc = "post" /\ Set(Master, r)
      /\ UNCHANGED <<startedThreadNum, workedThreadNum, taskFinishFlag, ring, kernel, history>>
      /\ sendWqeNum' = [sendWqeNum EXCEPT ![Master] = thread[Master].cnt]
      /\ m \in 1 .. Len(batch) /\ thread[Master].msg = m
      /\ thread[Master].item > Len(batch[m])
  <2>1. thread[Master] \in Local /\ thread[Master].pc = "post"
    BY ThreadSet DEF IInv, TypeOK, StoreSendWqeNum
  <2>2. m \in 1 .. Len(batch) /\ thread[Master].msg = m
    BY <2>1 DEF IInv, MasterInv, Busy, TypeOK, DataOK
  <2>3. Len(batch[m]) \in Nat
    BY <2>2, ShareFinite DEF IInv
  <2>4. thread[Master].item \in Nat
    BY <2>1 DEF Local
  <2> QED
    BY <2>1, <2>2, <2>3, <2>4 DEF StoreSendWqeNum, MoreItems
<1>2. r \in Local /\ r.pc = "count"
  BY <1>1, RingAssumption DEF At, Local, Busy
<1> HIDE DEF r
<1>3. thread'[Master] = r /\ thread'[Slave] = thread[Slave]
  BY <1>1, <1>2, SetThread DEF IInv, Master, Slave
<1>4. thread[Master].cnt = Due(m, Master) /\ Settled(m, Master) /\ Due(m, Master) \in Nat
  <2>1. Passed(m, Master, thread[Master].item) = Share[m][Master]
    BY <1>1, PassedEnds DEF IInv, Local
  <2>2. Due(m, Master) \in Nat
    BY <1>1, ShareFinite DEF IInv
  <2> QED
    BY <1>1, <2>1, <2>2 DEF CountInv, TallyInv, Due, Settled
<1>5. /\ sendWqeNum' \in [Threads -> Nat] /\ sendWqeNum'[Master] = Due(m, Master)
      /\ sendWqeNum'[Slave] = sendWqeNum[Slave]
  BY <1>1, <1>4, ThreadSet DEF CountInv, NumOK, Master, Slave
<1> USE DEF CountInv, ring, kernel, history
<1>6. NumOK' /\ CompletedIsPosted'
  BY <1>1, <1>2, <1>3, <1>5 DEF NumOK, CompletedIsPosted
<1>7. TallyInv(Master)' /\ TallyInv(Slave)'
  <2>1. TallyInv(Master)'
    BY <1>2, <1>3 DEF TallyInv, Peeking
  <2> QED
    BY <1>1, <1>3, <2>1, TallyStays
<1>8. StoredInv'
  <2>1. sendWqeNum'[Master] = Due(m, Master)' /\ Settled(m, Master)'
    BY <1>1, <1>4, <1>5, SameCounts
  <2>2. thread[Slave].pc # "none" =>
            \/ sendWqeNum'[Slave] = 0
            \/ sendWqeNum'[Slave] = Due(m, Slave)' /\ Settled(m, Slave)'
    BY <1>1, <1>5, SameCounts DEF StoredInv, Busy
  <2>3. Len(batch') = m
    BY <1>1
  <2> QED
    BY <1>2, <1>3, <2>1, <2>2, <2>3 DEF StoredInv
<1>9. LateInv'
  <2>1. \A k : (Underway(k)' <=> Underway(k)) /\ (Settled(k, Slave)' <=> Settled(k, Slave))
    BY <1>1, <1>2, <1>3, SameCounts DEF Underway
  <2>2. Share' = Share /\ UNCHANGED <<buffer, tail>>
    BY <1>1, SameCounts
  <2> QED
    BY <1>1, <1>2, <1>3, <1>5, <2>1, <2>2 DEF LateInv
<1> QED
  BY <1>6, <1>7, <1>8, <1>9

\* The counts add up only when each share is posted: what the slave stored is
\* its share of this message.
LEMMA AllSentSettles ==
    ASSUME TwoThreads, MaxItems < CntMod, IInv, CountInv,
           thread[Master].pc = "count", AllSent, NEW m, m = Len(batch)
    PROVE  /\ m \in 1 .. Len(batch) /\ thread[Master].msg = m
           /\ Settled(m, Master) /\ Settled(m, Slave)
           /\ sendWqeNum[Slave] = 0 /\ thread[Slave].pc # "none" => Share[m][Slave] = {}
           /\ workedThreadNum = 1 /\ thread[Slave].pc # "none" => sendWqeNum[Slave] = 0
<1>1. /\ m \in 1 .. Len(batch) /\ thread[Master].msg = m
      /\ workedThreadNum \in {1, 2}
      /\ workedThreadNum = 2 => thread[Slave].pc # "none"
  <2>1. thread[Master].msg = m /\ batch # <<>> /\ workedThreadNum \in 1 .. startedThreadNum
    BY DEF IInv, MasterInv, Busy
  <2>2. m \in 1 .. Len(batch) /\ workedThreadNum \in 0 .. 2 /\ startedThreadNum \in Nat
    BY <2>1 DEF IInv, TypeOK, DataOK
  <2>3. arrived > 0
    BY ThreadsAssumption DEF IInv, TypeOK, DataOK, StartInv
  <2>4. thread[Slave].pc = "none" => startedThreadNum = 1
    BY <2>3 DEF IInv, StartInv
  <2> QED
    BY <2>1, <2>2, <2>4
<1>2. /\ Due(m, Master) \in Nat /\ Due(m, Slave) \in Nat
      /\ (Due(m, Slave) = 0 => Share[m][Slave] = {})
  BY <1>1, ShareFinite, FS_EmptySet DEF IInv, Due
<1>3. /\ Due(m, Master) + Due(m, Slave) <= SendNum[workedThreadNum]
      /\ workedThreadNum = 1 => Due(m, Slave) = 0
  BY <1>1, NeedIs DEF IInv, CountInv, AllSent
<1>4. /\ sendWqeNum[Master] = Due(m, Master) /\ Settled(m, Master)
      /\ sendWqeNum[Slave] \in Nat
      /\ thread[Slave].pc # "none" =>
            \/ sendWqeNum[Slave] = 0
            \/ sendWqeNum[Slave] = Due(m, Slave) /\ Settled(m, Slave)
  BY ThreadSet DEF CountInv, NumOK, StoredInv, Busy
<1>5. /\ SendNum[1] = sendWqeNum[Master]
      /\ SendNum[2] = sendWqeNum[Master] + sendWqeNum[Slave]
  BY SendNumIs DEF CountInv, NumOK
<1>6. workedThreadNum = 2 /\ sendWqeNum[Slave] = 0 => Due(m, Slave) = 0
  BY <1>2, <1>3, <1>4, <1>5
<1>7. Share[m][Slave] = {} => Settled(m, Slave)
  BY DEF Settled
<1> QED
  BY <1>1, <1>2, <1>3, <1>4, <1>6, <1>7

LEMMA WaitCounts ==
    TwoThreads /\ MaxItems < CntMod /\ IInv /\ CountInv /\ WaitForSlaveCompletion => CountInv'
<1> SUFFICES ASSUME TwoThreads, MaxItems < CntMod, IInv, CountInv, WaitForSlaveCompletion,
                    NEW m, m = Len(batch)
             PROVE  CountInv'
  OBVIOUS
<1>1. /\ thread[Master] \in Local /\ thread[Master].pc = "count" /\ AllSent
      /\ UNCHANGED <<startedThreadNum, workedThreadNum, taskFinishFlag, ring, kernel, history>>
  BY ThreadSet DEF IInv, TypeOK, WaitForSlaveCompletion
<1>2. /\ Settled(m, Master) /\ Settled(m, Slave)
      /\ sendWqeNum[Slave] = 0 /\ thread[Slave].pc # "none" => Share[m][Slave] = {}
      /\ workedThreadNum = 1 /\ thread[Slave].pc # "none" => sendWqeNum[Slave] = 0
  BY <1>1, AllSentSettles
<1>3. thread'[Slave] = thread[Slave] /\ thread'[Master].pc = "dequeue"
  BY <1>1, ThreadSet DEF WaitForSlaveCompletion, Goto, IInv, TypeOK, Local, Master, Slave
<1>4. /\ sendWqeNum' \in [Threads -> Nat]
      /\ thread[Slave].pc # "none" => sendWqeNum'[Slave] = 0
  <2>1. sendWqeNum' = [t \in Threads |-> IF t < workedThreadNum THEN 0 ELSE sendWqeNum[t]]
    BY DEF WaitForSlaveCompletion, ResetSendWqeNum
  <2>2. workedThreadNum \in {1, 2}
    BY <1>1 DEF IInv, MasterInv, Busy, TypeOK, DataOK
  <2> QED
    BY <1>2, <2>1, <2>2, ThreadSet DEF CountInv, NumOK, Slave
<1> USE DEF CountInv, ring, kernel, history
<1>5. NumOK' /\ CompletedIsPosted'
  BY <1>1, <1>3, <1>4 DEF NumOK, CompletedIsPosted
<1>6. TallyInv(Master)' /\ TallyInv(Slave)'
  <2>1. TallyInv(Master)'
    BY <1>3 DEF TallyInv, Peeking
  <2> QED
    BY <1>1, <1>3, <2>1, TallyStays
<1>7. StoredInv'
  <2>1. Settled(m, Master)' /\ Settled(m, Slave)' /\ Len(batch') = m
    BY <1>1, <1>2, SameCounts
  <2> QED
    BY <1>3, <1>4, <2>1 DEF StoredInv
<1>8. LateInv'
  <2>1. \A k : Underway(k) \/ Settled(k, Slave) => Settled(k, Slave)'
    BY <1>1, <1>2, SameCounts DEF Underway
  <2>2. Share' = Share /\ UNCHANGED <<buffer, tail>>
    BY <1>1, SameCounts
  <2>3. thread[Slave].pc = "post" => Share[thread[Slave].msg][Slave] = {}
    BY <1>1, <1>2 DEF LateInv, Underway
  <2> QED
    BY <1>3, <2>1, <2>2, <2>3 DEF LateInv
<1> QED
  BY <1>5, <1>6, <1>7, <1>8

\* The message is reported: all its items are in the one share or the other.
LEMMA DequeueCounts ==
    TwoThreads /\ MaxItems < CntMod /\ IInv /\ CountInv /\ Dequeue => CountInv'
<1> SUFFICES ASSUME TwoThreads, MaxItems < CntMod, IInv, CountInv, Dequeue,
                    NEW m, m = Len(batch)
             PROVE  CountInv'
  OBVIOUS
<1>1. /\ thread[Master].pc = "dequeue" /\ Set(Master, At("read"))
      /\ UNCHANGED <<sharedCtx, tail, buffer, kernel, batch, posted>>
      /\ completed' = completed \cup {thread[Master].msg}
  BY DEF Dequeue
<1>2. At("read") \in Local /\ At("read").pc = "read"
  BY RingAssumption DEF At, Local
<1>3. thread'[Slave] = thread[Slave] /\ thread'[Master].pc = "read"
  BY <1>1, <1>2, SetThread DEF IInv, Master, Slave
<1>4. /\ m \in 1 .. Len(batch) /\ thread[Master].msg = m /\ workedThreadNum \in {1, 2}
      /\ Settled(m, Master) /\ Settled(m, Slave)
  BY <1>1 DEF IInv, MasterInv, Busy, TypeOK, DataOK, CountInv, StoredInv
<1> USE DEF sharedCtx, kernel
<1>5. NumOK'
  BY <1>1, <1>3, <1>4 DEF CountInv, NumOK
<1>6. CompletedIsPosted'
  <2>1. \A i \in 1 .. Len(batch[m]) : batch[m][i] # Own =>
            i \in Share[m][Master] \cup Share[m][Slave]
    BY <1>4, NeedIs DEF IInv, CountInv
  <2>2. DOMAIN batch[m] = 1 .. Len(batch[m])
    BY <1>4 DEF IInv, TypeOK, DataOK
  <2>3. \A i \in DOMAIN batch[m] : batch[m][i] # Own => posted[m][i] > 0
    BY <1>4, <2>1, <2>2 DEF Settled
  <2> QED
    BY <1>1, <1>4, <2>3 DEF CountInv, CompletedIsPosted
<1>7. TallyInv(Master)' /\ TallyInv(Slave)'
  <2>1. TallyInv(Master)'
    BY <1>3 DEF TallyInv, Peeking
  <2> QED
    BY <1>1, <1>3, <2>1, TallyStays DEF CountInv
<1>8. StoredInv'
  BY <1>1, <1>3 DEF CountInv, StoredInv, Busy
<1>9. LateInv'
  <2>1. \A k : ~Underway(k) /\ (Settled(k, Slave)' <=> Settled(k, Slave))
    BY <1>1, SameCounts DEF Underway
  <2>2. Share' = Share /\ UNCHANGED <<buffer, tail>>
    BY <1>1, SameCounts
  <2> QED
    BY <1>3, <2>1, <2>2 DEF CountInv, LateInv
<1> QED
  BY <1>5, <1>6, <1>7, <1>8, <1>9 DEF CountInv

\* A new message: nothing is counted, and the slave has settled the others.
LEMMA ReadMsgCounts == TwoThreads /\ IInv /\ CountInv /\ ReadMsg => CountInv'
<1> SUFFICES ASSUME TwoThreads, IInv, IInv', CountInv, ReadMsg, NEW m, m = Len(batch) + 1
             PROVE  CountInv'
  BY ReadMsgKeeps
<1>1. /\ Len(batch) \in Nat /\ \A k \in 1 .. m : k \in 1 .. Len(batch) \/ k = m
      /\ thread[Master].pc = "read"
      /\ UNCHANGED <<startedThreadNum, ring, kernel, sendWqeNum, completed>>
      /\ Len(batch') = m
  BY ReadMsgIs
<1>2. /\ \A k \in 1 .. Len(batch) : batch'[k] = batch[k] /\ posted'[k] = posted[k]
      /\ batch'[m] \in Batches
  BY ReadMsgIs
<1>3. /\ thread'[Slave] = thread[Slave]
      /\ thread'[Master].pc \in {"enqueue", "post"}
      /\ thread'[Master].msg = m /\ thread'[Master].item = 1 /\ thread'[Master].cnt = 0
  BY ReadMsgIs
<1>4. \A k \in 1 .. Len(batch) : workedThreadNum = 2 /\ thread[Slave].pc # "none" =>
            Share'[k] = Share[k]
  BY ReadMsgIs
<1>5. NumOK'
  <2>1. Len(batch'[m]) <= MaxItems
    <3>1. PICK n \in 1 .. MaxItems : batch'[m] \in [1 .. n -> Ranks]
      BY <1>2 DEF Batches
    <3>2. n \in Nat /\ Len(batch'[m]) = n
      BY <3>1, ItemsAssumption
    <3> QED
      BY <3>2, ItemsAssumption
  <2>2. \A k \in 1 .. m : Len(batch'[k]) <= MaxItems
    BY <1>1, <1>2, <2>1 DEF CountInv, NumOK
  <2> QED
    BY <1>1, <1>3, <2>2 DEF CountInv, NumOK, kernel
<1>6. CompletedIsPosted'
  BY <1>1, <1>2 DEF CountInv, NumOK, CompletedIsPosted
<1>7. TallyInv(Master)'
  <2>1. m \in 1 .. Len(batch')
    BY <1>1
  <2>2. \A i \in Share'[m][Master] : i \in Nat /\ i >= 1
    <3>1. Share'[m] = [t \in {Master, Slave} |->
            {i \in 1 .. Len(batch'[m]) : batch'[m][i] # Own /\ batch'[m][i] % workedThreadNum' = t}]
      BY <2>1 DEF Share
    <3>2. Len(batch'[m]) \in Nat
      BY <2>1 DEF IInv, TypeOK, DataOK
    <3> QED
      BY <3>1, <3>2
  <2>3. Passed(m, Master, 1)' = {}
    <3>1. \A i \in Share'[m][Master] : ~(i < 1)
      BY <2>2
    <3> QED
      BY <1>1, <3>1 DEF Passed
  <2> QED
    BY <1>3, <2>3, FS_EmptySet DEF TallyInv, Peeking
<1>8. thread[Slave].pc \in Copying \cup {"post"} => workedThreadNum = 2
  BY DEF IInv, MasterInv, Copying, Peeking
<1>9. TallyInv(Slave)'
  <2>1. CASE thread[Slave].pc = "post"
    <3> SUFFICES ASSUME NEW k, k = thread[Slave].msg PROVE TallyInv(Slave)'
      OBVIOUS
    <3>1. k \in 1 .. Len(batch)
      BY <2>1 DEF IInv, PeekInv
    <3>2. Share'[k] = Share[k] /\ posted'[k] = posted[k]
      BY <1>2, <1>4, <1>8, <2>1, <3>1
    <3>3. ASSUME NEW h PROVE Passed(k, Slave, h)' = Passed(k, Slave, h)
      BY <3>2 DEF Passed
    <3> QED
      BY <1>3, <2>1, <3>2, <3>3 DEF CountInv, TallyInv, Peeking
  <2>2. CASE thread[Slave].pc # "post"
    BY <1>3, <2>2 DEF IInv, StartInv, CountInv, TallyInv
  <2> QED
    BY <2>1, <2>2
<1>10. StoredInv'
  BY <1>1, <1>3 DEF CountInv, StoredInv, Busy
<1>11. LateInv'
  <2>1. \A k : ~Underway(k)
    BY <1>1 DEF Underway
  <2>2. ASSUME thread[Slave].pc = "post", NEW k, k = thread[Slave].msg
        PROVE  Share'[k][Slave] = {}
    <3>1. k \in 1 .. Len(batch)
      BY <2>2 DEF IInv, PeekInv
    <3> QED
      BY <1>4, <1>8, <2>1, <2>2, <3>1 DEF CountInv, LateInv
  <2>3. ASSUME thread[Slave].pc \in Copying, ~(thread[Slave].pc = "tail" /\ thread[Slave].idx = tail),
               NEW k, k = buffer[thread[Slave].idx]
        PROVE  Settled(k, Slave)'
    <3>1. Settled(k, Slave) /\ Offered(k)
      BY <2>1, <2>3 DEF CountInv, LateInv, IInv, PeekInv
    <3>2. Share'[k] = Share[k] /\ posted'[k] = posted[k]
      BY <1>2, <1>4, <1>8, <2>3, <3>1 DEF Offered, Copying, Peeking
    <3> QED
      BY <3>1, <3>2 DEF Settled
  <2>4. thread[Slave].pc \in Copying /\ ~(thread[Slave].pc = "tail" /\ thread[Slave].idx = tail) =>
            Settled(buffer[thread[Slave].idx], Slave)'
    <3> SUFFICES ASSUME thread[Slave].pc \in Copying,
                        ~(thread[Slave].pc = "tail" /\ thread[Slave].idx = tail),
                        NEW k, k = buffer'[thread'[Slave].idx]
                 PROVE  Settled(k, Slave)'
      BY <1>1, <1>3 DEF ring
    <3> QED
      BY <1>1, <1>3, <2>3 DEF ring
  <2> QED
    BY <1>1, <1>3, <2>2, <2>4 DEF LateInv, ring
<1> QED
  BY <1>5, <1>6, <1>7, <1>9, <1>10, <1>11 DEF CountInv

\* An item more is counted if it is posted; what was posted stays so.
LEMMA NextItemCounts ==
    ASSUME TwoThreads, IInv, CountInv, NEW t \in {Master, Slave}, NextItem(t)
    PROVE  CountInv'
<1> SUFFICES ASSUME NEW m, m = thread[t].msg, NEW k, k = thread[t].item PROVE CountInv'
  OBVIOUS
<1>0. ItemDone(t, m, k)
  BY NextItemIs
<1>1. /\ thread[t].pc = "post" /\ UNCHANGED <<sharedCtx, ring, kernel, batch, completed>>
      /\ m \in 1 .. Len(batch) /\ k \in 1 .. Len(batch[m]) /\ Share' = Share
  BY <1>0 DEF ItemDone
<1>2. /\ \A u \in {Master, Slave} \ {t} : thread'[u] = thread[u]
      /\ thread'[t].pc = "post" /\ thread'[t].msg = m /\ thread'[t].item = k + 1
      /\ thread'[t].idx = thread[t].idx
      /\ thread'[t].cnt = thread[t].cnt + (IF k \in Share[m][t] THEN 1 ELSE 0)
  BY <1>0 DEF ItemDone
<1>3. /\ k \in Share[m][t] => posted'[m][k] = 1
      /\ \A j \in 1 .. Len(batch) : \A i \in 1 .. Len(batch[j]) :
            posted'[j][i] = posted[j][i] \/ posted'[j][i] = 1
  BY <1>0 DEF ItemDone
<1>4. Master \in {Master, Slave} /\ Slave \in {Master, Slave} /\ Master # Slave
  BY DEF Master, Slave
<1>5. ASSUME NEW j \in 1 .. Len(batch), NEW i \in 1 .. Len(batch[j]), posted[j][i] > 0
      PROVE  posted'[j][i] > 0
  BY <1>3, <1>5
<1>6. ASSUME NEW j \in 1 .. Len(batch), NEW u \in {Master, Slave}
      PROVE  Settled(j, u) => Settled(j, u)'
  <2>1. Share[j][u] \subseteq 1 .. Len(batch[j])
    BY ShareApart
  <2> QED
    BY <1>1, <1>5, <2>1 DEF Settled
<1>7. \A j, u : Due(j, u)' = Due(j, u)
  BY <1>1 DEF Due
<1>8. /\ \A u \in {Master, Slave} : /\ thread'[u].pc = thread[u].pc /\ thread'[u].msg = thread[u].msg
                                    /\ thread'[u].idx = thread[u].idx
      /\ thread'[Master].pc = thread[Master].pc /\ thread'[Slave].pc = thread[Slave].pc
  BY <1>1, <1>2, <1>4
<1> USE DEF sharedCtx, ring, kernel
<1>9. NumOK'
  BY <1>1, <1>8 DEF CountInv, NumOK
<1>10. CompletedIsPosted'
  <2>1. \A j \in 1 .. Len(batch) : DOMAIN batch[j] = 1 .. Len(batch[j])
    BY DEF IInv, TypeOK, DataOK
  <2> QED
    BY <1>1, <1>5, <2>1 DEF CountInv, NumOK, CompletedIsPosted
<1>11. TallyInv(t)'
  <2>1. /\ thread[t].cnt = Cardinality(Passed(m, t, k))
        /\ \A i \in Passed(m, t, k) : posted[m][i] > 0
    BY <1>1, <1>4 DEF CountInv, TallyInv
  <2>2. k \in Nat /\ \A i \in Share[m][t] : i \in 1 .. Len(batch[m])
    BY <1>1, ShareFinite DEF IInv
  <2>3. /\ Passed(m, t, k + 1) = Passed(m, t, k) \cup (IF k \in Share[m][t] THEN {k} ELSE {})
        /\ Cardinality(Passed(m, t, k + 1)) = thread'[t].cnt
    <3>1. /\ Passed(m, t, k + 1) = Passed(m, t, k) \cup (IF k \in Share[m][t] THEN {k} ELSE {})
          /\ Cardinality(Passed(m, t, k + 1)) =
                Cardinality(Passed(m, t, k)) + (IF k \in Share[m][t] THEN 1 ELSE 0)
      <4>1. TypeOK /\ m \in 1 .. Len(batch)
        BY <1>1 DEF IInv
      <4> QED
        BY <2>2, <4>1, PassedNext
    <3> QED
      BY <1>2, <2>1, <3>1
  <2>4. \A i \in Passed(m, t, k + 1) : posted'[m][i] > 0
    <3> SUFFICES ASSUME NEW i \in Passed(m, t, k + 1) PROVE posted'[m][i] > 0
      OBVIOUS
    <3>1. i \in Share[m][t] /\ (i \in Passed(m, t, k) \/ i = k)
      BY <2>3 DEF Passed
    <3>2. CASE i \in Passed(m, t, k)
      BY <1>1, <1>5, <2>1, <2>2, <3>1, <3>2
    <3>3. CASE i = k
      BY <1>3, <3>1, <3>3
    <3> QED
      BY <3>1, <3>2, <3>3
  <2>5. Passed(m, t, k + 1)' = Passed(m, t, k + 1)
    BY <1>1 DEF Passed
  <2> QED
    BY <1>2, <2>3, <2>4, <2>5 DEF TallyInv, Peeking
<1>12. ASSUME NEW u \in {Master, Slave}, u # t PROVE TallyInv(u)'
  <2>1. thread'[u] = thread[u] /\ TallyInv(u)
    BY <1>2, <1>12 DEF CountInv
  <2>2. CASE thread[u].pc \in {"enqueue", "post"}
    <3> SUFFICES ASSUME NEW j, j = thread[u].msg, NEW h, h = thread[u].item PROVE TallyInv(u)'
      OBVIOUS
    <3>1. j \in 1 .. Len(batch)
      <4>1. u = Master => j = Len(batch) /\ batch # <<>>
        BY <2>2 DEF IInv, MasterInv, Busy
      <4>2. u = Slave => j \in 1 .. Len(batch)
        BY <2>2 DEF IInv, PeekInv, StartInv
      <4>3. batch # <<>> => Len(batch) \in 1 .. Len(batch)
        BY DEF IInv, TypeOK, DataOK
      <4> QED
        BY <4>1, <4>2, <4>3
    <3>2. \A i \in Passed(j, u, h) : i \in 1 .. Len(batch[j])
      BY <3>1, ShareFinite DEF IInv, Passed
    <3>3. thread[u].cnt = Cardinality(Passed(j, u, h)) /\ \A i \in Passed(j, u, h) : posted'[j][i] > 0
      BY <1>5, <2>1, <2>2, <3>1, <3>2 DEF TallyInv
    <3>4. Passed(j, u, h)' = Passed(j, u, h)
      BY <1>1 DEF Passed
    <3> QED
      BY <2>1, <2>2, <3>3, <3>4 DEF TallyInv, Peeking
  <2>3. CASE thread[u].pc \notin {"enqueue", "post"}
    BY <2>1, <2>3 DEF TallyInv
  <2> QED
    BY <2>2, <2>3
<1>13. StoredInv'
  <2> SUFFICES ASSUME NEW l, l = Len(batch) PROVE StoredInv'
    OBVIOUS
  <2>1. thread[Master].pc \in Busy => l \in 1 .. Len(batch)
    BY DEF IInv, MasterInv, TypeOK, DataOK
  <2>2. ASSUME NEW u \in {Master, Slave}, thread[Master].pc \in Busy, Settled(l, u) PROVE Settled(l, u)'
    BY <1>6, <2>1, <2>2
  <2>3. Len(batch') = l /\ sendWqeNum' = sendWqeNum
    BY <1>1
  <2> QED
    BY <1>4, <1>7, <1>8, <2>2, <2>3 DEF CountInv, StoredInv, Busy
<1>14. LateInv'
  <2>1. \A j : Underway(j)' <=> Underway(j)
    BY <1>1, <1>8 DEF Underway
  <2>2. UNCHANGED <<buffer, tail, sendWqeNum>>
    BY <1>1
  <2>3. thread[Slave].pc \in Copying => thread'[Slave].idx = thread[Slave].idx
    BY <1>4, <1>8
  <2>4. ASSUME thread[Slave].pc \in Copying, ~(thread[Slave].pc = "tail" /\ thread[Slave].idx = tail),
               NEW j, j = buffer[thread[Slave].idx], Settled(j, Slave)
        PROVE  Settled(j, Slave)'
    <3>1. j \in 1 .. Len(batch)
      BY <2>4 DEF IInv, PeekInv, Offered
    <3> QED
      BY <1>4, <1>6, <2>4, <3>1
  <2>5. ASSUME thread[Slave].pc \in Copying, ~(thread[Slave].pc = "tail" /\ thread[Slave].idx = tail)
        PROVE  Underway(buffer[thread[Slave].idx])' \/ Settled(buffer[thread[Slave].idx], Slave)'
    <3> SUFFICES ASSUME NEW j, j = buffer'[thread'[Slave].idx]
                 PROVE  Underway(j)' \/ Settled(j, Slave)'
      OBVIOUS
    <3>1. j = buffer[thread[Slave].idx]
      BY <2>2, <2>3, <2>5
    <3> QED
      BY <2>1, <2>4, <2>5, <3>1 DEF CountInv, LateInv
  <2>6. thread[Slave].pc = "post" =>
            \/ Share[thread[Slave].msg][Slave] = {}
            \/ /\ Underway(thread[Slave].msg)
               /\ thread[Master].pc # "failed" => sendWqeNum[Slave] = 0
    BY DEF CountInv, LateInv
  <2>7. ASSUME thread[Slave].pc = "post"
        PROVE  \/ Share'[thread'[Slave].msg][Slave] = {}
               \/ /\ Underway(thread[Slave].msg)'
                  /\ thread'[Master].pc # "failed" => sendWqeNum'[Slave] = 0
    <3> SUFFICES ASSUME NEW j, j = thread'[Slave].msg
                 PROVE  \/ Share'[j][Slave] = {}
                        \/ Underway(j)' /\ (thread'[Master].pc # "failed" => sendWqeNum'[Slave] = 0)
      OBVIOUS
    <3>1. j = thread[Slave].msg
      BY <1>4, <1>8
    <3> QED
      BY <1>1, <1>8, <2>1, <2>2, <2>6, <2>7, <3>1
  <2> QED
    BY <1>8, <2>2, <2>3, <2>5, <2>7 DEF LateInv
<1> QED
  BY <1>4, <1>9, <1>10, <1>11, <1>12, <1>13, <1>14 DEF CountInv

LEMMA StartCounts ==
    TwoThreads /\ IInv /\ CountInv /\ (StartMaster \/ StartSlave \/ StartInvalid) => CountInv'
<1> SUFFICES ASSUME TwoThreads, IInv, CountInv, StartMaster \/ StartSlave \/ StartInvalid
             PROVE  CountInv'
  OBVIOUS
<1>1. /\ arrived' \in 1 .. NumBlocks /\ opThreadIdx = arrived
      /\ UNCHANGED <<workedThreadNum, buffer, history>>
  BY ArriveIs DEF IInv, TypeOK, StartMaster, StartSlave, StartInvalid
<1>2. /\ At("read") \in Local /\ At("loop") \in Local
      /\ At("read").pc = "read" /\ At("loop").pc = "loop" /\ At("loop").cnt = 0
      /\ arrived \in Nat /\ sendWqeNum \in [Threads -> Nat]
  BY RingAssumption, ThreadsAssumption DEF At, Local, IInv, TypeOK, DataOK, CountInv, NumOK
<1> USE DEF history
<1>3. CompletedIsPosted'
  BY <1>1 DEF CountInv, CompletedIsPosted
<1>4. CASE StartMaster
  <2>1. /\ thread'[Master] = At("read") /\ thread'[Slave] = thread[Slave]
        /\ thread[Slave].pc = "none"
        /\ sendWqeNum' = [sendWqeNum EXCEPT ![Master] = 0]
    BY <1>1, <1>2, <1>4, SetThread DEF StartMaster, IInv, StartInv, Master, Slave
  <2>2. NumOK'
    BY <1>1, <1>2, <2>1 DEF CountInv, NumOK
  <2>3. TallyInv(Master)' /\ TallyInv(Slave)'
    BY <1>2, <2>1 DEF TallyInv, Peeking
  <2>4. StoredInv' /\ LateInv'
    BY <1>2, <2>1 DEF StoredInv, LateInv, Copying, Peeking
  <2> QED
    BY <1>3, <2>2, <2>3, <2>4 DEF CountInv
<1>5. CASE StartSlave
  <2>1. /\ arrived > 0 /\ startedThreadNum = 1 /\ thread[Slave].pc = "none"
        /\ Set(Slave, At("loop")) /\ sendWqeNum' = [sendWqeNum EXCEPT ![Slave] = 0]
    <3>1. arrived > 0 /\ startedThreadNum < 2
      BY <1>1, <1>2, <1>5 DEF StartSlave, TwoThreads
    <3>2. startedThreadNum = 1 /\ thread[Slave].pc = "none"
      BY <3>1 DEF IInv, StartInv
    <3> QED
      BY <1>5, <3>1, <3>2 DEF StartSlave, Slave
  <2>2. thread'[Slave] = At("loop") /\ thread'[Master] = thread[Master]
    BY <1>2, <2>1, SetThread DEF IInv, Master, Slave
  <2>3. /\ sendWqeNum' \in [Threads -> Nat] /\ sendWqeNum'[Slave] = 0
        /\ sendWqeNum'[Master] = sendWqeNum[Master]
    BY <1>2, <2>1, ThreadSet DEF Master, Slave
  <2>4. NumOK'
    BY <1>1, <2>1, <2>2, <2>3 DEF CountInv, NumOK
  <2>5. TallyInv(Slave)'
    BY <1>2, <2>2 DEF TallyInv
  <2>6. TallyInv(Master)'
    BY <1>1, <2>2, TallyStays DEF CountInv
  <2>7. StoredInv'
    BY <1>1, <2>2, <2>3, SameCounts DEF CountInv, StoredInv
  <2>8. LateInv'
    BY <1>2, <2>2 DEF LateInv, Copying, Peeking
  <2> QED
    BY <1>3, <2>4, <2>5, <2>6, <2>7, <2>8 DEF CountInv
<1>6. CASE StartInvalid
  <2>1. arrived > 0 /\ UNCHANGED <<sendWqeNum, tail, thread>>
    BY <1>1, <1>2, <1>6 DEF StartInvalid, sharedCtx
  <2>2. NumOK'
    BY <1>1, <2>1 DEF CountInv, NumOK
  <2>3. TallyInv(Master)' /\ TallyInv(Slave)'
    BY <1>1, <2>1, TallyStays DEF CountInv
  <2>4. StoredInv'
    BY <1>1, <2>1, SameCounts DEF CountInv, StoredInv
  <2>5. LateInv'
    <3>1. \A k : (Underway(k)' <=> Underway(k)) /\ (Settled(k, Slave)' <=> Settled(k, Slave))
      BY <1>1, <2>1, SameCounts DEF Underway
    <3> QED
      BY <1>1, <2>1, <3>1, SameCounts DEF CountInv, LateInv
  <2> QED
    BY <1>3, <2>2, <2>3, <2>4, <2>5 DEF CountInv
<1> QED
  BY <1>4, <1>5, <1>6

LEMMA NextLaunchCounts == TwoThreads /\ IInv /\ CountInv /\ NextLaunch => CountInv'
<1> SUFFICES ASSUME TwoThreads, IInv, CountInv, NextLaunch PROVE CountInv'
  OBVIOUS
<1> USE DEF sharedCtx, history
<1>1. /\ arrived' = 0 /\ UNCHANGED <<sharedCtx, history>>
      /\ thread'[Master] = At("none") /\ thread'[Slave] = At("none")
  BY ThreadSet DEF NextLaunch
<1>2. NumOK' /\ CompletedIsPosted'
  BY <1>1 DEF CountInv, NumOK, CompletedIsPosted
<1>3. TallyInv(Master)' /\ TallyInv(Slave)' /\ StoredInv' /\ LateInv'
  BY <1>1 DEF At, TallyInv, StoredInv, LateInv, Copying, Peeking
<1> QED
  BY <1>2, <1>3 DEF CountInv

LEMMA StutterCounts == TwoThreads /\ CountInv /\ UNCHANGED vars => CountInv'
<1> SUFFICES ASSUME TwoThreads, CountInv, UNCHANGED vars PROVE CountInv'
  OBVIOUS
<1> USE DEF vars, sharedCtx, ring, kernel, history
<1>1. NumOK' /\ CompletedIsPosted'
  BY DEF CountInv, NumOK, CompletedIsPosted
<1>2. TallyInv(Master)' /\ TallyInv(Slave)'
  BY TallyStays DEF CountInv
<1>3. StoredInv'
  BY SameCounts DEF CountInv, StoredInv
<1>4. LateInv'
  <2>1. \A k : (Underway(k)' <=> Underway(k)) /\ (Settled(k, Slave)' <=> Settled(k, Slave))
    BY SameCounts DEF Underway
  <2> QED
    BY <2>1, SameCounts DEF CountInv, LateInv
<1> QED
  BY <1>1, <1>2, <1>3, <1>4 DEF CountInv

LEMMA InitCounts == TwoThreads /\ Init => CountInv
<1> SUFFICES ASSUME TwoThreads, Init PROVE CountInv
  OBVIOUS
<1>1. /\ sendWqeNum \in [Threads -> Nat] /\ batch = <<>> /\ completed = {} /\ arrived = 0
      /\ thread[Master] = At("none") /\ thread[Slave] = At("none")
  BY ThreadSet DEF Init
<1>2. NumOK /\ CompletedIsPosted
  BY <1>1 DEF NumOK, CompletedIsPosted
<1>3. TallyInv(Master) /\ TallyInv(Slave) /\ StoredInv /\ LateInv
  BY <1>1 DEF At, TallyInv, StoredInv, LateInv, Copying, Peeking
<1> QED
  BY <1>2, <1>3 DEF CountInv

LEMMA CountInvKeeps ==
    TwoThreads /\ MaxItems < CntMod /\ IInv /\ CountInv /\ [Next]_vars => CountInv'
<1> SUFFICES ASSUME TwoThreads, MaxItems < CntMod, IInv, CountInv, [Next]_vars PROVE CountInv'
  OBVIOUS
<1>1. CASE StartMaster \/ StartSlave \/ StartInvalid
  BY <1>1, StartCounts
<1>2. CASE NextLaunch
  BY <1>2, NextLaunchCounts
<1>3. CASE MasterNext
  <2>1. Master \in {Master, Slave}
    OBVIOUS
  <2> QED
    BY <1>3, <2>1, ReadMsgCounts, EnqueueCounts, NextItemCounts, MasterStopsCounts,
       MasterStoreCounts, WaitCounts, DequeueCounts DEF MasterNext, HandleBatchWrite, Post
<1>4. CASE \E s \in Slaves : SlaveNext(s)
  <2>1. SlaveNext(Slave) /\ Slave \in {Master, Slave}
    BY <1>4, ThreadSet
  <2>2. ASSUME PostSendFails(Slave) PROVE CountInv'
    <3>1. At("failed") \in Local /\ At("failed").pc = "failed" /\ At("failed").cnt = 0
      BY RingAssumption DEF At, Local
    <3> QED
      BY <2>2, <3>1, SlaveRests DEF PostSendFails, MoreItems
  <2> QED
    BY <2>1, <2>2, SlaveLoopCounts, PeekHeadCounts, PeekTailCounts, CopyCounts, PeekDoneCounts,
       NextItemCounts, SlaveStoreCounts DEF SlaveNext, Post
<1>5. CASE Terminated \/ UNCHANGED vars
  BY <1>5, StutterCounts DEF Terminated
<1> QED
  BY <1>1, <1>2, <1>3, <1>4, <1>5 DEF Next

----------------------------------------------------------------------------
\* A message is reported finished only when every item of it that is for
\* another rank is posted (WaitForSlaveCompletion before WriteTurnCnt), with the
\* two threads, a Peek that is over before the ring comes round, and messages
\* whose items needSendTotalNum can count.
THEOREM ReportedIsPosted ==
    ASSUME MaxThreads = 2, ~SlowPeek, MaxItems < CntMod
    PROVE  Spec => []CompletedIsPosted
<1>1. TwoThreads
  BY DEF TwoThreads
<1>2. Init => IInv /\ CountInv
  BY <1>1, InitInv, InitCounts
<1>3. IInv /\ CountInv /\ [Next]_vars => (IInv /\ CountInv)'
  BY <1>1, IInvKeeps, CountInvKeeps
<1>4. CountInv => CompletedIsPosted
  BY DEF CountInv
<1> QED
  BY <1>2, <1>3, <1>4, PTL DEF Spec
=============================================================================
