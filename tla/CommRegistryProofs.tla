------------------------ MODULE CommRegistryProofs ------------------------
(***************************************************************************)
(* Proofs about CommRegistry, for any number of threads, groups, generations  *)
(* and kernels: whoever changes the map is alone in the lock; and it            *)
(* implements CommLife, in which nothing more is promised to a group once two   *)
(* kernels are about to take its communicator or an Init took over an earlier one. *)
(***************************************************************************)
EXTENDS CommRegistry, FiniteSetTheorems, TLAPS

WordType == word \in [writing : BOOLEAN, waiting : BOOLEAN, readers : Int]

\* What the operations of the lock do to the number of readers and to the bit
\* of the writer.
LEMMA ReadLockAdds ==
    ASSUME WordType, ReadLock
    PROVE  /\ WordType' /\ ~word.writing
           /\ word'.readers = word.readers + 1 /\ word'.writing = word.writing
BY DEF WordType, ReadLock

LEMMA ReadUnlockTakes ==
    ASSUME WordType, ReadUnlock
    PROVE  /\ WordType'
           /\ word'.readers = word.readers - 1 /\ word'.writing = word.writing
BY DEF WordType, ReadUnlock

LEMMA MarkKeeps ==
    ASSUME WordType, MarkWaiting
    PROVE  /\ WordType'
           /\ word'.readers = word.readers /\ word'.writing = word.writing
BY DEF WordType, MarkWaiting

LEMMA WriteLockSets ==
    ASSUME WordType, WriteLock
    PROVE  /\ WordType' /\ ~word.writing /\ word.readers = 0
           /\ word'.readers = word.readers /\ word'.writing
BY DEF WordType, WriteLock, NobodyIn

LEMMA WriteUnlockClears ==
    ASSUME WordType, WriteUnlock
    PROVE  /\ WordType'
           /\ word'.readers = word.readers /\ ~word'.writing
BY DEF WordType, WriteUnlock

Pcs == {"idle", "mark", "acquire", "create", "init", "get", "look", "take", "use",
        "release", "clear"}
PcType == pc \in [Threads -> Pcs]
ReadPcs == {"look", "take", "clear"}
BgReads ==
    IF bpc \in {"scan", "cqes", "print"} THEN 1 ELSE IF bpc = "printing" THEN 2 ELSE 0

\* The word knows who is inside.
LockInv ==
    /\ WordType /\ PcType
    /\ word.readers = Cardinality(Reading) + BgReads
    /\ \A t \in Threads : pc[t] = "create" =>
        /\ word.writing /\ ~BgWriting
        /\ \A u \in Threads : pc[u] = "create" => u = t
    /\ BgWriting => word.writing
    /\ word.writing => word.readers = 0

\* A kernel that goes on enters, leaves or stays where it is in the lock.
LEMMA ReadingFinite ==
    ASSUME PcType
    PROVE  IsFiniteSet(Reading) /\ Cardinality(Reading) \in Nat
BY CommRegistryAssumption, FS_Subset, FS_CardinalityType DEF CommRegistryAssumption, Reading

LEMMA Enters ==
    ASSUME PcType, NEW t \in Threads, NEW p \in Pcs, p \in ReadPcs, pc[t] \notin ReadPcs, Goto(t, p)
    PROVE  PcType' /\ Cardinality(Reading') = Cardinality(Reading) + 1
<1>1. PcType'
  BY DEF PcType, Goto, ReadPcs
<1>2. Reading' = Reading \cup {t} /\ t \notin Reading
  BY DEF PcType, Goto, ReadPcs, Reading
<1> QED
  BY <1>1, <1>2, ReadingFinite, FS_AddElement

LEMMA Leaves ==
    ASSUME PcType, NEW t \in Threads, NEW p \in Pcs, p \notin ReadPcs,
           pc[t] \in ReadPcs, Goto(t, p)
    PROVE  /\ PcType' /\ Cardinality(Reading') = Cardinality(Reading) - 1
           /\ Cardinality(Reading') \in Nat
<1>1. PcType'
  BY DEF PcType, Goto
<1>2. Reading' = Reading \ {t} /\ t \in Reading
  BY DEF PcType, Goto, ReadPcs, Reading
<1>3. IsFiniteSet(Reading') /\ Cardinality(Reading') = Cardinality(Reading) - 1
  BY <1>2, ReadingFinite, FS_RemoveElement
<1> QED
  BY <1>1, <1>3, FS_CardinalityType

LEMMA Stays ==
    ASSUME PcType, NEW t \in Threads, NEW p \in Pcs,
           pc[t] \in ReadPcs <=> p \in ReadPcs, Goto(t, p)
    PROVE  PcType' /\ Cardinality(Reading') = Cardinality(Reading)
<1>1. PcType'
  BY DEF PcType, Goto
<1>2. Reading' = Reading
  BY DEF PcType, Goto, ReadPcs, Reading
<1> QED
  BY <1>1, <1>2

\* A kernel that is outside the critical section of a writer, and stays there.
LEMMA KernelMoves ==
    ASSUME LockInv, NEW t \in Threads, NEW p \in Pcs, Goto(t, p), p # "create",
           PcType', WordType', UNCHANGED bpc,
           word'.readers = Cardinality(Reading') + BgReads',
           \/ pc[t] = "create" /\ ~word'.writing
           \/ pc[t] # "create" /\ word'.writing = word.writing,
           word'.writing => word'.readers = 0
    PROVE  LockInv'
<1>1. ASSUME NEW u \in Threads, pc'[u] = "create"
      PROVE  u # t /\ pc[u] = "create"
  BY <1>1 DEF Goto, LockInv, PcType
<1>2. CASE pc[t] = "create" /\ ~word'.writing
  BY <1>1, <1>2 DEF LockInv, BgWriting, Reading
<1>3. CASE pc[t] # "create" /\ word'.writing = word.writing
  BY <1>1, <1>3 DEF LockInv, BgWriting, Reading
<1> QED
  BY <1>2, <1>3

LEMMA KernelReads ==
    ASSUME LockInv, NEW t \in Threads, NEW p \in Pcs, Goto(t, p), p \in ReadPcs,
           pc[t] \notin ReadPcs \cup {"create"}, ReadLock, UNCHANGED bpc
    PROVE  LockInv'
<1>1. PcType' /\ Cardinality(Reading') = Cardinality(Reading) + 1
  BY Enters DEF LockInv
<1>2. /\ WordType' /\ ~word.writing
      /\ word'.readers = word.readers + 1 /\ word'.writing = word.writing
  BY ReadLockAdds DEF LockInv
<1>3. Cardinality(Reading) \in Nat
  BY ReadingFinite DEF LockInv
<1>4. BgReads' = BgReads /\ BgReads \in Nat
  BY DEF BgReads
<1>5. word'.readers = Cardinality(Reading') + BgReads'
  BY <1>1, <1>2, <1>3, <1>4 DEF LockInv
<1> QED
  BY <1>1, <1>2, <1>5, KernelMoves DEF ReadPcs

LEMMA KernelReadEnds ==
    ASSUME LockInv, NEW t \in Threads, NEW p \in Pcs, Goto(t, p),
           p \notin ReadPcs \cup {"create"}, pc[t] \in ReadPcs, ReadUnlock, UNCHANGED bpc
    PROVE  LockInv'
<1>1. /\ PcType' /\ Cardinality(Reading') = Cardinality(Reading) - 1
      /\ Cardinality(Reading') \in Nat
  BY Leaves DEF LockInv
<1>2. WordType' /\ word'.readers = word.readers - 1 /\ word'.writing = word.writing
  BY ReadUnlockTakes DEF LockInv
<1>3. Cardinality(Reading) \in Nat
  BY ReadingFinite DEF LockInv
<1>4. BgReads' = BgReads /\ BgReads \in Nat
  BY DEF BgReads
<1>5. word'.readers = Cardinality(Reading') + BgReads' /\ word.readers >= 1
  BY <1>1, <1>2, <1>3, <1>4 DEF LockInv
<1>6. ~word'.writing
  BY <1>2, <1>5 DEF LockInv
<1> QED
  BY <1>1, <1>2, <1>5, <1>6, KernelMoves DEF ReadPcs

\* Steps of a kernel that change the number of readers in no way.
LEMMA KernelPasses ==
    ASSUME LockInv, NEW t \in Threads, NEW p \in Pcs, Goto(t, p), p # "create",
           pc[t] \in ReadPcs <=> p \in ReadPcs, WordType', word'.readers = word.readers,
           \/ pc[t] = "create" /\ ~word'.writing
           \/ pc[t] # "create" /\ word'.writing = word.writing,
           UNCHANGED bpc
    PROVE  LockInv'
<1>1. PcType' /\ Cardinality(Reading') = Cardinality(Reading)
  BY Stays DEF LockInv
<1>2. BgReads' = BgReads
  BY DEF BgReads
<1>3. word'.writing => word'.readers = 0
  BY DEF LockInv
<1>4. word'.readers = Cardinality(Reading') + BgReads'
  BY <1>1, <1>2 DEF LockInv
<1> QED
  BY <1>1, <1>3, <1>4, KernelMoves

\* Steps of the background thread.
LEMMA BgMoves ==
    ASSUME LockInv, UNCHANGED pc, WordType',
           word'.readers - BgReads' = word.readers - BgReads, BgReads' \in Nat,
           \/ word'.writing = word.writing /\ BgWriting' = BgWriting
           \/ ~word'.writing /\ BgWriting /\ ~BgWriting',
           word'.writing => word'.readers = 0
    PROVE  LockInv'
<1>1. Reading' = Reading /\ Cardinality(Reading) \in Nat /\ PcType'
  BY ReadingFinite DEF LockInv, Reading, PcType
<1>2. BgReads \in Nat /\ word.readers \in Int /\ word'.readers \in Int
  BY DEF BgReads, LockInv, WordType
<1>3. word'.readers = Cardinality(Reading') + BgReads'
  BY <1>1, <1>2 DEF LockInv
<1> QED
  BY <1>1, <1>3 DEF LockInv

LEMMA LockInit == Init => LockInv
<1> SUFFICES ASSUME Init PROVE LockInv
  OBVIOUS
<1>1. WordType /\ word.readers = 0 /\ ~word.writing
  BY DEF Init, InitLock, WordType
<1>2. PcType /\ \A t \in Threads : pc[t] = "idle"
  BY DEF Init, PcType, Pcs
<1>3. Reading = {}
  BY <1>2 DEF Reading
<1>4. BgReads = 0 /\ ~BgWriting
  BY DEF Init, BgReads, BgWriting
<1> QED
  BY <1>1, <1>2, <1>3, <1>4, FS_EmptySet DEF LockInv

LEMMA LockStutters == LockInv /\ UNCHANGED <<word, pc, bpc>> => LockInv'
BY DEF LockInv, WordType, PcType, Reading, BgReads, BgWriting

LEMMA KernelStepKeeps ==
    ASSUME LockInv, NEW t \in Threads, KernelStep(t) \/ LockStep(t) \/ GetTimesOut(t) \/ UseFails(t)
    PROVE  LockInv'
<1> USE DEF kernelVars, bgVars, KernelRest
<1>0. WordType /\ pc[t] \in Pcs
  BY DEF LockInv, PcType
<1>1. CASE AcquireMarks(t)
  <2>1. WordType' /\ word'.readers = word.readers /\ word'.writing = word.writing
    BY <1>0, <1>1, MarkKeeps DEF AcquireMarks
  <2>2. Goto(t, "acquire") /\ pc[t] = "mark" /\ UNCHANGED bpc
    BY <1>1 DEF AcquireMarks
  <2>3. "acquire" \in Pcs /\ "acquire" # "create" /\ (pc[t] \in ReadPcs <=> "acquire" \in ReadPcs)
    BY <2>2 DEF ReadPcs, Pcs
  <2> QED
    BY <2>1, <2>2, <2>3, KernelPasses
<1>2. CASE AcquireLocks(t)
  <2>1. /\ WordType' /\ ~word.writing /\ word.readers = 0
        /\ word'.readers = word.readers /\ word'.writing
    BY <1>0, <1>2, WriteLockSets DEF AcquireLocks
  <2>2. PcType' /\ Cardinality(Reading') = Cardinality(Reading)
    <3>1. Goto(t, "create") /\ pc[t] = "acquire"
      BY <1>2 DEF AcquireLocks
    <3>2. PcType /\ "create" \in Pcs /\ (pc[t] \in ReadPcs <=> "create" \in ReadPcs)
      BY <3>1 DEF LockInv, ReadPcs, Pcs
    <3> QED
      BY <3>1, <3>2, Stays
  <2>3. BgReads' = BgReads /\ BgWriting' = BgWriting
    BY <1>2 DEF AcquireLocks, BgReads, BgWriting
  <2>4. \A u \in Threads : pc'[u] = "create" => u = t
    BY <1>2, <2>1 DEF AcquireLocks, Goto, LockInv, PcType
  <2>5. ~BgWriting
    BY <2>1 DEF LockInv
  <2> QED
    BY <2>1, <2>2, <2>3, <2>4, <2>5 DEF LockInv
<1>3. CASE AcquireCreates(t)
  <2>1. WordType' /\ word'.readers = word.readers /\ ~word'.writing
    BY <1>0, <1>3, WriteUnlockClears DEF AcquireCreates
  <2>2. Goto(t, "init") /\ pc[t] = "create" /\ UNCHANGED bpc
    BY <1>3 DEF AcquireCreates
  <2>3. "init" \in Pcs /\ "init" # "create" /\ (pc[t] \in ReadPcs <=> "init" \in ReadPcs)
    BY <2>2 DEF ReadPcs, Pcs
  <2> QED
    BY <2>1, <2>2, <2>3, KernelPasses
<1>4. CASE GetLocks(t) \/ ReleaseLocks(t)
  <2>1. PICK p \in {"look", "clear"} :
          Goto(t, p) /\ pc[t] \in {"get", "release"} /\ ReadLock /\ UNCHANGED bpc
    BY <1>4 DEF GetLocks, ReleaseLocks
  <2>2. p \in Pcs /\ p \in ReadPcs /\ pc[t] \notin ReadPcs \cup {"create"}
    BY <2>1 DEF ReadPcs, Pcs
  <2> QED
    BY <2>1, <2>2, KernelReads
<1>5. CASE GetMisses(t) \/ GetPolls(t) \/ GetTimesOut(t) \/ GetTakes(t) \/ Releases(t)
  <2>1. PICK p \in {"idle", "get", "use"} :
          Goto(t, p) /\ pc[t] \in {"look", "take", "clear"} /\ ReadUnlock /\ UNCHANGED bpc
    BY <1>5 DEF GetMisses, MissUnlocks, GetPolls, GetTimesOut, GetFindsUsed, GetTakes, Releases
  <2>2. p \in Pcs /\ p \notin ReadPcs \cup {"create"} /\ pc[t] \in ReadPcs
    BY <2>1 DEF ReadPcs, Pcs
  <2> QED
    BY <2>1, <2>2, KernelReadEnds
<1>6. CASE GetFinds(t)
  <2>1. Goto(t, "take") /\ pc[t] = "look" /\ UNCHANGED <<word, bpc>>
    BY <1>6 DEF GetFinds
  <2>2. "take" \in Pcs /\ "take" # "create" /\ (pc[t] \in ReadPcs <=> "take" \in ReadPcs)
    BY <2>1 DEF ReadPcs, Pcs
  <2>3. WordType' /\ word'.readers = word.readers /\ word'.writing = word.writing
    BY <1>0, <2>1 DEF WordType
  <2> QED
    BY <2>1, <2>2, <2>3, KernelPasses
<1>7. CASE InitReturns(t) \/ InitFails(t) \/ UseEnds(t) \/ UseFails(t)
  <2>1. PICK p \in {"idle", "release"} :
          Goto(t, p) /\ pc[t] \in {"init", "use"} /\ UNCHANGED <<word, bpc>>
    BY <1>7 DEF InitReturns, InitFails, InitEnds, UseEnds, UseFails
  <2>2. p \in Pcs /\ p # "create" /\ (pc[t] \in ReadPcs <=> p \in ReadPcs)
    BY <2>1 DEF ReadPcs, Pcs
  <2>3. WordType' /\ word'.readers = word.readers /\ word'.writing = word.writing
    BY <1>0, <2>1 DEF WordType
  <2> QED
    BY <2>1, <2>2, <2>3, KernelPasses
<1> QED
  BY <1>1, <1>2, <1>3, <1>4, <1>5, <1>6, <1>7 DEF KernelStep, LockStep

LEMMA BgStepKeeps ==
    ASSUME LockInv, BgStep \/ BgWriteLocks
    PROVE  LockInv'
<1> USE DEF kernelVars, BgRest, BgGoto
<1>0. WordType /\ word.readers \in Int
  BY DEF LockInv, WordType
<1>1. ASSUME NEW from, NEW to, <<from, to>> \in {<<"destroy", "scan">>, <<"cqe", "cqes">>,
                                              <<"print", "printing">>},
             BgReadLock(from, to)
      PROVE  LockInv'
  <2>1. /\ WordType' /\ ~word.writing
        /\ word'.readers = word.readers + 1 /\ word'.writing = word.writing
    BY <1>0, <1>1, ReadLockAdds DEF BgReadLock
  <2>2. BgReads' = BgReads + 1 /\ BgReads \in Nat /\ BgWriting' = BgWriting /\ UNCHANGED pc
    BY <1>1 DEF BgReadLock, BgReads, BgWriting
  <2> QED
    BY <1>0, <2>1, <2>2, BgMoves
<1>2. CASE BgScans \/ BgPrints \/ (BgLooks /\ bpc' = "destroy")
  <2>1. ReadUnlock /\ UNCHANGED pc
    BY <1>2 DEF BgScans, BgPrints, BgLooks
  <2>2. WordType' /\ word'.readers = word.readers - 1 /\ word'.writing = word.writing
    BY <1>0, <2>1, ReadUnlockTakes
  <2>3. BgReads' = BgReads - 1 /\ BgReads' \in Nat /\ BgReads \in 1..2 /\ BgWriting' = BgWriting
    BY <1>2 DEF BgScans, BgPrints, BgLooks, BgReads, BgWriting
  <2>4. ~word.writing
    BY <2>3, ReadingFinite DEF LockInv
  <2> QED
    BY <1>0, <2>1, <2>2, <2>3, <2>4, BgMoves
<1>3. CASE BgLooks /\ bpc' # "destroy"
  <2>1. WordType' /\ word' = word /\ UNCHANGED pc
    BY <1>0, <1>3 DEF BgLooks, WordType
  <2>2. BgReads' = BgReads /\ BgReads \in Nat /\ BgWriting' = BgWriting
    BY <1>3 DEF BgLooks, BgReads, BgWriting
  <2> QED
    BY <1>0, <2>1, <2>2, BgMoves DEF LockInv
<1>4. CASE BgMarks
  <2>1. WordType' /\ word'.readers = word.readers /\ word'.writing = word.writing /\ UNCHANGED pc
    BY <1>0, <1>4, MarkKeeps DEF BgMarks
  <2>2. BgReads' = BgReads /\ BgReads \in Nat /\ BgWriting' = BgWriting
    BY <1>4 DEF BgMarks, BgReads, BgWriting
  <2> QED
    BY <1>0, <2>1, <2>2, BgMoves DEF LockInv
<1>5. CASE BgWriteLocks
  <2>1. /\ WordType' /\ ~word.writing /\ word.readers = 0
        /\ word'.readers = word.readers /\ word'.writing /\ UNCHANGED pc
    BY <1>0, <1>5, WriteLockSets DEF BgWriteLocks
  <2>2. BgReads' = 0 /\ BgReads = 0
    BY <1>5 DEF BgWriteLocks, BgReads
  <2>3. Reading' = Reading /\ PcType'
    BY <2>1 DEF Reading, LockInv, PcType
  <2>4. \A u \in Threads : pc'[u] # "create"
    BY <2>1 DEF LockInv
  <2> QED
    BY <2>1, <2>2, <2>3, <2>4 DEF LockInv
<1>6. CASE BgErases
  <2>1. WordType' /\ word'.readers = word.readers /\ ~word'.writing /\ UNCHANGED pc
    BY <1>0, <1>6, WriteUnlockClears DEF BgErases
  <2>2. BgReads' = 0 /\ BgReads = 0 /\ BgWriting /\ ~BgWriting'
    BY <1>6 DEF BgErases, BgReads, BgWriting
  <2> QED
    BY <1>0, <2>1, <2>2, BgMoves
<1>7. BgLooks => bpc' = "destroy" \/ bpc' # "destroy"
  OBVIOUS
<1> QED
  BY <1>1, <1>2, <1>3, <1>4, <1>5, <1>6, <1>7 DEF BgStep

LEMMA LockKeeps == LockInv /\ [Next]_vars => LockInv'
<1> SUFFICES ASSUME LockInv, [Next]_vars PROVE LockInv'
  OBVIOUS
<1>1. ASSUME NEW t \in Threads, NEW g \in Groups, LaunchInit(t, g) \/ LaunchOp(t, g)
      PROVE  LockInv'
  <2>1. PICK p \in {"mark", "get"} : Launch(t, g, p)
    BY <1>1 DEF LaunchInit, LaunchOp
  <2>2. Goto(t, p) /\ pc[t] = "idle" /\ UNCHANGED <<word, bpc>>
    BY <2>1 DEF Launch, bgVars
  <2>3. p \in Pcs /\ p # "create" /\ (pc[t] \in ReadPcs <=> p \in ReadPcs)
    BY <2>2 DEF ReadPcs, Pcs
  <2>4. WordType' /\ word'.readers = word.readers /\ word'.writing = word.writing
    BY <2>2 DEF LockInv, WordType
  <2> QED
    BY <2>2, <2>3, <2>4, KernelPasses
<1>2. ASSUME NEW t \in Threads, KernelStep(t) \/ LockStep(t) \/ GetTimesOut(t) \/ UseFails(t)
      PROVE  LockInv'
  BY <1>2, KernelStepKeeps
<1>3. ASSUME NEW g \in Groups, DestroyComm(g) \/ DestroyReturns(g) \/ DestroyTimesOut(g)
      PROVE  LockInv'
  BY <1>3, LockStutters
     DEF DestroyComm, DestroyReturns, DestroyTimesOut, DestroyEnds, kernelVars, bgVars
<1>4. CASE BgStep \/ BgWriteLocks
  BY <1>4, BgStepKeeps
<1>5. CASE UNCHANGED vars
  BY <1>5, LockStutters DEF vars, kernelVars, bgVars
<1> QED
  BY <1>1, <1>2, <1>3, <1>4, <1>5 DEF Next

LEMMA LockIsAlone == LockInv => WriterIsAlone
<1> SUFFICES ASSUME LockInv PROVE WriterIsAlone
  OBVIOUS
<1>1. ASSUME word.writing PROVE Reading = {} /\ ~BgReading
  <2>1. Cardinality(Reading) \in Nat /\ IsFiniteSet(Reading) /\ BgReads \in Nat
    BY ReadingFinite DEF LockInv, BgReads
  <2>2. Cardinality(Reading) = 0 /\ BgReads = 0
    BY <1>1, <2>1 DEF LockInv
  <2> QED
    BY <2>1, <2>2, FS_EmptySet DEF BgReads, BgReading
<1>2. ASSUME NEW t \in Writing
      PROVE  Reading = {} /\ Writing = {t} /\ ~BgReading /\ ~BgWriting
  BY <1>1 DEF LockInv, Writing
<1>3. BgWriting => Reading = {}
  BY <1>1 DEF LockInv
<1> QED
  BY <1>2, <1>3 DEF WriterIsAlone

\* Whoever changes the map of communicators is alone in the lock: the word of
\* ReadWriteLockBase counts everyone who is inside.
THEOREM Exclusion == Spec => []WriterIsAlone
<1>1. Spec => []LockInv
  BY LockInit, LockKeeps, PTL DEF Spec
<1> QED
  BY <1>1, LockIsAlone, PTL

----------------------------------------------------------------------------
(* The life of the communicators of the groups.                             *)

Hosts == {"none", "init", "ready", "failed", "destroying"}

RegistryType ==
    /\ comm \in [Groups -> Nat] /\ gen \in [Groups -> Nat] /\ asked \in [Groups -> Nat]
    /\ host \in [Groups -> Hosts]
    /\ used \subseteq Groups /\ open \subseteq Groups
    /\ doomed \subseteq Groups /\ spoiled \subseteq Groups
    /\ mine \in [Threads -> Nat] /\ grp \in [Threads -> Groups \cup {None}]
    /\ \A t \in Threads : pc[t] # "idle" => grp[t] \in Groups

Acquiring == {"mark", "acquire", "create", "init"}
Owning == {"use", "release", "clear"}
Holding == Owning \cup {"take"}

\* The host has not asked for the communicator it makes or uses; only what it has
\* asked for is doomed, and one thread initializes a group.
HostInv ==
    /\ \A g \in Groups :
        /\ asked[g] <= gen[g]
        /\ host[g] \in {"init", "ready", "failed"} => asked[g] < gen[g]
        /\ g \in open \ spoiled => comm[g] # 0
        /\ g \in doomed \ spoiled => comm[g] # 0 /\ asked[g] >= comm[g]
    /\ \A t \in Threads : pc[t] \in Acquiring => host[grp[t]] = "init"
    /\ \A t, u \in Threads :
        pc[t] \in Acquiring /\ pc[u] \in Acquiring /\ grp[t] = grp[u] => t = u

\* Until a group is spoiled, one kernel at most has found its flag clear and is not
\* done; the flag is set from use to the end, and an Init works with the host's communicator.
FlagInv ==
    /\ \A t, u \in Threads :
        pc[t] \in Holding /\ pc[u] \in Holding /\ grp[t] = grp[u] /\ grp[t] \notin spoiled
            => t = u
    /\ \A t \in Threads :
        /\ pc[t] = "take" => mine[t] # 0 /\ comm[grp[t]] = mine[t]
        /\ grp[t] \notin spoiled =>
            /\ pc[t] \in Owning => grp[t] \in used
            /\ pc[t] = "use" => mine[t] # 0 /\ comm[grp[t]] = mine[t]
            /\ pc[t] = "init" => comm[grp[t]] = mine[t] /\ mine[t] = gen[grp[t]]

LifeInv == LockInv /\ RegistryType /\ HostInv /\ FlagInv

LEMMA LifeInit == Init => LifeInv
<1> SUFFICES ASSUME Init PROVE LifeInv
  OBVIOUS
<1>1. /\ \A t \in Threads : pc[t] = "idle" /\ grp[t] = None /\ mine[t] = 0
      /\ \A g \in Groups : comm[g] = 0 /\ gen[g] = 0 /\ asked[g] = 0 /\ host[g] = "none"
      /\ used = {} /\ open = {} /\ doomed = {} /\ spoiled = {}
  BY DEF Init
<1>2. RegistryType
  BY <1>1 DEF Init, RegistryType, Hosts
<1>3. HostInv /\ FlagInv
  BY <1>1 DEF HostInv, FlagInv, Acquiring, Owning, Holding
<1> QED
  BY <1>2, <1>3, LockInit DEF LifeInv

Rest == <<comm, used, open, mine, grp, gen, host, asked, doomed, spoiled>>

\* A step that only moves a kernel on.
LEMMA Moves ==
    ASSUME LifeInv, NEW t \in Threads, NEW p \in Pcs, Goto(t, p), UNCHANGED Rest,
           p # "idle" => pc[t] # "idle",
           p \in Acquiring => pc[t] \in Acquiring,
           p \in Owning => pc[t] \in Owning,
           p \notin {"take", "use", "init"}
    PROVE  RegistryType' /\ HostInv' /\ FlagInv'
<1> USE DEF LifeInv, Rest, Holding
<1>1. \A u \in Threads : pc'[u] = IF u = t THEN p ELSE pc[u]
  BY DEF Goto, LockInv, PcType
<1>2. RegistryType'
  BY <1>1 DEF RegistryType
<1>3. HostInv'
  BY <1>1 DEF HostInv
<1>4. FlagInv'
  BY <1>1 DEF FlagInv
<1> QED
  BY <1>2, <1>3, <1>4

\* The host begins with a new communicator only after it has let its last one go.
LEMMA Launches ==
    ASSUME LifeInv, NEW t \in Threads, NEW g \in Groups,
           LaunchInit(t, g) \/ LaunchOp(t, g)
    PROVE  RegistryType' /\ HostInv' /\ FlagInv'
<1> USE DEF LifeInv
<1>1. PICK p \in {"mark", "get"} :
        /\ \A u \in Threads : pc'[u] = IF u = t THEN p ELSE pc[u]
        /\ \A u \in Threads : grp'[u] = IF u = t THEN g ELSE grp[u]
        /\ grp' \in [Threads -> Groups \cup {None}]
        /\ p = "mark" <=> LaunchInit(t, g)
        /\ UNCHANGED <<comm, used, open, mine, asked, doomed, spoiled>>
  <2>1. CASE LaunchInit(t, g)
    BY <2>1 DEF LaunchInit, Launch, Goto, LockInv, PcType, RegistryType, map, bgVars
  <2>2. CASE ~LaunchInit(t, g) /\ LaunchOp(t, g)
    BY <2>2 DEF LaunchOp, Launch, Goto, LockInv, PcType, RegistryType, map, bgVars
  <2> QED
    BY <2>1, <2>2
<1>2. /\ gen' \in [Groups -> Nat] /\ host' \in [Groups -> Hosts]
      /\ \A h \in Groups \ {g} : gen'[h] = gen[h] /\ host'[h] = host[h]
      /\ gen'[g] \in {gen[g], gen[g] + 1}
      /\ p = "mark" => host'[g] = "init" /\ host[g] # "init"
      /\ p = "get" => host' = host /\ gen' = gen
      /\ host'[g] \in {"init", "ready", "failed"} => asked[g] < gen'[g]
  <2>1. CASE LaunchInit(t, g)
    BY <2>1, <1>1 DEF LaunchInit, RegistryType, HostInv, Hosts
  <2>2. CASE ~LaunchInit(t, g) /\ LaunchOp(t, g)
    BY <2>2, <1>1 DEF LaunchOp, RegistryType, HostInv, Hosts
  <2> QED
    BY <2>1, <2>2
<1>3. pc[t] = "idle"
  BY DEF LaunchInit, LaunchOp, Launch
<1>4. RegistryType'
  BY <1>1, <1>2 DEF RegistryType
<1>5. \A u \in Threads : pc[u] \in Acquiring => host[grp[u]] = "init" /\ grp[u] \in Groups
  BY DEF HostInv, RegistryType, Acquiring
<1>6. HostInv'
  <2>1. \A h \in Groups :
        /\ asked'[h] <= gen'[h]
        /\ host'[h] \in {"init", "ready", "failed"} => asked'[h] < gen'[h]
    BY <1>1, <1>2 DEF HostInv, RegistryType
  <2>2. \A h \in Groups :
        /\ h \in open' \ spoiled' => comm'[h] # 0
        /\ h \in doomed' \ spoiled' => comm'[h] # 0 /\ asked'[h] >= comm'[h]
    BY <1>1 DEF HostInv
  <2>3. \A u \in Threads : pc'[u] \in Acquiring => host'[grp'[u]] = "init"
    BY <1>1, <1>2, <1>5 DEF Acquiring
  <2>4. \A u, w \in Threads :
          pc'[u] \in Acquiring /\ pc'[w] \in Acquiring /\ grp'[u] = grp'[w] => u = w
    BY <1>1, <1>2, <1>5 DEF HostInv, Acquiring
  <2> QED
    BY <2>1, <2>2, <2>3, <2>4 DEF HostInv
<1>7. FlagInv'
  <2>1. ASSUME NEW u \in Threads, pc'[u] = "init", grp'[u] \notin spoiled'
        PROVE  comm'[grp'[u]] = mine'[u] /\ mine'[u] = gen'[grp'[u]]
    <3>1. u # t /\ pc[u] = "init" /\ grp'[u] = grp[u] /\ host[grp[u]] = "init"
      BY <1>1, <1>5, <2>1 DEF Acquiring
    <3>2. gen'[grp[u]] = gen[grp[u]]
      BY <1>2, <1>5, <3>1 DEF Acquiring
    <3> QED
      BY <1>1, <2>1, <3>1, <3>2 DEF FlagInv
  <2> QED
    BY <1>1, <2>1 DEF FlagInv, Owning, Holding
<1> QED
  BY <1>4, <1>6, <1>7

\* AcquireAicpuComm makes the host's communicator, or takes the one there is.
LEMMA Creates ==
    ASSUME LifeInv, NEW t \in Threads, AcquireCreates(t)
    PROVE  RegistryType' /\ HostInv' /\ FlagInv'
<1> USE DEF LifeInv
<1> DEFINE g == grp[t]
<1>1. PICK n \in TakenOver(g) :
        /\ comm' = [comm EXCEPT ![g] = n] /\ mine' = [mine EXCEPT ![t] = n]
  BY DEF AcquireCreates
<1>2. /\ pc[t] = "create" /\ g \in Groups /\ host[g] = "init"
      /\ \A u \in Threads : pc'[u] = IF u = t THEN "init" ELSE pc[u]
      /\ \A h \in Groups : comm'[h] = IF h = g THEN n ELSE comm[h]
      /\ \A u \in Threads : mine'[u] = IF u = t THEN n ELSE mine[u]
      /\ spoiled' = IF comm[g] \in {0, gen[g]} THEN spoiled ELSE spoiled \cup {g}
      /\ UNCHANGED <<used, open, grp, gen, host, asked, doomed>>
  BY <1>1 DEF AcquireCreates, Goto, LockInv, PcType, RegistryType, HostInv, Acquiring,
              KernelRest, hostVars, bgVars
<1>3. asked[g] < gen[g] /\ asked[g] \in Nat /\ gen[g] \in Nat /\ comm[g] \in Nat
  BY <1>2 DEF HostInv, RegistryType
<1>4. n \in Nat /\ n # 0 /\ (g \notin spoiled' => n = gen[g] /\ comm[g] \in {0, n})
  BY <1>2, <1>3 DEF TakenOver
<1>5. \A h \in Groups : h \notin spoiled' => h \notin spoiled /\ comm[h] \in {0, comm'[h]}
  BY <1>2, <1>4
<1>6. RegistryType'
  <2>1. comm' \in [Groups -> Nat] /\ mine' \in [Threads -> Nat]
    BY <1>1, <1>2, <1>4 DEF RegistryType
  <2> QED
    BY <1>2, <2>1 DEF RegistryType
<1>7. HostInv'
  <2>1. \A h \in Groups :
        /\ asked'[h] <= gen'[h]
        /\ host'[h] \in {"init", "ready", "failed"} => asked'[h] < gen'[h]
    BY <1>2 DEF HostInv
  <2>2. \A h \in Groups :
        /\ h \in open' \ spoiled' => comm'[h] # 0
        /\ h \in doomed' \ spoiled' => comm'[h] # 0 /\ asked'[h] >= comm'[h]
    BY <1>2, <1>5 DEF HostInv, RegistryType
  <2>3. \A u \in Threads : pc'[u] \in Acquiring => host'[grp'[u]] = "init"
    BY <1>2 DEF HostInv, Acquiring
  <2>4. \A u, w \in Threads :
          pc'[u] \in Acquiring /\ pc'[w] \in Acquiring /\ grp'[u] = grp'[w] => u = w
    BY <1>2 DEF HostInv, Acquiring
  <2> QED
    BY <2>1, <2>2, <2>3, <2>4 DEF HostInv
<1>8. FlagInv'
  <2>1. \A u \in Threads : pc'[u] # "take"
    BY <1>2, LockIsAlone DEF WriterIsAlone, Writing, Reading
  <2>2. ASSUME NEW u \in Threads, pc'[u] = "use", grp'[u] \notin spoiled'
        PROVE  mine'[u] # 0 /\ comm'[grp'[u]] = mine'[u]
    <3>1. u # t /\ pc[u] = "use" /\ grp[u] \in Groups /\ grp'[u] = grp[u]
      BY <1>2, <2>2 DEF RegistryType
    <3>2. grp[u] \notin spoiled /\ comm[grp[u]] \in {0, comm'[grp[u]]}
      BY <1>5, <2>2, <3>1
    <3>3. mine[u] # 0 /\ comm[grp[u]] = mine[u]
      BY <3>1, <3>2 DEF FlagInv
    <3> QED
      BY <1>2, <3>1, <3>2, <3>3
  <2>3. ASSUME NEW u \in Threads, pc'[u] = "init", grp'[u] \notin spoiled'
        PROVE  comm'[grp'[u]] = mine'[u] /\ mine'[u] = gen'[grp'[u]]
    <3>1. CASE u = t
      BY <1>2, <1>4, <2>3, <3>1
    <3>2. CASE u # t
      <4>1. pc[u] = "init" /\ grp'[u] = grp[u] /\ grp[u] # g /\ grp[u] \in Groups
        BY <1>2, <2>3, <3>2 DEF RegistryType, HostInv, Acquiring
      <4> QED
        BY <1>2, <2>3, <3>2, <4>1 DEF FlagInv
    <3> QED
      BY <3>1, <3>2
  <2>4. \A u, w \in Threads :
          pc'[u] \in Holding /\ pc'[w] \in Holding /\ grp'[u] = grp'[w] /\ grp'[u] \notin spoiled'
              => u = w
    BY <1>2 DEF FlagInv, Owning, Holding
  <2>5. \A u \in Threads : grp'[u] \notin spoiled' => (pc'[u] \in Owning => grp'[u] \in used')
    BY <1>2 DEF FlagInv, Owning
  <2> QED
    BY <2>1, <2>2, <2>3, <2>4, <2>5 DEF FlagInv
<1> QED
  BY <1>6, <1>7, <1>8

LEMMA Initializes ==
    ASSUME LifeInv, NEW t \in Threads, InitReturns(t) \/ InitFails(t)
    PROVE  RegistryType' /\ HostInv' /\ FlagInv'
<1> USE DEF LifeInv
<1>1. PICK r \in {"ready", "failed"} : InitEnds(t, r)
  BY DEF InitReturns, InitFails
<1>2. /\ pc[t] = "init" /\ grp[t] \in Groups /\ host[grp[t]] = "init"
      /\ \A u \in Threads : pc'[u] = IF u = t THEN "idle" ELSE pc[u]
      /\ \A h \in Groups : host'[h] = IF h = grp[t] THEN r ELSE host[h]
      /\ UNCHANGED <<comm, used, mine, grp, gen, asked, doomed, spoiled>>
      /\ open' = open \/ open' = open \cup {grp[t]}
  BY <1>1 DEF InitReturns, InitFails, InitEnds, Goto, LockInv, PcType, RegistryType, HostInv,
              Acquiring, bgVars
<1>3. RegistryType'
  BY <1>1, <1>2 DEF InitEnds, RegistryType, Hosts
<1>4. HostInv'
  <2>1. \A u \in Threads :
          pc'[u] \in Acquiring => pc[u] \in Acquiring /\ grp[u] \in Groups /\ grp[u] # grp[t]
    BY <1>2 DEF RegistryType, HostInv, Acquiring
  <2>2. \A u \in Threads : pc'[u] \in Acquiring => host'[grp'[u]] = "init"
    BY <1>2, <2>1 DEF HostInv
  <2>3. \A u, w \in Threads :
          pc'[u] \in Acquiring /\ pc'[w] \in Acquiring /\ grp'[u] = grp'[w] => u = w
    BY <1>2, <2>1 DEF HostInv
  <2>4. \A g \in Groups :
          /\ asked'[g] <= gen'[g]
          /\ host'[g] \in {"init", "ready", "failed"} => asked'[g] < gen'[g]
    BY <1>2 DEF HostInv
  <2>5. grp[t] \notin spoiled => comm[grp[t]] # 0
    BY <1>2 DEF HostInv, FlagInv, RegistryType
  <2>6. \A g \in Groups :
          /\ g \in open' \ spoiled' => comm'[g] # 0
          /\ g \in doomed' \ spoiled' => comm'[g] # 0 /\ asked'[g] >= comm'[g]
    BY <1>2, <2>5 DEF HostInv
  <2> QED
    BY <2>2, <2>3, <2>4, <2>6 DEF HostInv
<1>5. FlagInv'
  BY <1>2 DEF FlagInv, Owning, Holding
<1> QED
  BY <1>3, <1>4, <1>5

\* AicpuGetCommbyGroup finds the communicator and its flag clear.  If another kernel
\* has found it clear and not yet set it, the group is spoiled.
LEMMA Finds ==
    ASSUME LifeInv, NEW t \in Threads, GetFinds(t)
    PROVE  RegistryType' /\ HostInv' /\ FlagInv'
<1> USE DEF LifeInv
<1>1. /\ pc[t] = "look" /\ grp[t] \in Groups /\ comm[grp[t]] # 0
      /\ \A u \in Threads : pc'[u] = IF u = t THEN "take" ELSE pc[u]
      /\ \A u \in Threads : mine'[u] = IF u = t THEN comm[grp[t]] ELSE mine[u]
      /\ grp[t] \notin used
      /\ spoiled' = IF AboutToTake(grp[t]) THEN spoiled \cup {grp[t]} ELSE spoiled
      /\ UNCHANGED <<comm, used, open, grp, gen, host, asked, doomed>>
  BY DEF GetFinds, InUse, Goto, LockInv, PcType, RegistryType, KernelRest, hostVars, bgVars, map
<1>2. RegistryType'
  BY <1>1 DEF GetFinds, RegistryType
<1>3. HostInv'
  BY <1>1 DEF HostInv, Acquiring
<1>4. FlagInv'
  <2>1. ASSUME grp[t] \notin spoiled', NEW u \in Threads, grp[u] = grp[t]
        PROVE  pc[u] \notin Holding
    BY <1>1, <2>1 DEF FlagInv, Holding, AboutToTake
  <2>2. ASSUME NEW u \in Threads, NEW w \in Threads, pc'[u] \in Holding, pc'[w] \in Holding,
               grp'[u] = grp'[w], grp'[u] \notin spoiled'
        PROVE  u = w
    <3>1. CASE u = t \/ w = t
      BY <1>1, <2>1, <2>2, <3>1
    <3>2. CASE u # t /\ w # t
      BY <1>1, <2>2, <3>2 DEF FlagInv
    <3> QED
      BY <3>1, <3>2
  <2> QED
    BY <1>1, <2>2 DEF FlagInv, Owning
<1> QED
  BY <1>2, <1>3, <1>4

\* The kernel that is about to take it is the only one, and sets the flag.
LEMMA Takes ==
    ASSUME LifeInv, NEW t \in Threads, GetTakes(t)
    PROVE  RegistryType' /\ HostInv' /\ FlagInv'
<1> USE DEF LifeInv
<1>1. /\ pc[t] = "take" /\ grp[t] \in Groups
      /\ \A u \in Threads : pc'[u] = IF u = t THEN "use" ELSE pc[u]
      /\ used' = used \cup {grp[t]}
      /\ UNCHANGED <<comm, open, mine, grp, gen, host, asked, doomed, spoiled>>
  BY DEF GetTakes, Goto, LockInv, PcType, RegistryType, KernelRest, hostVars, bgVars
<1>2. RegistryType'
  BY <1>1 DEF RegistryType
<1>3. HostInv'
  BY <1>1 DEF HostInv, Acquiring
<1>4. FlagInv'
  BY <1>1 DEF FlagInv, Owning, Holding
<1> QED
  BY <1>2, <1>3, <1>4

LEMMA Clears ==
    ASSUME LifeInv, NEW t \in Threads, Releases(t)
    PROVE  RegistryType' /\ HostInv' /\ FlagInv'
<1> USE DEF LifeInv
<1>1. /\ pc[t] = "clear"
      /\ \A u \in Threads : pc'[u] = IF u = t THEN "idle" ELSE pc[u]
      /\ used' = used \ {grp[t]}
      /\ UNCHANGED <<comm, open, mine, grp, gen, host, asked, doomed, spoiled>>
  BY DEF Releases, Goto, LockInv, PcType, KernelRest, hostVars, bgVars
<1>2. RegistryType'
  BY <1>1 DEF RegistryType
<1>3. HostInv'
  BY <1>1 DEF HostInv, Acquiring
<1>4. FlagInv'
  BY <1>1 DEF FlagInv, Owning, Holding
<1> QED
  BY <1>2, <1>3, <1>4

LEMMA KernelKeepsLife ==
    ASSUME LifeInv, NEW t \in Threads,
           KernelStep(t) \/ LockStep(t) \/ GetTimesOut(t) \/ UseFails(t)
    PROVE  RegistryType' /\ HostInv' /\ FlagInv'
<1> USE DEF Pcs, Acquiring, Owning
<1>1. CASE AcquireMarks(t) \/ AcquireLocks(t)
  <2>1. PICK p \in {"acquire", "create"} :
          Goto(t, p) /\ pc[t] \in {"mark", "acquire"} /\ UNCHANGED Rest
    BY <1>1 DEF AcquireMarks, AcquireLocks, KernelRest, map, hostVars, bgVars, Rest
  <2> QED
    BY <2>1, Moves
<1>2. CASE GetLocks(t)
  <2>1. Goto(t, "look") /\ pc[t] = "get" /\ UNCHANGED Rest
    BY <1>2 DEF GetLocks, KernelRest, map, hostVars, bgVars, Rest
  <2> QED
    BY <2>1, Moves
<1>3. CASE GetMisses(t) \/ GetPolls(t) \/ GetTimesOut(t) \/ UseFails(t)
  <2>1. PICK p \in {"idle", "get"} :
          Goto(t, p) /\ pc[t] \in {"look", "use"} /\ UNCHANGED Rest
    BY <1>3 DEF GetMisses, GetPolls, GetTimesOut, GetFindsUsed, UseFails, KernelRest, map,
                hostVars, bgVars, Rest
  <2> QED
    BY <2>1, Moves
<1>4. CASE UseEnds(t) \/ ReleaseLocks(t)
  <2>1. PICK p \in {"release", "clear"} :
          Goto(t, p) /\ pc[t] \in {"use", "release"} /\ UNCHANGED Rest
    BY <1>4 DEF UseEnds, ReleaseLocks, KernelRest, map, hostVars, bgVars, Rest
  <2> QED
    BY <2>1, Moves
<1> QED
  BY <1>1, <1>2, <1>3, <1>4, Creates, Initializes, Finds, Takes, Clears
     DEF KernelStep, LockStep

\* The host asks for what it no longer uses.
LEMMA HostKeepsLife ==
    ASSUME LifeInv, NEW g \in Groups,
           DestroyComm(g) \/ DestroyReturns(g) \/ DestroyTimesOut(g)
    PROVE  RegistryType' /\ HostInv' /\ FlagInv'
<1> USE DEF LifeInv
<1>1. /\ UNCHANGED <<comm, used, open, gen, pc, grp, mine, doomed, spoiled>>
      /\ host[g] \in {"ready", "failed", "destroying"}
      /\ \E h \in {"none", "destroying"} : host' = [host EXCEPT ![g] = h]
      /\ asked' = asked \/ asked' = [asked EXCEPT ![g] = gen[g]]
      /\ host[g] = "destroying" => asked' = asked
  BY DEF DestroyComm, DestroyReturns, DestroyTimesOut, DestroyEnds, map, kernelVars, bgVars
<1>2. RegistryType'
  BY <1>1 DEF RegistryType, Hosts
<1>3. HostInv'
  <2>0. \A h \in Groups : /\ asked'[h] = asked[h] \/ (h = g /\ asked'[h] = gen[h])
                          /\ asked[h] \in Nat /\ gen[h] \in Nat /\ comm[h] \in Nat
                          /\ asked[h] <= gen[h]
    BY <1>1 DEF HostInv, RegistryType
  <2>1. \A h \in Groups : asked'[h] >= asked[h] /\ asked'[h] <= gen[h]
    BY <2>0
  <2>2. \A t \in Threads : pc[t] \in Acquiring => grp[t] # g /\ grp[t] \in Groups
    BY <1>1 DEF HostInv, RegistryType, Acquiring
  <2>3. \A t \in Threads : pc'[t] \in Acquiring => host'[grp'[t]] = "init"
    BY <1>1, <2>2 DEF HostInv, RegistryType
  <2>4. \A h \in Groups :
          /\ host'[h] \in {"init", "ready", "failed"} => asked'[h] < gen'[h]
          /\ h \in doomed' \ spoiled' => comm'[h] # 0 /\ asked'[h] >= comm'[h]
    <3>1. \A h \in Groups : host'[h] \in {"init", "ready", "failed"} => h # g /\ host'[h] = host[h]
      BY <1>1 DEF RegistryType
    <3>2. \A h \in Groups : host'[h] \in {"init", "ready", "failed"} => asked'[h] < gen'[h]
      BY <1>1, <2>0, <3>1 DEF HostInv
    <3>3. \A h \in doomed \ spoiled : comm[h] # 0 /\ asked[h] >= comm[h] /\ h \in Groups
      BY DEF HostInv, RegistryType
    <3>4. \A h \in doomed \ spoiled : asked'[h] >= comm[h] /\ comm[h] # 0
      BY <2>0, <2>1, <3>3
    <3> QED
      BY <1>1, <3>2, <3>4
  <2> QED
    BY <1>1, <2>1, <2>3, <2>4 DEF HostInv
<1>4. FlagInv'
  BY <1>1 DEF FlagInv
<1> QED
  BY <1>2, <1>3, <1>4

\* The background thread destroys what the host has asked for, when its flag is
\* clear and nobody looks.
LEMMA BgKeepsLife ==
    ASSUME LifeInv, BgStep \/ BgWriteLocks
    PROVE  RegistryType' /\ HostInv' /\ FlagInv'
<1> USE DEF LifeInv
<1>1. CASE BgScans
  <2>1. /\ doomed' = Doomed
        /\ UNCHANGED <<comm, used, open, gen, host, asked, pc, grp, mine, spoiled>>
    BY <1>1 DEF BgScans, BgRest, map, hostVars, kernelVars
  <2>2. \A g \in Doomed : g \in open /\ g \in Groups /\ asked[g] >= comm[g]
    BY DEF Doomed, RegistryType
  <2>3. HostInv'
    BY <2>1, <2>2 DEF HostInv
  <2> QED
    BY <2>1, <2>2, <2>3 DEF RegistryType, FlagInv
<1>2. CASE BgErases
  <2>1. PICK g \in doomed :
          /\ \/ UNCHANGED <<comm, open>>
             \/ g \notin used /\ comm' = [comm EXCEPT ![g] = 0] /\ open' = open \ {g}
          /\ doomed' = doomed \ {g}
          /\ UNCHANGED <<used, gen, host, asked, pc, grp, mine, spoiled>>
    BY <1>2 DEF BgErases, MayErase, BgRest, hostVars, kernelVars
  <2>2. g \in Groups /\ \A h \in Groups \ {g} : comm'[h] = comm[h]
    BY <2>1 DEF RegistryType
  <2>3. \A t \in Threads : pc[t] # "take"
    BY <1>2, LockIsAlone DEF BgErases, WriterIsAlone, BgWriting, Reading
  <2>4. ASSUME NEW t \in Threads, pc[t] \in {"use", "init"}, grp[t] \notin spoiled
        PROVE  comm'[grp[t]] = comm[grp[t]]
    <3>1. CASE pc[t] = "use"
      BY <2>1, <2>2, <2>4, <3>1 DEF RegistryType, FlagInv, Owning
    <3>2. CASE pc[t] = "init"
      <4>1. grp[t] \in Groups /\ comm[grp[t]] = gen[grp[t]] /\ asked[grp[t]] < gen[grp[t]]
        BY <2>4, <3>2 DEF RegistryType, FlagInv, HostInv, Acquiring
      <4>2. grp[t] # g
        BY <2>1, <2>4, <4>1 DEF RegistryType, HostInv
      <4> QED
        BY <2>2, <4>1, <4>2
    <3> QED
      BY <2>4, <3>1, <3>2
  <2>5. RegistryType'
    BY <2>1 DEF RegistryType
  <2>6. HostInv'
    BY <2>1, <2>2 DEF RegistryType, HostInv
  <2>7. FlagInv'
    BY <2>1, <2>3, <2>4 DEF FlagInv
  <2> QED
    BY <2>5, <2>6, <2>7
<1>3. CASE ~BgScans /\ ~BgErases
  <2>1. UNCHANGED <<comm, used, open, gen, host, asked, pc, grp, mine, doomed, spoiled>>
    BY <1>3 DEF BgStep, BgWriteLocks, BgReadLock, BgMarks, BgLooks, BgPrints, BgRest, map,
                hostVars, kernelVars
  <2> QED
    BY <2>1 DEF RegistryType, HostInv, FlagInv
<1> QED
  BY <1>1, <1>2, <1>3

LEMMA LifeKeeps == LifeInv /\ [Next]_vars => LifeInv'
<1> SUFFICES ASSUME LifeInv, [Next]_vars PROVE LifeInv'
  OBVIOUS
<1>1. LockInv'
  BY LockKeeps DEF LifeInv
<1>2. UNCHANGED vars => RegistryType' /\ HostInv' /\ FlagInv'
  BY DEF vars, map, hostVars, kernelVars, bgVars, LifeInv, RegistryType, HostInv, FlagInv
<1>3. Next => RegistryType' /\ HostInv' /\ FlagInv'
  BY Launches, KernelKeepsLife, HostKeepsLife, BgKeepsLife DEF Next
<1> QED
  BY <1>1, <1>2, <1>3 DEF LifeInv

\* A kernel never works with a communicator that is gone, of a group that no two
\* kernels were about to take at once and no Init has taken over: the background thread destroys
\* only what the host no longer uses and whose flag is clear.
THEOREM Alive == Spec => []UsedIsAlive
<1>1. LifeInv => UsedIsAlive
  BY DEF LifeInv, FlagInv, UsedIsAlive
<1> QED
  BY <1>1, LifeKeeps, LifeInit, PTL DEF Spec

UsedBy == [t \in Threads |-> IF pc[t] = "use" THEN grp[t] ELSE None]
Alives == {g \in Groups : comm[g] # 0}

LEMMA LifeStarts == Init => Life!Init
<1> SUFFICES ASSUME Init PROVE Life!Init
  OBVIOUS
<1>1. \A t \in Threads : pc[t] # "use"
  BY DEF Init
<1>2. Alives = {} /\ spoiled = {}
  BY DEF Init, Alives
<1> QED
  BY <1>1, <1>2 DEF Life!Init, Alives

\* A group is unused when its flag is clear, as long as it is not spoiled.
LEMMA ClearIsUnused ==
    ASSUME LifeInv, NEW g \in Groups, g \notin used, g \notin spoiled
    PROVE  \A u \in Threads : UsedBy[u] # g
BY CommRegistryAssumption DEF CommRegistryAssumption, LifeInv, FlagInv, Owning, UsedBy

LEMMA LifeSteps == LifeInv /\ [Next]_vars => [Life!Next]_(Life!vars)
<1> SUFFICES ASSUME LifeInv, [Next]_vars
             PROVE  Life!Next \/ UNCHANGED <<UsedBy, Alives, spoiled>>
  BY DEF Life!vars, UsedBy, Alives
<1> USE DEF LifeInv
<1>0. /\ pc \in [Threads -> Pcs] /\ None \notin Groups
      /\ \A t \in Threads : pc[t] = "use" => grp[t] \in Groups
  BY CommRegistryAssumption DEF LockInv, PcType, RegistryType, CommRegistryAssumption
<1>1. ASSUME UNCHANGED <<comm, grp, spoiled>>, NEW t \in Threads, NEW p \in Pcs, Goto(t, p),
             p # "use", pc[t] # "use"
      PROVE  UNCHANGED <<UsedBy, Alives, spoiled>>
  BY <1>0, <1>1 DEF UsedBy, Alives, Goto
<1>2. ASSUME NEW t \in Threads, NEW g \in Groups, LaunchInit(t, g) \/ LaunchOp(t, g)
      PROVE  UNCHANGED <<UsedBy, Alives, spoiled>>
  <2>1. PICK p \in {"mark", "get"} : Launch(t, g, p) /\ pc[t] = "idle"
    BY <1>2 DEF LaunchInit, LaunchOp, Launch
  <2>2. /\ UNCHANGED <<comm, spoiled>> /\ \A u \in Threads : pc'[u] = "use" <=> pc[u] = "use"
        /\ \A u \in Threads : pc[u] = "use" => grp'[u] = grp[u]
    BY <1>0, <2>1 DEF Launch, Goto, map, RegistryType
  <2> QED
    BY <2>2 DEF UsedBy, Alives
<1>3. ASSUME NEW t \in Threads, AcquireCreates(t)
      PROVE  /\ grp[t] \in Groups
             /\ \/ Life!Create(grp[t]) \/ Life!GiveUp(grp[t])
                \/ UNCHANGED <<UsedBy, Alives, spoiled>>
  <2>1. /\ pc[t] = "create" /\ Goto(t, "init") /\ UNCHANGED grp
        /\ grp[t] \in Groups /\ host[grp[t]] = "init" /\ gen[grp[t]] \in Nat
        /\ asked[grp[t]] \in Nat /\ asked[grp[t]] < gen[grp[t]]
    BY <1>3 DEF AcquireCreates, KernelRest, RegistryType, HostInv, Acquiring
  <2>2. UNCHANGED UsedBy
    BY <1>0, <2>1 DEF UsedBy, Goto
  <2>3. PICK n \in TakenOver(grp[t]) : comm' = [comm EXCEPT ![grp[t]] = n]
    BY <1>3 DEF AcquireCreates
  <2>4. n # 0
    BY <2>1, <2>3 DEF TakenOver
  <2>5. Alives' = Alives \cup {grp[t]}
    BY <2>1, <2>3, <2>4 DEF Alives, RegistryType
  <2>6. spoiled' = IF comm[grp[t]] \in {0, gen[grp[t]]} THEN spoiled
                   ELSE spoiled \cup {grp[t]}
    BY <1>3 DEF AcquireCreates
  <2>7. CASE comm[grp[t]] # 0
    <3>1. Alives' = Alives /\ grp[t] \in Alives
      BY <2>1, <2>5, <2>7 DEF Alives
    <3>2. spoiled' \in {spoiled, spoiled \cup {grp[t]}}
      BY <2>6
    <3>3. Life!GiveUp(grp[t]) \/ UNCHANGED <<UsedBy, Alives, spoiled>>
      BY <2>2, <3>1, <3>2, Zenon DEF Life!GiveUp, UsedBy, Alives
    <3> QED
      BY <2>1, <3>3
  <2>8. CASE comm[grp[t]] = 0
    <3>1. grp[t] \notin Alives /\ spoiled' = spoiled
      BY <2>6, <2>8 DEF Alives
    <3>2. Life!Create(grp[t])
      BY <2>2, <2>5, <3>1 DEF Life!Create, UsedBy, Alives
    <3> QED
      BY <2>1, <3>2
  <2> QED
    BY <2>7, <2>8
<1>4. ASSUME NEW t \in Threads, GetTakes(t)
      PROVE  \E g \in Groups : Life!Begin(t, g)
  <2>1. /\ pc[t] = "take" /\ Goto(t, "use") /\ UNCHANGED <<grp, comm, spoiled>>
        /\ grp[t] \in Groups /\ comm[grp[t]] # 0
    BY <1>4 DEF GetTakes, KernelRest, RegistryType, FlagInv
  <2>2. UsedBy' = [UsedBy EXCEPT ![t] = grp[t]]
    BY <1>0, <2>1 DEF UsedBy, Goto
  <2>3. grp[t] \notin spoiled => \A u \in Threads : UsedBy[u] # grp[t]
    BY <1>0, <2>1 DEF FlagInv, Holding, Owning, UsedBy
  <2>4. UsedBy[t] = None
    BY <2>1 DEF UsedBy
  <2>5. Alives' = Alives /\ grp[t] \in Alives
    BY <2>1 DEF Alives
  <2> QED
    BY <2>1, <2>2, <2>3, <2>4, <2>5
       DEF Life!Begin, Life!Unused, Life!Promised, UsedBy, Alives
<1>5. ASSUME NEW t \in Threads, UseEnds(t) \/ UseFails(t)
      PROVE  Life!End(t)
  <2>1. /\ pc[t] = "use" /\ UNCHANGED <<grp, comm, spoiled>>
        /\ \E p \in {"idle", "release"} : Goto(t, p)
    BY <1>5 DEF UseEnds, UseFails, KernelRest, map
  <2>2. UsedBy' = [UsedBy EXCEPT ![t] = None]
    BY <1>0, <2>1 DEF UsedBy, Goto
  <2>3. UsedBy[t] # None
    BY <1>0, <2>1 DEF UsedBy
  <2> QED
    BY <2>1, <2>2, <2>3 DEF Life!End, UsedBy
<1>5a. ASSUME NEW t \in Threads, GetFinds(t)
       PROVE  (\E g \in Groups : Life!GiveUp(g)) \/ UNCHANGED <<UsedBy, Alives, spoiled>>
  <2>1. /\ pc[t] = "look" /\ Goto(t, "take") /\ UNCHANGED <<grp, comm>>
        /\ grp[t] \in Groups /\ comm[grp[t]] # 0
        /\ spoiled' \in {spoiled, spoiled \cup {grp[t]}}
    BY <1>5a DEF GetFinds, KernelRest, map, RegistryType
  <2>2. UNCHANGED <<UsedBy, Alives>> /\ grp[t] \in Alives
    BY <1>0, <2>1 DEF UsedBy, Alives, Goto
  <2> QED
    BY <2>1, <2>2, Zenon DEF Life!GiveUp, UsedBy, Alives
<1>6. ASSUME NEW t \in Threads,
             KernelStep(t) \/ LockStep(t) \/ GetTimesOut(t) \/ UseFails(t),
             ~AcquireCreates(t), ~GetFinds(t), ~GetTakes(t), ~UseEnds(t), ~UseFails(t)
      PROVE  UNCHANGED <<UsedBy, Alives, spoiled>>
  <2>1. PICK p \in {"acquire", "create", "idle", "look", "get", "clear"} :
          Goto(t, p) /\ pc[t] # "use" /\ UNCHANGED <<comm, grp, spoiled>>
    BY <1>6 DEF KernelStep, LockStep, AcquireMarks, AcquireLocks, InitReturns, InitFails,
                InitEnds, GetLocks, GetMisses, GetPolls, GetTimesOut, GetFindsUsed,
                ReleaseLocks, Releases, KernelRest, map
  <2> QED
    BY <1>1, <2>1 DEF Pcs
<1>7. ASSUME NEW g \in Groups, DestroyComm(g) \/ DestroyReturns(g) \/ DestroyTimesOut(g)
      PROVE  UNCHANGED <<UsedBy, Alives, spoiled>>
  BY <1>7 DEF DestroyComm, DestroyReturns, DestroyTimesOut, DestroyEnds, map, kernelVars,
              UsedBy, Alives
<1>8. ASSUME BgErases
      PROVE  (\E g \in Groups : Life!Destroy(g)) \/ UNCHANGED <<UsedBy, Alives, spoiled>>
  <2>1. PICK g \in doomed :
          /\ comm' = comm \/ (MayErase(g) /\ comm' = [comm EXCEPT ![g] = 0])
          /\ UNCHANGED <<pc, grp, spoiled>>
    BY <1>8 DEF BgErases, BgRest, kernelVars
  <2>2. UNCHANGED UsedBy /\ g \in Groups
    BY <2>1 DEF UsedBy, RegistryType
  <2>3. CASE comm' = comm
    BY <2>1, <2>2, <2>3 DEF Alives
  <2>4. CASE MayErase(g) /\ comm' = [comm EXCEPT ![g] = 0]
    <3>1. g \notin spoiled => \A u \in Threads : UsedBy[u] # g
      BY <2>2, <2>4, ClearIsUnused DEF MayErase
    <3>2. Alives' = Alives \ {g} /\ g \in Alives
      BY <2>2, <2>4 DEF Alives, MayErase, RegistryType
    <3> QED
      BY <2>1, <2>2, <3>1, <3>2 DEF Life!Destroy, Life!Unused, Life!Promised, UsedBy, Alives
  <2> QED
    BY <2>1, <2>3, <2>4
<1>9. ASSUME BgStep \/ BgWriteLocks, ~BgErases
      PROVE  UNCHANGED <<UsedBy, Alives, spoiled>>
  <2>1. UNCHANGED <<comm, pc, grp, spoiled>>
    BY <1>9 DEF BgStep, BgWriteLocks, BgReadLock, BgScans, BgMarks, BgLooks, BgPrints, BgRest,
                map, kernelVars
  <2> QED
    BY <2>1 DEF UsedBy, Alives
<1>10. CASE UNCHANGED vars
  BY <1>10 DEF vars, map, kernelVars, UsedBy, Alives
<1>11. ASSUME NEW t \in Threads,
              KernelStep(t) \/ LockStep(t) \/ GetTimesOut(t) \/ UseFails(t)
       PROVE  Life!Next \/ UNCHANGED <<UsedBy, Alives, spoiled>>
  <2>1. CASE AcquireCreates(t)
    <3>1. CASE Life!Create(grp[t])
      <4>1. \E g \in Groups : Life!Create(g)
        BY <2>1, <1>3, <3>1 DEF Life!Create
      <4> QED
        BY <4>1 DEF Life!Next
    <3>2. CASE Life!GiveUp(grp[t])
      <4>1. \E g \in Groups : Life!GiveUp(g)
        BY <2>1, <1>3, <3>2
      <4> QED
        BY <4>1 DEF Life!Next
    <3> QED
      BY <2>1, <1>3, <3>1, <3>2
  <2>2. CASE GetTakes(t)
    BY <2>2, <1>4 DEF Life!Next
  <2>3. CASE UseEnds(t) \/ UseFails(t)
    BY <2>3, <1>5 DEF Life!Next
  <2>4. CASE GetFinds(t)
    BY <2>4, <1>5a DEF Life!Next
  <2> QED
    BY <1>11, <1>6, <2>1, <2>2, <2>3, <2>4
<1>12. CASE BgStep \/ BgWriteLocks
  BY <1>12, <1>8, <1>9 DEF Life!Next
<1> QED
  BY <1>2, <1>7, <1>10, <1>11, <1>12 DEF Next

\* The registry implements CommLife: until a group is spoiled, its communicator is
\* used by one kernel at a time and destroyed only while nobody uses it.
THEOREM Lives == Spec => LifeSpec
BY LifeKeeps, LifeSteps, LifeInit, LifeStarts, PTL DEF Spec, LifeSpec, Life!Spec
=============================================================================
