---------------------------- MODULE CommRegistry ----------------------------
(***************************************************************************)
(* The communicators of the device (g_commAicpuInfo): kernels of the operator  *)
(* threads create and use them, the background thread destroys them at the       *)
(* host's command and walks over them in every pass, all under one                *)
(* read-write lock.                                                               *)
(***************************************************************************)
EXTENDS RwLock, FiniteSets

CONSTANTS
    Threads,    \* operator threads
    Groups, None,
    MaxGens,    \* bound: communicators the host creates per group, one after another
    MaxKernels, \* bound: kernels a thread runs
    Faults      \* an Init, or a read of the suspending flag, may fail

ASSUME CommRegistryAssumption ==
    /\ IsFiniteSet(Threads) /\ None \notin Groups
    /\ MaxGens \in Nat /\ MaxKernels \in Nat
    /\ Faults \in BOOLEAN

VARIABLES
    comm,       \* commMap: the generation of the communicator of a group, or 0
    used,       \* commMap: the groups whose flag is set
    open,       \* the groups whose communicator is open (commOpenStatus)
    gen, host,  \* the host: its communicator of a group, and what it does with it
    asked,      \* kDestroyComm has been sent to these generations
    answered,   \* the generation for which the device has answered kDestroyComm
    pc, grp, mine,  \* a kernel: where it is, its group, the pointer it works with
    kernels,    \* how many kernels a thread has begun
    bpc, doomed,    \* the background thread, and destroyGroupName
    timedOut,   \* communicators whose stream timeout has been printed
    spoiled     \* history: the groups whose communicator two kernels were about to
                \* take at once, or an Init took over from an earlier one of the host

map == <<comm, used, open>>
hostVars == <<gen, host, asked>>
kernelVars == <<pc, grp, mine, kernels>>
bgVars == <<bpc, doomed, timedOut, answered>>
vars == <<word, map, hostVars, kernelVars, bgVars, spoiled>>

Init ==
    /\ InitLock
    /\ comm = [g \in Groups |-> 0] /\ used = {} /\ open = {}
    /\ gen = [g \in Groups |-> 0] /\ host = [g \in Groups |-> "none"]
    /\ asked = [g \in Groups |-> 0] /\ answered = [g \in Groups |-> 0]
    /\ pc = [t \in Threads |-> "idle"] /\ grp = [t \in Threads |-> None]
    /\ mine = [t \in Threads |-> 0] /\ kernels = [t \in Threads |-> 0]
    /\ bpc = "destroy" /\ doomed = {} /\ timedOut = {}
    /\ spoiled = {}

----------------------------------------------------------------------------
(* A kernel.  Goto(t, p) moves it on.                                        *)
Goto(t, p) == pc' = [pc EXCEPT ![t] = p]
KernelRest == <<grp, kernels, hostVars, bgVars>>

Launch(t, g, p) ==
    /\ pc[t] = "idle" /\ kernels[t] < MaxKernels
    /\ kernels' = [kernels EXCEPT ![t] = @ + 1]
    /\ grp' = [grp EXCEPT ![t] = g]
    /\ Goto(t, p)
    /\ UNCHANGED <<word, map, mine, asked, bgVars, spoiled>>

\* The host creates a communicator and has the device initialize it, or has one
\* it has already prepared once more.
LaunchInit(t, g) ==
    /\ \/ /\ host[g] = "none" /\ gen[g] < MaxGens
          /\ gen' = [gen EXCEPT ![g] = @ + 1]
       \/ host[g] \in {"ready", "failed"} /\ UNCHANGED gen
    /\ host' = [host EXCEPT ![g] = "init"]
    /\ Launch(t, g, "mark")

LaunchOp(t, g) ==
    /\ host[g] = "ready"
    /\ Launch(t, g, "get")
    /\ UNCHANGED <<gen, host>>

\* AcquireAicpuComm
AcquireMarks(t) ==
    /\ pc[t] = "mark" /\ MarkWaiting
    /\ Goto(t, "acquire")
    /\ UNCHANGED <<KernelRest, spoiled, map, mine>>

AcquireLocks(t) ==
    /\ pc[t] = "acquire" /\ WriteLock
    /\ Goto(t, "create")
    /\ UNCHANGED <<KernelRest, spoiled, map, mine>>

\* The communicator of the group is taken as it is, with the channel it has (one
\* whose Init failed may have none yet, and gets the host's), or made.
TakenOver(g) == IF comm[g] = 0 THEN {gen[g]}
                ELSE IF g \in open THEN {comm[g]} ELSE {comm[g], gen[g]}

AcquireCreates(t) ==
    /\ pc[t] = "create"
    /\ LET g == grp[t] IN
       /\ \E n \in TakenOver(g) : /\ comm' = [comm EXCEPT ![g] = n]
                                  /\ mine' = [mine EXCEPT ![t] = n]
       /\ spoiled' = IF comm[g] \in {0, gen[g]} THEN spoiled ELSE spoiled \cup {g}
    /\ WriteUnlock
    /\ Goto(t, "init")
    /\ UNCHANGED <<KernelRest, used, open>>

\* HcclCommAicpu::Init: from now on the background thread looks at it.  The host
\* has waited for the kernel.
InitEnds(t, result) ==
    /\ pc[t] = "init"
    /\ host' = [host EXCEPT ![grp[t]] = result]
    /\ Goto(t, "idle")
    /\ UNCHANGED <<word, comm, used, mine, grp, kernels, gen, asked, bgVars, spoiled>>

InitReturns(t) == InitEnds(t, "ready") /\ open' = open \cup {grp[t]}

\* The kernel returns the error; the communicator stays in the map as it is.  One
\* that is initialized already is not initialized again.
InitFails(t) ==
    /\ Faults /\ grp[t] \notin open
    /\ InitEnds(t, "failed") /\ UNCHANGED open

\* AicpuGetCommbyGroup
GetLocks(t) ==
    /\ pc[t] = "get" /\ ReadLock
    /\ Goto(t, "look")
    /\ UNCHANGED <<KernelRest, spoiled, map, mine>>

\* A mutant of MissUnlocks: the lock is kept on the way out.
MissKeeps == UNCHANGED word
MissUnlocks == ReadUnlock

GetMisses(t) ==
    /\ pc[t] = "look" /\ comm[grp[t]] = 0
    /\ MissUnlocks
    /\ Goto(t, "idle")
    /\ UNCHANGED <<KernelRest, spoiled, map, mine>>

\* A mutant of InUse: the flag is not looked at.
NeverUsed(t) == FALSE
InUse(t) == grp[t] \in used

\* It polls the flag for ten milliseconds.
GetFindsUsed(t, next) ==
    /\ pc[t] = "look" /\ comm[grp[t]] # 0 /\ InUse(t)
    /\ ReadUnlock
    /\ Goto(t, next)
    /\ UNCHANGED <<KernelRest, spoiled, map, mine>>

GetPolls(t) == GetFindsUsed(t, "get")
GetTimesOut(t) == GetFindsUsed(t, "idle")

\* The lock keeps no other reader out: a kernel may have found the flag clear before
\* and be about to set it.
AboutToTake(g) == \E u \in Threads : pc[u] = "take" /\ grp[u] = g

GetFinds(t) ==
    /\ pc[t] = "look" /\ comm[grp[t]] # 0 /\ ~InUse(t)
    /\ mine' = [mine EXCEPT ![t] = comm[grp[t]]]
    /\ spoiled' = IF AboutToTake(grp[t]) THEN spoiled \cup {grp[t]} ELSE spoiled
    /\ Goto(t, "take")
    /\ UNCHANGED <<word, KernelRest, map>>

GetTakes(t) ==
    /\ pc[t] = "take"
    /\ used' = used \cup {grp[t]}
    /\ ReadUnlock
    /\ Goto(t, "use")
    /\ UNCHANGED <<KernelRest, spoiled, comm, open, mine>>

\* AicpuRunRpcServerV2 is done.
UseEnds(t) ==
    /\ pc[t] = "use"
    /\ Goto(t, "release")
    /\ UNCHANGED <<word, KernelRest, spoiled, map, mine>>

\* GetSuspendingFlag fails: the kernel returns and releases nothing.
UseFails(t) ==
    /\ Faults /\ pc[t] = "use"
    /\ Goto(t, "idle")
    /\ UNCHANGED <<word, KernelRest, spoiled, map, mine>>

\* AicpuReleaseCommbyGroup
ReleaseLocks(t) ==
    /\ pc[t] = "release" /\ ReadLock
    /\ Goto(t, "clear")
    /\ UNCHANGED <<KernelRest, spoiled, map, mine>>

Releases(t) ==
    /\ pc[t] = "clear"
    /\ used' = used \ {grp[t]}
    /\ ReadUnlock
    /\ Goto(t, "idle")
    /\ UNCHANGED <<KernelRest, spoiled, comm, open, mine>>

KernelStep(t) ==
    \/ AcquireMarks(t) \/ AcquireCreates(t) \/ InitReturns(t) \/ InitFails(t)
    \/ GetMisses(t) \/ GetPolls(t) \/ GetFinds(t) \/ GetTakes(t)
    \/ UseEnds(t) \/ Releases(t)

LockStep(t) == AcquireLocks(t) \/ GetLocks(t) \/ ReleaseLocks(t)

----------------------------------------------------------------------------
(* The host destroys its communicator.                                       *)
DestroyComm(g) ==
    /\ host[g] \in {"ready", "failed"}
    /\ host' = [host EXCEPT ![g] = "destroying"]
    /\ asked' = [asked EXCEPT ![g] = gen[g]]
    /\ UNCHANGED <<word, map, gen, kernelVars, bgVars, spoiled>>

DestroyEnds(g) ==
    /\ host[g] = "destroying"
    /\ host' = [host EXCEPT ![g] = "none"]
    /\ UNCHANGED <<word, map, gen, asked, kernelVars, bgVars, spoiled>>

\* The answer says nothing of the communicator itself, and its time is limited.
DestroyReturns(g) == answered[g] = gen[g] /\ DestroyEnds(g)
DestroyTimesOut(g) == answered[g] # gen[g] /\ DestroyEnds(g)

----------------------------------------------------------------------------
(* The background thread: HandleDestroyComm, then HandleCqeStatus; the other   *)
(* walks of a pass hold the lock as the second does and change nothing here.    *)
BgGoto(p) == bpc' = p
BgRest == <<hostVars, kernelVars, spoiled>>

BgReadLock(from, to) ==
    /\ bpc = from /\ ReadLock
    /\ BgGoto(to)
    /\ UNCHANGED <<BgRest, map, doomed, timedOut, answered>>

\* The channel of a communicator is that of the host's communicator it was made
\* for.  A mutant of Doomed: a command is served once.
NewlyAsked == {g \in open : asked[g] >= comm[g] /\ answered[g] < comm[g]}
Doomed == {g \in open : asked[g] >= comm[g]}

\* The answer is given before the communicator, and with it the channel, goes.
BgScans ==
    /\ bpc = "scan"
    /\ doomed' = Doomed
    /\ answered' = [g \in Groups |-> IF g \in Doomed THEN comm[g] ELSE answered[g]]
    /\ ReadUnlock
    /\ BgGoto(IF Doomed = {} THEN "cqe" ELSE "mark")
    /\ UNCHANGED <<BgRest, map, timedOut>>

BgMarks ==
    /\ bpc = "mark" /\ MarkWaiting
    /\ BgGoto("erase")
    /\ UNCHANGED <<BgRest, map, doomed, timedOut, answered>>

BgWriteLocks ==
    /\ bpc = "erase" /\ WriteLock
    /\ BgGoto("erasing")
    /\ UNCHANGED <<BgRest, map, doomed, timedOut, answered>>

\* AicpuDestoryCommbyGroup.  A mutant of MayErase: whether it is used.
Exists(g) == comm[g] # 0
MayErase(g) == comm[g] # 0 /\ g \notin used

BgErases ==
    /\ bpc = "erasing"
    /\ \E g \in doomed :
        /\ IF MayErase(g)
           THEN /\ comm' = [comm EXCEPT ![g] = 0]
                /\ open' = open \ {g} /\ timedOut' = timedOut \ {g}
           ELSE UNCHANGED <<comm, open, timedOut>>
        /\ doomed' = doomed \ {g}
        /\ BgGoto(IF doomed = {g} THEN "cqe" ELSE "mark")
    /\ WriteUnlock
    /\ UNCHANGED <<BgRest, used, answered>>

\* HandleCqeStatusInComm.  A communicator one of whose streams has timed out
\* prints all communicators (PrintTaskExceptionAllComm), which takes the lock
\* once more.
BgLooks ==
    /\ bpc = "cqes"
    /\ \/ /\ ReadUnlock /\ BgGoto("destroy") /\ UNCHANGED timedOut
       \/ /\ \E g \in Groups \ timedOut :
              g \in open /\ timedOut' = timedOut \cup {g}
          /\ BgGoto("print") /\ UNCHANGED word
    /\ UNCHANGED <<BgRest, map, doomed, answered>>

BgPrints ==
    /\ bpc = "printing"
    /\ ReadUnlock
    /\ BgGoto("cqes")
    /\ UNCHANGED <<BgRest, map, doomed, timedOut, answered>>

BgStep ==
    \/ BgReadLock("destroy", "scan") \/ BgReadLock("cqe", "cqes")
    \/ BgReadLock("print", "printing")
    \/ BgScans \/ BgMarks \/ BgErases \/ BgLooks \/ BgPrints

----------------------------------------------------------------------------
Next ==
    \/ \E t \in Threads :
        \/ \E g \in Groups : LaunchInit(t, g) \/ LaunchOp(t, g)
        \/ KernelStep(t) \/ LockStep(t) \/ GetTimesOut(t) \/ UseFails(t)
    \/ \E g \in Groups : DestroyComm(g) \/ DestroyReturns(g) \/ DestroyTimesOut(g)
    \/ BgStep \/ BgWriteLocks

Spec == Init /\ [][Next]_vars

\* A spinning thread gets its turn: the background thread sleeps ten milliseconds
\* after a pass.  A poll of ten milliseconds comes to its end.
FairSpec ==
    /\ Spec
    /\ \A t \in Threads :
        WF_vars(KernelStep(t)) /\ SF_vars(LockStep(t)) /\ SF_vars(GetTimesOut(t))
    /\ WF_vars(BgStep) /\ SF_vars(BgWriteLocks)

----------------------------------------------------------------------------
\* Who is inside the lock.
Reading == {t \in Threads : pc[t] \in {"look", "take", "clear"}}
Writing == {t \in Threads : pc[t] = "create"}
BgReading == bpc \in {"scan", "cqes", "print", "printing"}
BgWriting == bpc = "erasing"

\* Whoever changes the map is alone with it (ReadWriteLockBase): no other thread
\* looks a communicator up, walks over them or changes the map.
WriterIsAlone ==
    /\ \A t \in Writing : Reading = {} /\ Writing = {t} /\ ~BgReading /\ ~BgWriting
    /\ BgWriting => Reading = {}

\* The pointer a kernel works with is that of a communicator that still exists,
\* as long as no two kernels were about to take it at once (the flag is checked and
\* set under a read lock, AicpuGetCommbyGroup), and no Init has taken it over from an
\* earlier communicator of the host (kDestroyComm is answered before it goes).
UsedIsAlive == \A t \in Threads :
    pc[t] \in {"init", "use"} /\ grp[t] \notin spoiled => comm[grp[t]] = mine[t]

\* The registry keeps what a communicator's life promises: one kernel at a time,
\* and no destruction under it (AicpuGetCommbyGroup, AicpuDestoryCommbyGroup),
\* for each group until one of these two things happens.
Life == INSTANCE CommLife WITH
    alive <- {g \in Groups : comm[g] # 0},
    using <- [t \in Threads |-> IF pc[t] = "use" THEN grp[t] ELSE None],
    spoiled <- spoiled
LifeSpec == Life!Spec

Printing == bpc \in {"print", "printing"}
Leaked == \E g \in Groups :
    g \in used /\ \A t \in Threads : pc[t] \in {"use", "release", "clear"} => grp[t] # g

\* A kernel returns, whatever the others do, as long as the background thread does
\* not take the lock a second time (ReadWriteLockBase, AicpuGetCommbyGroup).
KernelsReturn ==
    [](~Printing) => \A t \in Threads : pc[t] # "idle" ~> pc[t] = "idle"

\* AicpuGetCommbyGroup waits ten milliseconds for a communicator ("pollTimeoutMs").
PollEnds == \A t \in Threads : pc[t] = "get" ~> pc[t] \notin {"get", "look"}

\* A communicator the host has destroyed goes, even when a kernel still used it
\* when the command came, unless a kernel has left its flag behind.
DestroyedGoes ==
    [](~Printing /\ ~Leaked) =>
        \A g \in Groups : g \in Doomed ~> comm[g] = 0
=============================================================================
