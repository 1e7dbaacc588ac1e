# TLA+ verification of the device side of asc-comm

asc-comm lets an AI-core program (an Ascend C operator) start collective
communication from inside its kernel.  The AI core writes task messages into a
workspace in global memory; a server kernel on the AICPU reads them and turns
them into entries of hardware streams; the streams run the collective and write
progress counters back, which the AI core polls.  No lock protects any of this:
every hand-over is a valid mask, a counter or a sequence number.  Around this
channel, the AICPU keeps communicators that several threads create, use and destroy,
and that the host suspends and recovers by commands it leaves in shared memory.

The channel is the core of the repository and what this directory models in most detail;
then the two protocols between host and device (a lock and a register in
shared memory), the registry of communicators, and the recovery.

All paths below are relative to the root of the repository.  `PROJECT.json` has
the same facts for tools: it lists the source lines every definition stands for.

Contents: [1 The system](#1-the-system) · [2 Modules and plan](#2-modules-and-plan) ·
[3 From code to model](#3-from-code-to-model) · [4 Properties and runs](#4-properties-and-runs) ·
[5 Fairness](#5-fairness) · [6 Proofs](#6-proofs) ·
[7 Disagreements found](#7-disagreements-found) · [8 Not modelled](#8-not-modelled)

## 1 The system

Abbreviations: *device* is `src/collective_comm/device`, *aicpu* is
`src/aicore/mc2/src/aicpu_kfc`, *kfc* is *aicpu*`/framework/device/aicpu_kfc`.

| component | where | state it keeps | operations |
|---|---|---|---|
| message area | `include/collective_comm/device/hccl_msg.h` | per group: 64 message slots, 64 AlltoAllV extension slots, `commitTurnCnt` and `finishedTurnCnt` per slot | read and written by the three below |
| AI-core client | *device*`/common/hccl_aicpu_impl.h`, `hccl_aicpu_common.h`, *device*`/impl/platform_v220`, `platform_v310` | `curHandleId_`, `curMsgPosition_`, the `handleId...` tables, the static `primitiveId` | Prepare (`CommonPrepareImpl`), `InterHcclGroupSync`, `Commit`, `Wait`, `Query`, `Finalize<sync>` |
| decoupled dispatcher | *kfc*`/decoupler/comm_kfc_dispatcher.cc` | `AscCommServerInfo` per group (message, position, retry count, flags), `expectSeqNum_` | `Run`: round robin of `GroupServerProcess` over the groups |
| decoupled group server | *kfc*`/decoupler/comm_kfc_aicpu_server.cc` | `handleIdToMsgPos_`, `handleIdToRepeat_`, `timeout_`, `syncExecCtx_` | `Orchestrate`, `InterGroupSync`, `IsAllTaskFinished`, `CheckTimeOut`, `Finalize` |
| streams | *kfc*`/legacy/.../sqe_build_a5.cc` for the condition tasks; the rest is hardware | queue of entries per group | wait for a count, run the collective, post a count |
| batch write plane | *kfc*`/framework/aicpu_kfc_batchwrite_process.cc` | `g_sharedCtx`, a ring of 4 messages | a master and slaves that share the items of one message |
| host-device lock | *aicpu*`/platform/common/peterson_lock.cc` | three words of device memory | `Lock`, `Unlock` on both sides |
| host-device channel | *aicpu*`/platform/resource/mem/hdc.cc` | a content between two counters, a cache at the receiver | `Put`, `Get` |
| registry of communicators | *aicpu*`/framework/device/framework/aicpu_hccl_process.cc`, `read_write_lock_base.cc` | `g_commAicpuInfo` with a flag per communicator, a read-write lock | acquire, get, release, destroy; passes of the background thread |
| N-second recovery | *aicpu*`/framework/device/framework/aicpu_communicator.cc`, `executor_tracer.cc`, the host's `hccl_communicator.cc` | commands and status in two channels; flags shared by operator and background thread | Suspend, StopExec, Clean, Resume; the states of an operator; the background loop |
| operator retry | same files, `host/.../opretry` agents elsewhere | states of an operator from STOPPING to RETRY | agree over all ranks what to run again |
| RPC server V2 and its process loop | *kfc*`/framework/aicpu_kfc_rpc_serverv2.cc`, `aicpu_kfc_process.cc` | expected prepare number, positions of handles, flags per group, barrier counts | the coupled server of the same message areas: `RunRpcServerInnerProcessV2`; several queues, barriers, restart |
| RPC server V1 | *kfc*`/framework/aicpu_kfc_rpc_server.cc` | turns per queue | its predecessor |
| restart state machine | *kfc*`/framework/aicpu_kfc_retry_process.cc`, *device*`/common/hccl_control.h` | restart state per group | agree on a restart after a link failure and begin again |
| CCU clients, direct drive, host tiling, HCCL host library | see `PROJECT.json` | | hardware counterparts or straight-line code |

How the channel works: the client writes a message at `curMsgPosition_` once the
slot is free and goes to the next position.  The dispatcher copies the message of
a group at `msgPos`, invalidates the slot, and, if the message is a task whose
sequence number is the expected one, has the group server append for each turn
*wait for commitTurnCnt, run the kernel, post finishedTurnCnt* to the stream.  A
task that comes too early (a task of another group was prepared before it) or a
sync on a task not yet known stays with the group and is retried in later rounds.
`Commit` raises `commitTurnCnt`; the last wait of the task clears it.  `Wait`
polls `finishedTurnCnt`.  FINALIZE makes the server write a marker into
`finishedTurnCnt` at its own position and, when all groups are done, return;
`Finalize<true>` polls for the last task and then for the marker and clears the
finish counts.  The area is kept for the next launch of the operator, with new client
objects and a new server.

The RPC server V2 reads the same area for the same client and writes the same counters, but it is
another program: it stays with a group as long as there are messages; it gives a slot back first
and, for a message it cannot process yet, reads the slot again later; it keeps one expected number in
its thread, which FINALIZE of any group sets to 0; it looks at the group's queue before it writes the
marker; and it clears the counts of commits behind the last task, not with each task.

How the rest works: a kernel of an operator thread looks its communicator up under the
registry's read lock, sets the communicator's flag, works without a lock and clears the flag;
the background thread walks over all communicators every ten milliseconds, looks for
commands of the host in each one's channel, and destroys those the host has given up and no
kernel uses.  The host's recovery calls leave a command in the channel
(`kfcControlTransferH2D_`) and poll the status the device leaves in the other
(`kfcStatusTransferD2H_`); whether the operator thread or the background thread answers
depends on flags the two share without a lock.

What is hard here: asynchronous parties on shared memory without locks; a sequence number
shared by groups that are served in turn; counters that change hands between
launches; retries with a limit; cumulative timeouts; an order between an
extension and its message; one group failing while others run; threads that
share a ring and counts; a read lock that threads change things under, or take twice; a cache
whose validity is two counters; commands, flags and statuses that overtake one another.
`PROJECT.json` lists 40 places where
this bites ("hazards") with the properties that guard each, or the reason why none does.
Section 8 names further ones that no model here reaches.

What makes each part correct:

* *channel*: the server takes the tasks of all groups over in the order of the
  Prepare calls (ranks must agree on it); a turn runs only after its commit, after
  the earlier tasks of its group and the tasks the group was told to wait for;
  Wait never returns before the turn has run; the server serves until the work
  is done and then returns; the area is clean for the next launch.
* *batch write*: a message is reported finished only when all its items are
  posted, each once; a message completes; slaves return.
* *lock*: exclusion whatever copies fail; a waiting side is overtaken once at most.
* *host-device channel*: a register whose Put and Get are atomic, until a fault.
* *registry*: who changes the map is alone; a communicator in use is not destroyed and has one
  user; one the host has destroyed goes.
* *recovery*: after the answer to Suspend no operator runs until Resume; streams are
  killed, then cleaned, before the host is told so; every call is answered.
* *RPC server V2*: the promises of the channel, to an author who finalizes a group only after he has
  waited for the tasks of the others.
* *barriers and restart (planned)*: no queue passes a barrier alone; a restart
  runs every task from the first exactly once.

## 2 Modules and plan

| module | models | state, actions |
|---|---|---|
| `KfcTasks` | the promise of `hccl.h`, the abstract specification of the channel | one sequence of tasks; Issue, Launch, Commit, Execute, Observe |
| `KfcArea` | constants, all variables of the channel, messages, stream entries | no action |
| `KfcPromises` | what the client may rely on, over the state it shares with either server: the properties of the channel | no action |
| `HcclClient` | the AI core: one thread that calls the objects of all groups | one action to enter a call, one for each access to the area |
| `KfcDispatcher` | dispatcher and group server | one action per outcome of a visit |
| `SqStream` | streams and condition tasks | one action per entry type |
| `KfcChannel` | their composition over one or more launches; the type invariant | |
| `RpcServerV2`, `KfcChannelV2` | the loop of the RPC server V2; its composition with the same client and streams | one action per outcome of an iteration of `RunRpcServerLoopProcess` |
| `KfcChannelProofs`, `KfcFinishProofs` | theorems about `KfcChannel`: its types, and the promises of `KfcPromises` it keeps about messages and commits; those about finished turns and the end of a launch, the server that outlives its work, and the refinement of `KfcTasks` | |
| `KfcV2Proofs` | the theorems about `KfcChannelV2`: nothing is left of a launch; no turn runs before its Commit | |
| `BatchWrite`, `BatchWriteProofs` | the batch write threads, a system of its own; its theorems | one action per access to shared memory |
| `PetersonLock`, `PetersonProofs` | the lock between host and device; its theorems | one action per access to a word |
| `Register`, `Hdc`, `HdcProofs` | abstract register; the host-device channel; its theorems | one action per word of the content and per counter |
| `RwLock` | the read-write lock, one word | one action per successful compare-and-swap |
| `CommLife`, `CommRegistry`, `CommRegistryProofs` | what a communicator's life promises; the registry over `RwLock`; the theorem about the lock, and those about the life | one action per critical section or change of a flag |
| `Recovery`, `NsRecovery`, `NsRecoveryProofs` | what a recovery promises; host, operator thread and background thread of one communicator; the theorems | one action per access to a command, status or flag |

`NsRecovery` takes the two channels it uses as atomic registers: that is what `Hdc`
refines (`Register`), for one receiver and until a fault.  `CommRegistry` extends `RwLock`.

The plan was to do the channel first because every operator uses it, then the
host-device protocols every communicator rests on, then the registry and the recovery.
What remains, in order:

1. The restart of `RpcServerV2`: the client's `resetSeq` and the restart
   state machine (`RestartProcessConsulation`, `AicpuKfcRetryProcess`,
   `hccl_control.h`): the first-message reset, the agreement of
   the groups, every task executed after a restart as if there had been none.
2. The device states of the operator retry (STOPPING to RETRY), joined to `NsRecovery`.  The
   host's agents and their server are not in the repository: they would be nondeterministic.
3. `QueueBarrier`: multi-queue sends, `BarrierProcess` and `ThreadBarrier`, refined to
   an abstract barrier; `GetLocalQueueRange` as a function checked against a
   partition.
4. `MsgSlot`: a message slot in several words with valid mask and xor, refined to the
   atomic slot that `KfcArea` assumes.
5. Proofs: `CarefulApi` of `KfcChannelV2`, on the two invariants of `KfcV2Proofs`.

## 3 From code to model

**Steps.**  A client call is split at each access to the area; at a spin loop the
step is enabled when the loop would end.  A visit of the dispatcher to a group is
one action: it touches one position of one group, and reads the slot once.
A stream entry is one action, since the device executes a stream in order.  So every
interleaving of the three parties at the level of slots and counters is explored.
The other systems are split in the same way, at every access to memory that two threads or
the two sides share.

**Client.**  `pc` is where the call is, `call` its arguments.  `Prepare` takes the
handle (`curHandleId_` is incremented before the assertion can refuse,
`PrepareRefused`), `SendExt` and `SendPrepare` write extension and message, `CommitWrite`
is the loop of `SetCommitTurnCntToGm`, `WaitReturn` that of `WaitFinishCntFromGm`,
`FinalizeQueried`, `SendFinalize`, `FinalizeDone` are the parts of `Finalize`.
`handles` joins the `handleId...` tables.  The model is the build with
`ASCENDC_HCCL_API_ASSERT`.  `NextLaunch` replaces the objects and keeps `primitiveId`, a
static that FINALIZE has set to 0.

**Callers.**  `MaySend`, `MayWait` and `MayFinalize` state what a correct caller
does: one slot kept for FINALIZE; Commit and Wait as `hccl.h` says; nobody waits
for, or finalizes, what he has not committed; no sync as the last message of a
group.  Three constants relax or add a rule: `FinalizeLast` (no Prepare once a group
is finalized), `DependentsFirst` (a group is finalized after those that wait for
it), `ExcessPrepare` (a refused Prepare may happen).

**Server.**  `Serve` is the common part of a visit with a message: not finalized,
something to read, retry limit not passed, the slot given back.  Its outcomes
are `PrepareProcess`, `PrepareRetry`, `InterGroupSyncProcess`,
`InterGroupSyncRetry`, `FinalizeProcess`; visits without one are `Finished`, `InTime`,
`TimedOut`, `RetryExceeded`, `GroupFinish`, and `NoOpHandle` on a LEGACY resource.
`RestartServer` is the next operator's server; it may start before the client's next
launch or after it.  On a NEXT_AICPU resource `IsAllTaskFinished` succeeds without
looking at the stream, and so does `GroupFinish`.
`Synced` are the groups whose server keeps its context: `CreateServerList` copies the servers when its list grows, and
`syncExecCtx_` of a copy points into the list of the original, which is gone.  The block that is freed has the size of the
next server's list and is handed out again, so that a stale `syncExecCtx_` holds the context it did or that
of another group: the wait goes to any stream (`SyncStreams`).  That it holds neither, and the server crashes, is not modelled.

**RPC server V2.**  Its variables are those of the other server, by their role; `RpcServerV2` says
which is which.  `SlotNow` and `Readable` are `ReadValidMsg`: a message that is processed again is
whatever the slot holds by then.  `Proceed` and `ProcessAgain` are the two ways through the loop: stay
with the group, or come back to it.  `buffered` holds the wait of an InterHcclGroupSync, which is in the
stream's buffer until the next task of the group, or its FINALIZE, is launched; the queue behind the
buffer does not run full.  `careful` is chosen at the start of a behaviour and never changes: a careful author
calls `Finalize<true>`, after Wait for the tasks of the other groups, names no finalized group
in InterHcclGroupSync (`CarefulCall`), and his launches stay below KERNEL_TIMEOUT.  `CarelessCall` bounds what
is explored of another author.

**Streams.**  The condition tasks load and store 16 bits of a 64-bit counter, and
`LoadHalf` and `StoreHalf` do so too.  A group's communicator is taken to have one main
stream.  `RunKernel` is the collective: hardware and algorithm libraries outside
this channel (external in the map), as is the in-order execution.

**History.**  `tasks` records for each Prepare its group, repeat, dependencies and
what was launched, committed, executed and observed; messages and entries carry
a `task` index.  Nothing in the program reads either.

**Platforms.**  `hccl_impl.h:16-23` pairs arch 2201 with the client of `platform_v220` and
arch 3510 with that of `platform_v310`, whose InterHcclGroupSync is an empty stub. The
server takes the NEXT_AICPU branch on device 950 and the LEGACY one elsewhere.
At this commit no product joins a client that sends sync messages with a server
that processes them in the decoupled plane, so the runs with sync check the protocol the two halves
implement together, not one product.

**BatchWrite.**  Every access to `g_sharedCtx` and to the ring is a step, and Peek is
five (head, tail, two halves of the copy, head again).  Reads are sequentially
consistent; the code's plain volatile counters ask for more than the hardware's
memory model gives, and that is not modelled.  Item lists are not overwritten while a launch
lasts: a slave without items in a message may read its list after the master has
reported it finished, so callers may not reuse a list earlier.

**PetersonLock.**  `pc` says which word a call of `Lock` touches next.  The host's
accesses are copies that may fail, before or after they took effect; `CHK_RET` then leaves the call where it is.
The device loads and stores directly; a fence (`MemFence`) follows each store and none separates its two loads, so it
does these in either order.  In this
repository only the device calls `Lock`; the host creates the words
(`hccl_communicator.cc:124`) and its side is modelled from the same class, which both sides share.

**Hdc.**  A Put writes the number of the Put into the words it changes, which tells all contents apart.
`data` is written and read word by word, in any order, as `memcpy` may do.
`myHead` and `myTail` are the sender's counters: with a mapping of device memory these are the shared words
themselves, without one they are copies, and they differ after a copy that failed.
No fence separates the head from the content in `Write` (the one of line 202 comes before the tail), nor the three
steps of `UpdateCache` from one another.  With `Reorders` a processor may let a word be seen before its head
(`PutEarly`), and load words and the head of a round before what stands in front of them (`FetchEarly`); loads of
different rounds, and a content's own words, are not told apart further.  A host without a mapping copies with driver calls and keeps the order.
`sound` is a history variable that says that there was neither a fault nor such an access so far.

**CommRegistry.**  `comm[g]` is the generation of the communicator in the map, `gen` and `host` are the
host, which creates communicators one after another under one group's name; `mine` is the pointer a
kernel has.  As in the code, two kernels may be between the check and the set of one flag (both hold only the
read lock), and a host may create a group again before the device has destroyed the old communicator.
The history variable `spoiled` holds the groups for which one of these has happened: a kernel has found the flag clear
while another was about to set it (`AboutToTake`), or an Init has been given a communicator of an earlier generation.  `UsedIsAlive` and `CommLife` promise
nothing more about these groups, and everything about the others.  `Faults` lets an Init fail
(`aicpu_hccl_process.cc:187`; its communicator stays in the map, unopened) and a read of the suspending flag
(`hccl_aicpu_interface.cc:91`, leaving the in-use flag set).  `timedOut` is the stream timeout that makes the
background thread print, and take the lock again.

**NsRecovery.**  One communicator; `control` holds the last command and the suspending flag, `status` the
last answer.  `HcclOpExecFSM` is `opc` from INIT over LAUNCH and WAIT_END to the end, `bpc` the background loop:
`StopLaunchCommandHandle` (`stopLaunch` to `endStop`), then `KfcCommandHandle`.  Every flag is
written in a step of its own; a test of a command and a flag together is one step.  Operators start at any time, also in
the two windows in which the flags do not speak for them: before `isOpLaunch` is set, and between the answer to Clean
and the reset of the flags.  The history variable `missed` becomes true where one of them bites: the background
thread answers for an operator that is starting (`BgChecks`), takes the announcement of one away (`BgUnlaunches`),
or resets the flags of one that has just heeded the next command (`OpHeeds`).  Nothing is promised from there on: each of the
three makes `RecoverySpec` or `OperatorListens` fail if it is not excepted.

**Scaling.**  `FinalizeCnt` is 1999999999 (really 1234567899999999999, too long for
TLC); only that no repeat count equals it and that it has a high half matters.  `SeqMod` is 2 in `async_relaunch`, so
that the number wraps and FINALIZE restarts it, elsewhere 256.  `MaxRetry` is 1 instead of 10 in
`server_fails`, so that few messages reach it.  A wrap of the 8-bit `seqNum` within a launch is not possible:
at most 3 groups with 63 handles.

**Mutants.**  An operator whose comment says "a mutant of X" stands above X and is a
plausible mistake in the code X models.  No specification uses it; put in the place of
X it must make the property named in `PROJECT.json` fail.  It shows that the
property speaks about that code.

## 4 Properties and runs

Invariants of `KfcChannel` (`TypeOK` there, the others in `KfcPromises`):

* `TypeOK`: ranges; in particular positions and the table of handles.
* `FinishedIsExecuted`: `finishedTurnCnt` at a live handle is never ahead of the work.
* `ExecutedIsCommitted`: no turn runs without its commit or beyond `repeat`,
  whatever earlier users of the position left in the counters.
* `ExtensionFirst`: an AlltoAllV message is never visible without its extension.
* `NothingLeftBehind`: the server passes no message by.
* `ServerOutlivesWork`: it neither leaves nor gives up before the work is done.
* `ServerDoesNotFail`: neither retry limit nor missing table entries stop it.
* `CleanForNextLaunch`: after Finalize of all groups the area is as at first.

`ApiSpec` is refinement: `KfcChannel` implements `KfcTasks` under the mapping that
takes `Groups`, `Repeats` and the history `tasks`.  Each step of client, server and
streams must be one of the five abstract steps with its guard, or leave `tasks`
alone: launch order over groups, order in a group, dependencies (of the groups in `Synced`), commit before
execution, execution before Wait.  `DependenciesKept`, the sentence of `hccl.h:321-322`, is one of
its consequences for the groups in `Synced`, and stands beside it, for all groups, in section 7.

Liveness: `CallsReturn`, `ServerReturns`, `CommittedRun`.

For `KfcChannelV2`: `ExecutedIsCommitted`, for every author.  For a careful one: `CarefulLeavesClean` (`ServerDoesNotFail` and
`CleanForNextLaunch`), `CarefulApi` (the refinement of `KfcTasks`, as `ApiSpec`), `CarefulReturns` (as `CallsReturn`).

For `BatchWrite`:
`CompletedIsPosted`, `PostedOnce`, `BatchCompletes`, `SlavesReturn`.

For `PetersonLock`: `MutualExclusion`; `OvertakenOnce` (bounded bypass);
`NoStarvation` (without deadlines, until a copy fails); `LockReturns` (with them, whatever fails).
For `Hdc`: `ReturnedWasPut` (no torn content is returned); `RegSpec`, the refinement of `Register`: a Put takes
effect with its tail, a Get where it finds its cache whole; both as long as no fault has happened and no access
was reordered; `GetReturns`, `GetNeverHangs`.
For `CommRegistry`: `WriterIsAlone`; `UsedIsAlive`; `LifeSpec`, the refinement of `CommLife`; `KernelsReturn`; `DestroyedGoes`.
For `NsRecovery`: `OperatorListens`; `RecoverySpec`, the refinement of `Recovery`; `CallsAnswered`.

| run | question | bounds | states |
|---|---|---|---|
| `async_relaunch` | what holds when launches overlap, with either Finalize? | 1 group, 2 handles, 3 slots, repeat 1-2, 3 tasks in 3 launches, with and without extension, sequence numbers modulo 2 | 0.9 million |
| `two_groups` | do dependencies, issue order, the end of a launch and the server hold for groups that depend on each other? | 2 groups, 3 handles, 4 slots, repeat 1-2, 2 launches, 2 tasks and any syncs | 3.3 million |
| `live` | does every call, the server and every committed task finish? | 2 groups, 2 launches, 2 tasks, repeat 1 | 278 thousand |
| `server_fails` | is what did run in order when the server gives up anywhere? | 2 groups, 3 tasks, timeouts, retry limit 1, LEGACY resource, excess Prepare | 320 thousand |
| `rpc_v2` | does the RPC server V2 keep the same promises? | 2 groups, 3 handles, 4 slots, repeat 1; a careful author: 2 tasks and any syncs in 2 launches; another: 4 tasks that commit themselves, in 1 launch, and a kernel that times out | 390 thousand |
| `batch_write` | do the batch write threads keep their promise? | 1 slave, 3 messages of 1-2 items in 2 launches, ring of 2 slots, 3 blocks | 0.9 million |
| `peterson` | does the lock exclude, is it fair, does it return? | the two sides, unbounded use, copies that fail | 4 thousand |
| `hdc` | is the channel an atomic register, and does a Get return? | 2 senders, 1 receiver, 2 words, 2 Puts, any number of Gets, faults, reordered accesses | 193 thousand |
| `ns_recovery` | does a recovery keep its promise, over several of them? | 3 recoveries, 4 operators, faults | 196 thousand |
| `comm_registry` | is a communicator alive while it is used and gone afterwards, and does every kernel return? | 2 threads with 2 kernels each, 2 generations of a communicator, faults | 66 thousand |
| `v_...` | see section 7 | | |

Why these bounds are enough to show the interesting cases.  Two groups are what order
and dependency need; with a third nothing new happens, as the dispatcher looks at one
group at a time and at its common number.  A task is retried, and overtaken,
with two or three tasks.  Two turns distinguish the first, the last
and a middle wait.  In `rpc_v2`, four tasks are the fewest with which a message is behind the expected
number.  Two launches reuse every counter once; three let client, server and
stream each be in another.  All slots are used up to the one FINALIZE needs.  The ring
of `batch_write` has two slots rather than four so that three messages go round it; it never
holds more than one.  `peterson` has no bound but the cap of a history counter.  Two words show a torn content, two Puts a
Get that meets one Put, starts again and meets the next.  A second generation of a communicator shows an old
pointer; with one group, as flags and communicators of different groups share nothing but the
lock.  Four operators let one run before, during and after each of two recoveries, and the third
recovery starts from whatever flags two have left.

Deadlock is not checked where the system may stop.  In `async_relaunch`: with `Finalize<false>` a sequence of launches can
block for good (a commit of several turns is written over a count the stream has not cleared, or a late post
overwrites the FINALIZE marker), the defect described in section 7.  In `comm_registry`
and `ns_recovery` (and the runs of section 7 on the same modules) the bounded numbers of kernels, operators and
recoveries end, or a failure has ended the recovery.  In `hdc` a Get may always follow, but every
sender may have used up its Puts.

## 5 Fairness

`FairSpec` of `KfcChannel` has weak fairness of: a call under way (the AI core spins, nothing
preempts it for ever), the dispatcher (its loop is a thread of its own), each
stream (hardware).  There is none for `CallApi`: the author of an operator owes
nobody a further call, so `CommittedRun` speaks of tasks already committed and
`ServerReturns` of launches already finalized.  Timeouts are off in `live`: there the
question is whether anybody waits for ever, not whether a timer ends it.  `KfcChannelV2` has the same
fairness, of the loop in place of the dispatcher, and no timeout for a careful author.

`BatchWrite` has weak fairness of the threads and of the arrival of the blocks; the AI
core owes no message.  The 15 s timer is relied upon only once a slave has failed: were it fair always,
`BatchCompletes` would be true for a protocol that never completes.

`PetersonLock` and `Hdc` have weak fairness of calls under way, and of the unlock of a holder.  That a
deadline passes (`TimePasses`, strong fairness of the timeout: the loop looks at the clock once a round)
is an assumption only of the two properties that need it, `LockReturns` and
`GetNeverHangs`; the other two hold without.  `GetReturns` ends with the first fault or reordered access; after that
`hdc` shows only that a Get returns by its deadline.

`CommRegistry`: weak fairness of the steps of kernels and of the background thread; strong
fairness of a kernel's lock operation and of the expiry of its 10 ms poll, and of the background
thread's write lock: these spin on a word that others change again and again, and get their turn because the
background thread sleeps 10 ms after every pass.  `KernelsReturn` is stated for behaviours in
which the background thread does not take the lock a second time (section 7), `DestroyedGoes`
moreover for those in which no kernel has left its flag set.

`NsRecovery`: weak fairness of the host's calls, the operator under way and the background thread; none of
timeouts, failures, a new operator or a new recovery.

## 6 Proofs

`KfcChannelProofs` proves, for every number of groups, slots, handles, launches and tasks and for
every setting of the other constants that the assumptions allow:

* `TypeCorrect`: `Spec => []TypeOK`;
* `ExtensionFirstCorrect`: `Spec => []ExtensionFirst`.

Assumptions: the named ones on constants of `KfcArea`, `HcclClient` and
`KfcDispatcher` (there is a group, at least two slots, a handle; the marker exceeds
every repeat, and a repeat is a `uint8_t`; switches are Boolean).  Nothing is assumed of reachable
states.

`TypeOK` is not inductive.  A position stays in range only because callers keep
a slot for FINALIZE until they are finalized; a row of `handles` exists only because a
call under way refers to a handle already entered; a message, an entry and a handle
carry a task that exists.  The inductive invariant is `TypeInv`, four parts:

* `TypeOK`;
* `CallOK`: the arguments of the call under way fit its `pc`, and the slot it will use exists;
* `HandlesOK`: `handles` is as long as `curHandleId` says, except inside a Prepare that
  has taken its handle and after a refused one, and every handle has a task;
* `LinksOK`: every task index in a message, copy or entry is one of `tasks`.

There is one lemma per action, over lemmas about what the actions share (`PutMsgType`,
`EnqueueType`, `MarkHandle`, `ClientKept`, ...).

`ExtensionFirst` needs `ExtensionPending` beside it: a call that is about to write an
AlltoAllV message has its extension in place, at the very position.  The server can
disturb neither, because it clears an extension only together with the message
that asks for it; and the client starts an extension only when the slot is free of
the last one.

It also proves two promises of `KfcPromises`, from the same assumptions, whichever Finalize is used,
and with timeouts, retries, stale synchronization contexts and servers that give up:

* `NothingLeftBehindCorrect`: `Spec => []NothingLeftBehind`;
* `ExecutedIsCommittedCorrect`: `Spec => []ExecutedIsCommitted`.

The difficulty is that a Finalize that does not wait lets the client begin its next
launches on the same slots and counts while the server, or a stream, is still at
an earlier one.

`NothingLeftBehind` needs to know where every message is.  The invariant `PlaceInv` says
that client and server are at most two launches apart, `launch` in `serverLaunch - 1 .. serverLaunch + 2`
(`Placed`), and describes a group's slots for each distance by one predicate (`Layout`): what the
server has still to read is full from its position (`From`, one further while a message is being retried) to
the position the client's launch ended at, FINALIZE being the last and only there; what
the client has sent for the next launch is full from 0; every other slot is free.  Two launches ahead the client
cannot send, as slot 0 holds a message of the launch between.  A message
is put and taken at the ends of these ranges only (`LayoutPutOwn`, `LayoutPutNext`, `LayoutTake`), and a
restart of the server turns the second range into the first (`LayoutRestart`).  A server that gave up
leaves less to say (`Abandoned`), which any placement implies (`PlacedAbandons`).

`ExecutedIsCommitted` needs to know what a count in the area was written for.  `CommitInv` has
eight parts: the client's rows describe tasks of its launch, and a row is ahead of its task only inside the Commit
that is under way (`TableInv`); tasks of earlier launches are committed completely (`CommittedInv`), since Finalize
is called only then; a message waits with a task not launched and no task twice (`MessageInv`);
the entries of a stream, and in which order its waits, kernels and turns come (`EntryInv`,
`KernelInv`); and, the core, `CountInv`: the low half of a position's `commitTurnCnt` belongs to the task that is *next* at that
position, be its last wait still in the stream, its message in the server's hand or in its slot, and does not exceed what was
committed of it; if there is no such task the count is 0.  `PendingInv` makes the last step: a Commit writes a
count only for a task that is still somewhere, and because positions of one launch differ, the one
that is next.  The last wait of a task clears the low half, and so hands the position on with 0.  A step
that changes nothing but positions, tables or other entries is dealt with once, by `Quiet` and
`CommitQuiet`; five actions and two entry types have a lemma each.

TLC checked both invariants on the instances of `async_relaunch`, `two_groups` and `server_fails`, and on one with four launches and
two groups, before they were proved.

`KfcFinishProofs` proves the two promises that depend on how a launch ends.  They have a hypothesis, since
`Finalize<false>` leaves its counts behind for the next launch and then both are false (section 7):

* `FinishedIsExecutedCorrect`: `Spec => []FinishedIsExecuted`, if every Finalize waits (`Waits`, the template
  parameter `sync` of `hccl.h`) or the areas are used for one launch (together `Careful`);
* `CleanForNextLaunchCorrect`: `Spec => []CleanForNextLaunch`, if every Finalize waits.

`finishedTurnCnt` is written by three parties: streams count turns in its low half, the server
puts its marker into it, Finalize clears it.  A count at the position of a handle may have been written for
a task of an earlier launch, or may be the marker.  `FinishInv` says why neither is read:

* *the end of a launch* (`LaunchInv`, `MarkInv`, `UnusedInv`): the marker is written at the position of FINALIZE, behind the rows
  of the launch; a Finalize that waits returns after the marker of its group (`Marked`), so the server
  cannot be behind such a client when the launch is over; positions not yet used hold no count;
* *the order of tasks* (`RowOrder`, `WaitingInv`, `LaunchOrder`, `OldDone`): rows, messages and launches of a group come in one
  order, no task is lost before it is launched, and of the tasks of earlier launches no entry is left;
* *the streams* (`ReadyInv`, `OrderInv`): each kernel and each post follows the entry that makes it ready, the
  tasks of a group come in their order and the turns of a task in theirs;
* *the counts* (`RowCountInv`, `DoneInv`): a turn that is counted has run, and nothing of it, or of a task before
  it, is in the stream any more; hence the last row's count, which is all that Finalize looks at, tells that every
  row of the group is done.

The last conjunct is what makes `Finalize` right although it queries only the last handle, and it needs all
the others.  Most actions touch no task, row or entry in a way that matters (`Calm`, dealt with once); those that do
(`OrderSend`, `OrderProcess`, `RowPosted`, `MarksGroupFinish`, `MarksFinalizeDone`, ...) have a lemma each.

`CleanForNextLaunch` adds three parts (`CleanInv`): before the marker of a group its
slots are empty (`SlotsInv`, from `Layout`); an extension belongs to the message at its position or to the call under
way (`ExtInv`); and a count of commits has no high half (`HalfInv`, because a repeat has 8 bits and the device clears 16), so that the
last wait of a task leaves 0 and not just a low half of 0.  `CountInv` then gives 0 for every position without a task.

Its second part proves what the two groups of theorems above were needed for:

* `ServerOutlivesWorkCorrect`: `Spec => [](server # "fail" => ServerOutlivesWork)`, if every Finalize waits (`Waits`);
* `ApiSpecCorrect`: `Spec => ApiSpec`, the refinement of `KfcTasks`, and `SyncedDependenciesKeptCorrect`:
  `Spec => []SyncedDependenciesKept`, both under `Orderly`.

`Orderly` is what callers must keep to, and section 7 shows what happens without each part of it:

* `Careful`, as above; `FinalizeLast`, no Prepare on another group once one is finalized;
* `NGroups * MaxHandle <= SeqMod`, the tasks of one launch have different numbers.  In the code that is 3 groups
  (`MAX_COMM_CTX_NUM`) with 63 handles (`HCCL_MAX_HANDLE_ID`), 189, and 8 bits.

Timeouts, retries, servers that give up, waits in the wrong stream, excess calls of Prepare and either value of `Legacy`
and `DependentsFirst` are included.  Runs `two_groups` and `server_fails` satisfy `Orderly`, which TLC checked the invariants on.

Run returns when all groups have their FINALIZE; it asks no stream whether it is done.  For
`ServerOutlivesWork` it must therefore follow from the client, which waited before it sent FINALIZE: `DoneInv` gives that nothing of the
group is in a stream, and `LastInv` that a launched task whose last turn is not in its stream is over.  A server that gives up
leaves too, but because of a timeout or the retry limit; that it does not come to that before the work is done
depends on how many visits a retry takes, and holds of bounded operators only (`two_groups`, section 7).

The refinement adds to the invariants above `ApiInv`:

* *numbers* (`NumberInv`, with `OpenInv` and `RoomInv`): there is a task `b` such that the tasks after it are those of the client's
  launch and the number of a message is its task less `b + 1`, counted over all groups; if client and server are in the same launch, the server has
  launched exactly those below `b + expectSeqNum`.  So a message that is in sequence is that of the first task not
  launched, although groups are visited in turn and FINALIZE of any of them makes the count 0 again;
* *names* (`RefInv`, `KnownInv`): a message names a row by its handle, and position and repeat in the tables of the
  server are those of the row, so an InterHcclGroupSync is turned into a wait at the position its task really has;
* *dependencies* (`DepInv`): a task a group in `Synced` was told to wait for is over, or its wait is ahead of what it
  holds back: in a slot before the slot of the task (`SlotWait`), in the server's hand (`HandWait`), or before every turn of the task
  in the stream (`StreamWait`).  Such a wait goes away only when the count at its position has reached all turns, and
  `RowCountInv` says that turns counted there have run;
* *waits* (`WaitInv`): the Wait calls of a row that have returned, and the one under way, against `observed`.

The simulation has one lemma per abstract step: `PrepareIssues`, `ProcessIsLaunch`, `WriteCommits`, `KernelExecutes`,
`ReturnObserves`; every other action leaves `tasks` alone (`TaskSteps`).  That the tasks ahead in a group are over is
the order of the stream (`OrderInv`) with `LastInv`.

`KfcV2Proofs` proves `CarefulClean`: `Spec => []CarefulLeavesClean`, if `NGroups * MaxHandle <= SeqMod`, as above.
A careful author is one of `CarefulCall`, and the theorem is about him for any number of launches, slots, turns, tasks and
groups, with AlltoAllV and refused Prepare calls, whether or not `FinalizeLast` holds.  Of other authors it says nothing, and
section 7 shows that nothing could be said.  Client and streams are those of `KfcChannel`, so that
the lemmas about them are used (`C!...`, `SameClient`, `SameStream`); the server is another, and needs an invariant of
its own, `careful => CarefulInv`:

* *places* (`RoundInv`, `GroupInv`, `SlotInv`): client and server are at most one launch apart; the end of a group is marked
  only behind an empty stream and an empty buffer, and its Finalize returns only then.  A message the server gave back and will
  read again is still a message (`Message`), although its slot is clear: `HandOK` says that nobody writes that slot
  meanwhile, and so that what is read again is what was read before;
* *counts* (`RowInv`, `MessageInv`, `FinishInv`, `EntryInv`, `CommitInv`): a finished turn is that of a launched row, or
  the marker a Finalize waits for, which clears it; a count of commits of a group that is over still has the entry that
  clears it in the stream, which must run before the marker;
* *calls* (`WaitInv`, `DoneInv`, `NumberInv`, and `ExtInv` and `RoomInv` of the other server): a Finalize that has
  found its own group done finds every task launched.  For the other groups that follows from the Wait calls of
  a careful author; for its own from Query of the last handle, because tasks are launched in the order of their numbers.

The circle is closed by the numbers.  FINALIZE sets the expected number to 0, and number 0 is taken at any time,
so the server fails as soon as some message is *behind* the number it expects (`NoBehind` excludes that); it is
not behind as long as tasks are launched in order; and they are, because when FINALIZE is read none waits.
There is no invariant without all three: `DoneInv` needs the order, the order needs `DoneInv`.
TLC checked the parts of the invariant on the instance of `rpc_v2`, and a part of the states of one with three launches, two turns,
extensions and `SeqMod` as small as the assumption allows.

It also proves `TurnsCommitted`: `Spec => []ExecutedIsCommitted`, under the same condition and for either author of the
model, so also for one who does not wait and for a kernel that times out.  The invariant `TurnsInv` follows a commit from the
client's table to the stream.  The rows of a table have different positions and tasks (`RowPlaces`), and a count in the area is at
most what its row's task has been committed (`RowCommits`); a message that waits is of a row whose task is not launched
(`Unlaunched`, `HandInv`); what a stream holds of a turn is of a row that still stands (`TurnRows`); and each
kernel in a stream is of a turn that has not run, is committed or has its wait ahead, and comes after the kernels
of the task's earlier turns (`Kernels`).  NextLaunch clears the table, and so is the one step that
needs more: the counts of the launch before must be gone.  For a careful author that is `CarefulInv`; the other
has one launch.

`PetersonProofs` proves `Exclusion` (`MutualExclusion`) and `Fair` (`OvertakenOnce`) with copies that fail and either order of the device's loads.  A side has *passed* when it
holds the lock, or has already read the word that lets it in.  The invariant: a side outside `idle` has its flag set (a flag
may be set without a call, after a failed copy, but is never clear during one); once a side has passed and the other competes, the turn
is the one that keeps the other out; a side that has been overtaken holds the better turn.

`HdcProofs` proves `WholeContents` (`ReturnedWasPut`) and `Atomic` (`RegSpec`) for any number of senders, words and
Puts and one receiver, with faults and reordered accesses; what they promise ends with the first of these, and section 7
shows that it must.  The invariant relates the cache to the counters: until then
head is ahead of tail exactly inside a Put; a cache whose tail
equals the shared head holds words of the committed content only, and so a comparison of counters decides
whether what was copied word by word is whole.  That there is one receiver is
a hypothesis of the theorems; section 7 shows what two do.

`CommRegistryProofs` proves `Exclusion` (`WriterIsAlone`), `Alive`
(`UsedIsAlive`) and `Lives` (`LifeSpec`) for any number of threads, groups, generations and kernels, without a hypothesis: the
word of the lock counts who is inside.  The invariant `LifeInv` joins that lock
invariant, types, `HostInv` (the background
thread destroys only what the host has asked for, and that is never the one it makes or uses; one kernel of a group
initializes it) and `FlagInv` (until a group is spoiled, one kernel at most has found its flag clear and is not
done; the flag is set from use on; a user's pointer is the communicator in the map).  What a kernel looked up is still there when it sets the flag, in every
group, because it holds the lock.  It is inductive for flags that are left behind and Inits that fail.

`NsRecoveryProofs` proves `Listens` (`OperatorListens`) and `Promised` (`RecoverySpec`) for any
number of operators and recoveries, started at any time, and with faults, without a hypothesis: both properties end only with
`missed`.  The promise depends on which of host, operator and
background thread may act on a flag, and that changes with the progress of a
recovery: the invariant is a disjunction of nine stages, from `Listening` over
`Heeding`, `Answering`, `LaunchStopped`, `Killing`, `ExecStopped`, `Cleaning` and `CleanFailed` to `Resetting`, each of which says
where the three stand and what flags, command and status are.  Each action is shown to stay in
its stage, to go to the next or to miss an operator; `Resetting` is the one in which the host may have resumed, operators
be running, and the host have called Suspend again while the flags of the recovery before are still being reset.

`BatchWriteProofs` proves `ItemsPostedOnce` (`PostedOnce`) for any messages, blocks, launches and size of the ring, under
`MaxThreads = 2` (the code's value) and `~SlowPeek`, with faults.  The master may go on to later messages while the
slave is still at one, so what has to be shown is that the two never share out a message differently and that the
slave never takes one a second time.  The invariant: from the first look at the ring until it has posted,
a slave keeps `workedThreadNum` at 2; the ring holds the master's message or nothing (`RingInv`); the entry
that Peek is copying was `Offered` when it began, which is to say that the slave has not begun to post it or
posted it last, and no entry replaces it (`PeekInv`); what a thread has still to post is not posted (`PostInv`).
Both hypotheses are needed: section 7.

It also proves `ReportedIsPosted` (`CompletedIsPosted`), with `MaxItems < CntMod` beside these hypotheses: the
items to send are counted in 8 bits, and section 7 shows what a message of more does.  The master adds up what
threads have stored, and does not ask who stored it, nor for which message.  The invariant `CountInv`
therefore says what a stored count is a count of: that of a thread which is
posting is what it has passed of its share, all of it posted (`TallyInv`); that of the slave is the whole share of the master's
message, or 0 (`StoredInv`); and a slave that is late, at a message the master has left, has nothing
of it to post and so stores 0 when it is done (`LateInv`).  The shares are disjoint and together the items for other ranks, so
their sizes add up to `NeedSendTotalNum`, and the sum reaches it only if both are posted.

Only model-checked so far: of `KfcChannel` `ServerDoesNotFail`, and `ServerOutlivesWork` for a server that gives up:
they depend on the number of visits a retry takes, and hold only of bounded operators; of `KfcChannelV2`
`CarefulApi`.  Out of the prover's reach: the liveness properties (fairness needs ENABLED).

## 7 Disagreements found

Each of the two is a run that TLC ends with the counterexample.

* `v_ns_overtake` (`NothingRunsSuspended`): an operator between the check of the suspending flag
  and `isOpLaunch` is not seen by the background thread, which tells the host that launching has
  stopped (`executor_tracer.cc:167`); the operator runs on and its status makes StopExec and Clean do nothing.
* `v_comm_nested` (`PollEnds`): the background thread takes the registry's read lock while it holds
  it (`aicpu_communicator.cc:3261`); a writer that announced itself in between waits for the
  thread and the thread for the writer.

Known, without a run of their own: each is named with the property TLC finds violated when it is
added to the run, under a constant changed where one is given.

* `DependenciesKept` in `two_groups`: "the subsequent tasks launched by this comm group can only start after the comm task" named
  (`hccl.h:321`).  `AddOpContext` sets `syncExecCtx_` to the first element of `execCtxList_` (`comm_kfc_aicpu_server.cc:304`) of a
  server that `CreateServerList` keeps in a vector (`comm_kfc_dispatcher.cc:34-57`).  When the vector grows the servers are
  copied, the pointer of the copy still goes to the list of the original, and that is freed; the list of the next group is of
  the same size and takes its place.  The wait is put into the stream of another group (lines 696-698), and the task that
  was to wait runs.
* `RunningIsAnnounced` in `ns_recovery`: Clean is answered before `isOpLaunch` is reset (`aicpu_communicator.cc:2788`); the host
  resumes, an operator announces itself, and the reset takes the announcement of the running operator away, although the
  flag says whether an operator is initialized (`aicpu_communicator.h:535`).
* `ReturnedIsWhole` in `hdc` with `Faults = FALSE`: the comment at `hdc.cc:41` has the sender raise the head before it changes the
  content; the code stores the two in this order but asks no processor to keep it (no fence between lines 183 and 189).
  A receiver that sees a word before the head returns half of the new content and half of the old one.

* `SyncModes` with FALSE in `two_groups`, `FinishedIsExecuted`: `Finalize<false>` does not clear the finish
  counts although `hccl.h:354` says Finalize does; the Wait of the next launch returns before
  its task ran.  For the same reason the server may write its marker, and exit, while turns are queued
  (`comm_kfc_aicpu_server.cc:630`).
* `MaxRetry = 1` in `two_groups`, `ServerOutlivesWork`: each round in which a task is ahead of its turn counts as
  a retry, and a round takes one message of each group: eleven tasks prepared on one group before the
  first of another end the server.
* `FinalizeLast = FALSE`, `ServerOutlivesWork`: FINALIZE of one group sets the
  sequence number all groups share to 0; a Prepare on another group after it is never in sequence.
* `CntMod` as small as the items of a message in `batch_write`, `CompletedIsPosted`: the items to send are counted in
  8 bits (`aicpu_kfc_batchwrite_process.cc:348`), so 256 items are none.
* `SlowPeek = TRUE`, `PeekIntact` and `PostedOnce`: the check of `head` after the copy does not notice that
  the ring went round once, which the master allows since it does not wait for a slave without items.
* `MaxThreads = 3` in `batch_write`, with ranks 2 and 4, `PostedOnce`: not of this code, whose constant is 2, but what holds
  it there.  The master does not wait for a slave that has nothing to post; when a third thread starts, the next
  message sets `workedThreadNum` under that slave, which then takes items of the old one that the master has posted.
* Two `Readers` in `hdc` (no faults, no reordering), `ReturnedWasPut`: `Get` locks as a reader and fills the one cache
  (`hdc.cc:161`); operator thread and background thread both read `kfcControlTransferH2D_`.  One returns
  half of each of two contents, although the comment at `hdc.cc:43` asks that such data be dropped.
* An author who is not careful, in `KfcChannelV2` without the bounds of `CarelessCall`.
  `CallsReturn`, even with `Finalize<true>`: after task 0 on one group and task 1 on another, FINALIZE of
  the first group, read before task 1, makes the server expect 0, and task 1 is processed again for ever.
  The comment at `aicpu_kfc_rpc_serverv2.cc:261` speaks of a group that finalizes early, but the code helps
  only the message that has number 0.  `ApiSpec` and, with four tasks, `ServerDoesNotFail`: number 0 of a
  later task, taken out of turn, leaves an earlier one of another group behind the expected number (this
  failure `rpc_v2` reaches).  `NothingLeftBehind`, with `Finalize<false>` and a second launch: the slot
  that is read again holds a message of the next launch by then and is not given back, and the flag that
  says so is not reset between launches.

And without a constant, as steps of the model that the properties allow for: two kernels of a group take one
communicator, because the flag is checked and set under a lock for readers (`aicpu_hccl_process.cc:298`);
`kDestroyComm` is answered before the communicator is gone (`executor_tracer.cc:80`), and a group created again at once gets
the old instance, which is then destroyed (both `spoiled`: without it TLC finds `UsedIsAlive` violated by either); a
communicator whose Init failed is never destroyed, as `HandleDestroyComm` looks at open ones only (`DestroyedGoes` speaks
of `Doomed`, which are open); an `UpdateCache` that times out
leaves a tail in the cache for data it has not validated, which the next Get returns (`hdc.cc:287`;
`RegSpec` promises nothing after a fault); a copy of a Put that fails leaves head ahead of tail for good (`hdc.cc:185`);
a failed read of the suspending flag leaves the in-use flag set (`hccl_aicpu_interface.cc:91`; `Leaked`).
On a LEGACY resource nothing fills `ctxToOpHandle_`, so that the
server fails at FINALIZE (`NoOpHandle`, taken in `server_fails`);
`InterHcclGroupSync` of `platform_v310` is a stub; `Finalize<true>` after a refused
Prepare polls an index that is out of range and does not return (in the model, kept out of `live` by
`ExcessPrepare = FALSE`); a sync that is a group's last message can block the next launch (kept out by
`MayFinalize`); a batch write master that fails elsewhere than at the timer leaves its slaves looping.

## 8 Not modelled

In the modelled parts: torn messages (a slot is one step; planned as `MsgSlot`); Iterate and
step sizes; queues and barriers of the client; cores other than the working one;
`HCCL_ONLY_COMPUTE`; the restart build (`AICORE_EXCEPTION_RESTART`); statistics and traces;
the bytes of messages and tilings, and parameter checks of `Orchestrate`, which the host
guarantees; accesses behind assertions that a release build compiles out; the SDMA
variant of batch write; a block count that differs from the number of blocks launched;
counters of the host-device channel that wrap at 2^32; two threads of one side in one
`PetersonLock`; operators unfolded on the device (`isDeviceMode_`) and independent-operator kernels.

Hazards that were found by reading and are not in the list, because no model here reaches them:
barriers of queues counted per block and the thread barrier's count; `FindCommAicpuByName`, which walks the map without the
lock; the function-local static of `aicpu_hdc_utils.cc:58`; the release of the list in `AicpuRunRpcServerForMC2V2`
(`aicpu_kfc_process.cc:1785`); the cumulative `timeout_` of a group server; the 64 positions of a group, none of which is
reused within a launch; deadlines of the operator retry; the restart after a link failure (`aicpu_kfc_process.cc:1188`), when the server resets
its tables and expected numbers while the client may be in any Wait and must resend from the first message.

Of the RPC server V2: several queues and barriers, step sizes, batch writes in its loop, the stop of an
N-second recovery and the restart (which, as read, does not clear the flag that makes a group look at its slot again).

Whole components: the restart state machine and the operator
retry are planned (section 2).
RPC server V1 is the predecessor of V2 for one group.  The CCU clients and
the direct-drive transports talk to hardware whose side is not in the repository. Host
tiling, allocation, the loader stubs and the algorithm libraries are sequential code over
sizes and addresses, or third-party to this channel.
