---------------------------- MODULE PetersonLock ----------------------------
(***************************************************************************)
(* The lock between the host and the device (platform/common/               *)
(* peterson_lock.cc): three words of device memory, which the device loads  *)
(* and stores and the host reaches with copies that may fail.               *)
(***************************************************************************)
EXTENDS Naturals

CONSTANTS
    CopyFails,      \* hrtMemSyncCopy may fail
    MaxOvertaken    \* cap of the history counter of Overtaken

ASSUME PetersonAssumption ==
    /\ CopyFails \in BOOLEAN
    /\ MaxOvertaken \in Nat \ {0, 1}

Host == "host"
Device == "device"
Sides == {Host, Device}
Peer(s) == IF s = Host THEN Device ELSE Host

FLAG_UNLOCK == 0
FLAG_LOCK == 1
\* TURN_FOR_HOST, TURN_FOR_DEVICE: the value a side writes, and waits on.
MyTurn(s) == IF s = Host THEN 1 ELSE 0

VARIABLES
    turn, flag,     \* the shared words
    pc,             \* where Lock, or the critical section, stands
    peerFlag,       \* the local variables of Lock: what its loop
    readTurn,       \* has read
    overtaken,      \* history: acquisitions of the peer since WriteTurn
    failed          \* history: a copy of the host has failed

vars == <<turn, flag, pc, peerFlag, readTurn, overtaken, failed>>

\* hrtMemSet clears the words.
Init ==
    /\ turn = 0
    /\ flag = [s \in Sides |-> FLAG_UNLOCK]
    /\ pc = [s \in Sides |-> "idle"]
    /\ peerFlag = [s \in Sides |-> FLAG_UNLOCK]
    /\ readTurn = [s \in Sides |-> 0]
    /\ overtaken = [s \in Sides |-> 0]
    /\ failed = FALSE

Goto(s, p) == pc' = [pc EXCEPT ![s] = p]
SetFlag(s, f) == flag' = [flag EXCEPT ![s] = f]

\* A copy succeeds, as a load and a store of the device always do, or fails: the
\* word may have been written all the same.
CopyDone == UNCHANGED failed
CopyFailed(s) == CopyFails /\ s = Host /\ failed' = TRUE

WriteSelfFlag(s, f) == CopyDone /\ SetFlag(s, f)
WriteSelfFlagFails(s, f) == CopyFailed(s) /\ (SetFlag(s, f) \/ UNCHANGED flag)

----------------------------------------------------------------------------
\* Lock announces itself.  CHK_RET leaves Lock at a copy that failed, and the
\* flag as it is.
LockFlag(s) ==
    /\ pc[s] = "idle"
    /\ \/ WriteSelfFlag(s, FLAG_LOCK) /\ Goto(s, "turn")
       \/ WriteSelfFlagFails(s, FLAG_LOCK) /\ UNCHANGED pc
    /\ UNCHANGED <<turn, peerFlag, readTurn, overtaken>>

\* A mutant of TurnWritten: each side writes the value the other waits on.
PeersTurn(s) == MyTurn(Peer(s))
TurnWritten(s) == MyTurn(s)

WriteTurn(s) ==
    /\ pc[s] = "turn"
    /\ \/ CopyDone /\ turn' = TurnWritten(s) /\ Goto(s, "poll")
       \/ CopyFailed(s) /\ turn' \in {turn, TurnWritten(s)} /\ Goto(s, "idle")
    /\ overtaken' = [overtaken EXCEPT ![s] = 0]
    /\ UNCHANGED <<flag, peerFlag, readTurn>>

\* A mutant of LockTimeout: a loop without a deadline.
NoDeadline(s) == FALSE

\* The deadline is looked at before each round of reads.
LockTimeout(s) ==
    /\ pc[s] = "poll"
    /\ WriteSelfFlag(s, FLAG_UNLOCK) \/ WriteSelfFlagFails(s, FLAG_UNLOCK)
    /\ Goto(s, "idle")
    /\ UNCHANGED <<turn, peerFlag, readTurn, overtaken>>

\* A mutant of MustWait: a side waits whenever the other one wants the lock.
WaitForPeer(s, f, t) == f = FLAG_LOCK
MustWait(s, f, t) == f = FLAG_LOCK /\ t = MyTurn(s)

\* The round of reads is complete.
Decide(s, f, t) ==
    IF MustWait(s, f, t)
    THEN Goto(s, "poll") /\ UNCHANGED overtaken
    ELSE /\ Goto(s, "locked")
         /\ overtaken' = [overtaken EXCEPT ![Peer(s)] =
                IF @ < MaxOvertaken THEN @ + 1 ELSE @]

\* No fence separates the two reads: the loads of the device may be reordered.
ReadPeerFlag(s) ==
    LET f == flag[Peer(s)] IN
    /\ peerFlag' = [peerFlag EXCEPT ![s] = f]
    /\ \/ pc[s] = "poll" /\ Goto(s, "haveFlag") /\ UNCHANGED overtaken
       \/ pc[s] = "haveTurn" /\ Decide(s, f, readTurn[s])
    /\ UNCHANGED <<turn, flag, readTurn, failed>>

ReadTurn(s) ==
    /\ readTurn' = [readTurn EXCEPT ![s] = turn]
    /\ \/ pc[s] = "poll" /\ s = Device /\ Goto(s, "haveTurn") /\ UNCHANGED overtaken
       \/ pc[s] = "haveFlag" /\ Decide(s, peerFlag[s], turn)
    /\ UNCHANGED <<turn, flag, peerFlag, failed>>

\* Lock returns an error; its caller was told so and does not unlock.
ReadFails(s) ==
    /\ CopyFailed(s) /\ pc[s] \in {"poll", "haveFlag"}
    /\ Goto(s, "idle")
    /\ UNCHANGED <<turn, flag, peerFlag, readTurn, overtaken>>

\* Unlock does not look at the result of its copy.
Unlock(s) ==
    /\ pc[s] = "locked"
    /\ WriteSelfFlag(s, FLAG_UNLOCK) \/ WriteSelfFlagFails(s, FLAG_UNLOCK)
    /\ Goto(s, "idle")
    /\ UNCHANGED <<turn, peerFlag, readTurn, overtaken>>

----------------------------------------------------------------------------
\* The calls of a side that has called Lock.
LockStep(s) == WriteTurn(s) \/ ReadPeerFlag(s) \/ ReadTurn(s) \/ ReadFails(s)

Step(s) == LockFlag(s) \/ LockStep(s) \/ LockTimeout(s) \/ Unlock(s)

Next == \E s \in Sides : Step(s)

Spec == Init /\ [][Next]_vars

\* A call that was started goes on and a holder unlocks.
Fairness == \A s \in Sides : WF_vars(LockStep(s)) /\ WF_vars(Unlock(s))

FairSpec == Spec /\ Fairness

\* A side that keeps looking at its deadline finds it passed.
TimePasses == \A s \in Sides : SF_vars(LockTimeout(s))

----------------------------------------------------------------------------
PcStates == {"idle", "turn", "poll", "haveFlag", "haveTurn", "locked"}

\* The types of the words, of the control points and of the locals.
WordsOK ==
    /\ turn \in {0, 1}
    /\ flag \in [Sides -> {FLAG_UNLOCK, FLAG_LOCK}]
    /\ pc \in [Sides -> PcStates]
    /\ pc[Host] # "haveTurn"
    /\ peerFlag \in [Sides -> {FLAG_UNLOCK, FLAG_LOCK}]
    /\ readTurn \in [Sides -> {0, 1}]
    /\ overtaken \in [Sides -> 0 .. MaxOvertaken]

TypeOK == WordsOK /\ failed \in BOOLEAN

\* Whatever copies fail and whichever call times out, the two sides never hold
\* the lock together (peterson_lock.cc, Lock).
MutualExclusion == ~(pc[Host] = "locked" /\ pc[Device] = "locked")

WaitingSides == {s \in Sides : pc[s] \in {"poll", "haveFlag", "haveTurn"}}

\* The turn that Lock writes gives way to the peer once: from then on the peer
\* gets the lock at most once before the waiting side does.
OvertakenOnce == \A s \in WaitingSides : overtaken[s] <= 1

Returned(s) == pc[s] \in {"locked", "idle"}

\* As long as no copy has failed, Lock needs no deadline: a call that was
\* started gets the lock (or gave up before).
NoStarvation == \A s \in Sides : pc[s] = "turn" ~> (Returned(s) \/ failed)

\* With its deadline every call of Lock returns, also when a copy that failed
\* has left the flag of the peer set for good.
LockReturns == TimePasses => \A s \in Sides : pc[s] = "turn" ~> Returned(s)
=============================================================================
