--------------------------- MODULE PetersonProofs ---------------------------
(***************************************************************************)
(* What TLAPS proves about PetersonLock, whether copies fail or not: it is a *)
(* mutex, and it is fair.                                                    *)
(***************************************************************************)
EXTENDS PetersonLock, TLAPS

(* A side competes from the moment it has written turn.  It has passed when  *)
(* it holds the lock, or has read a word that lets it in.                    *)
Competes(s) == pc[s] \in {"poll", "haveFlag", "haveTurn", "locked"}

Passed(s) ==
    \/ pc[s] = "locked"
    \/ pc[s] = "haveFlag" /\ peerFlag[s] = FLAG_UNLOCK
    \/ pc[s] = "haveTurn" /\ readTurn[s] # MyTurn(s)

\* Only a side in Lock, or with the lock, may rely on its flag.
FlagRaised == \A s \in Sides : pc[s] # "idle" => flag[s] = FLAG_LOCK

\* Once a side has passed, the turn keeps the other one out.
TurnExcludes == \A s \in Sides :
    Passed(s) /\ Competes(Peer(s)) => turn = MyTurn(Peer(s))

\* A waiting side has been overtaken once at most, and a peer that competes
\* again after that has written turn since.
OvertakenBound == \A s \in WaitingSides :
    /\ overtaken[s] <= 1
    /\ overtaken[s] > 0 /\ Competes(Peer(s)) /\ pc[Peer(s)] # "locked"
         => turn = MyTurn(Peer(s))

MutexInv == WordsOK /\ FlagRaised /\ TurnExcludes

FairInv == MutexInv /\ OvertakenBound

USE PetersonAssumption DEF Host, Device, Sides, Peer, FLAG_LOCK,
    FLAG_UNLOCK, MyTurn, Goto, SetFlag, CopyDone, CopyFailed, WriteSelfFlag,
    WriteSelfFlagFails, TurnWritten, MustWait

(* The types of what the protocol reads and writes.                          *)
LEMMA WordsInit == Init => WordsOK
  BY DEF Init, WordsOK, PcStates

LEMMA WordsStep == WordsOK /\ [Next]_vars => WordsOK'
<1> SUFFICES ASSUME WordsOK, [Next]_vars PROVE WordsOK'
  OBVIOUS
<1> USE DEF WordsOK, PcStates
<1>1. ASSUME NEW s \in Sides, LockFlag(s) PROVE WordsOK'
  BY <1>1 DEF LockFlag
<1>2. ASSUME NEW s \in Sides, WriteTurn(s) PROVE WordsOK'
  BY <1>2 DEF WriteTurn
<1>3. ASSUME NEW s \in Sides, ReadPeerFlag(s) PROVE WordsOK'
  BY <1>3 DEF ReadPeerFlag, Decide
<1>4. ASSUME NEW s \in Sides, ReadTurn(s) PROVE WordsOK'
  BY <1>4 DEF ReadTurn, Decide
<1>5. ASSUME NEW s \in Sides, ReadFails(s) PROVE WordsOK'
  BY <1>5 DEF ReadFails
<1>6. ASSUME NEW s \in Sides, LockTimeout(s) PROVE WordsOK'
  BY <1>6 DEF LockTimeout
<1>7. ASSUME NEW s \in Sides, Unlock(s) PROVE WordsOK'
  BY <1>7 DEF Unlock
<1>8. CASE UNCHANGED vars
  BY <1>8 DEF vars
<1>9. QED
  BY <1>1, <1>2, <1>3, <1>4, <1>5, <1>6, <1>7, <1>8 DEF Next, Step, LockStep

(* The words and the locals keep their types.                                *)
THEOREM Typing == Spec => []TypeOK
<1>1. Init => TypeOK
  BY WordsInit DEF TypeOK, Init
<1>2. TypeOK /\ [Next]_vars => TypeOK'
  <2>1. failed \in BOOLEAN /\ [Next]_vars => failed' \in BOOLEAN
    BY Zenon DEF Next, Step, LockStep, LockFlag, WriteTurn, ReadPeerFlag, ReadTurn,
       ReadFails, LockTimeout, Unlock, vars
  <2>2. QED
    BY <2>1, WordsStep DEF TypeOK
<1>3. QED
  BY <1>1, <1>2, PTL DEF Spec

(* The invariant behind mutual exclusion, and the one behind fairness.       *)
LEMMA InvInit == Init => FairInv
  BY WordsInit DEF Init, FairInv, MutexInv, FlagRaised, TurnExcludes, OvertakenBound,
     Passed, WaitingSides

LEMMA InvStep == FairInv /\ [Next]_vars => FairInv'
<1> SUFFICES ASSUME FairInv, [Next]_vars PROVE FairInv'
  OBVIOUS
<1>0. WordsOK /\ WordsOK'
  BY WordsStep DEF FairInv, MutexInv
<1> USE DEF FairInv, MutexInv, FlagRaised, TurnExcludes, OvertakenBound, Passed,
        Competes, WaitingSides
<1>1. ASSUME NEW s \in Sides, LockFlag(s) PROVE FairInv'
  BY <1>0, <1>1 DEF LockFlag, WordsOK, PcStates
<1>2. ASSUME NEW s \in Sides, WriteTurn(s) PROVE FairInv'
  BY <1>0, <1>2 DEF WriteTurn, WordsOK, PcStates
<1>3. ASSUME NEW s \in Sides, ReadPeerFlag(s) PROVE FairInv'
  <2>1. CASE pc[s] = "poll"
    BY <1>0, <1>3, <2>1 DEF ReadPeerFlag, WordsOK, PcStates
  <2>2. CASE pc[s] = "haveTurn"
    BY <1>0, <1>3, <2>2 DEF ReadPeerFlag, Decide, WordsOK, PcStates
  <2>3. QED
    BY <1>3, <2>1, <2>2 DEF ReadPeerFlag
<1>4. ASSUME NEW s \in Sides, ReadTurn(s) PROVE FairInv'
  <2>1. CASE pc[s] = "poll"
    BY <1>0, <1>4, <2>1 DEF ReadTurn, WordsOK, PcStates
  <2>2. CASE pc[s] = "haveFlag" /\ MustWait(s, peerFlag[s], turn)
    BY <1>0, <1>4, <2>2 DEF ReadTurn, Decide, WordsOK, PcStates
  <2>3. CASE pc[s] = "haveFlag" /\ ~MustWait(s, peerFlag[s], turn)
    BY <1>0, <1>4, <2>3 DEF ReadTurn, Decide, WordsOK, PcStates
  <2>4. QED
    BY <1>4, <2>1, <2>2, <2>3 DEF ReadTurn
<1>5. ASSUME NEW s \in Sides, ReadFails(s) PROVE FairInv'
  BY <1>0, <1>5 DEF ReadFails, WordsOK, PcStates
<1>6. ASSUME NEW s \in Sides, LockTimeout(s) PROVE FairInv'
  BY <1>0, <1>6 DEF LockTimeout, WordsOK, PcStates
<1>7. ASSUME NEW s \in Sides, Unlock(s) PROVE FairInv'
  BY <1>0, <1>7 DEF Unlock, WordsOK, PcStates
<1>8. CASE UNCHANGED vars
  BY <1>0, <1>8 DEF vars
<1>9. QED
  BY <1>1, <1>2, <1>3, <1>4, <1>5, <1>6, <1>7, <1>8 DEF Next, Step, LockStep

LEMMA Invariance == Spec => []FairInv
<1>1. QED
  BY InvInit, InvStep, PTL DEF Spec

LEMMA InvExcludes == FairInv => MutualExclusion
  BY DEF FairInv, MutexInv, TurnExcludes, Passed, Competes, MutualExclusion

(* The lock of the host and the device is never held by both, whatever       *)
(* copies fail and calls time out (peterson_lock.cc, Lock).                  *)
THEOREM Exclusion == Spec => []MutualExclusion
<1>1. QED
  BY Invariance, InvExcludes, PTL

(* A side that has written turn is overtaken once at most (the wait          *)
(* condition of peterson_lock.cc, Lock).                                     *)
THEOREM Fair == Spec => []OvertakenOnce
<1>1. FairInv => OvertakenOnce
  BY DEF FairInv, OvertakenBound, OvertakenOnce
<1>2. QED
  BY Invariance, <1>1, PTL
=============================================================================
