----------------------------- MODULE HdcProofs -----------------------------
(***************************************************************************)
(* Proofs about Hdc: with one reader per cache the channel is an atomic      *)
(* register until the first fault, for any writers, words and contents.       *)
(***************************************************************************)
EXTENDS Hdc, TLAPS

----------------------------------------------------------------------------
(* The inductive invariant.                                                 *)

\* A Put is past its head and before its tail.
Moving == \E w \in Writers : wpc[w] = "data"

LockInv == \A w \in Writers : wpc[w] # Idle <=> lock = w

\* The counters agree, and the content is whole, exactly when no Put moves.
CountInv ==
    /\ head = myHead /\ tail = myTail /\ committed \in contents
    /\ ~Moving => head = tail /\ data = committed
    /\ Moving => /\ head = tail + 1
                 /\ \A x \in Words : data[x] \in {puts, committed[x]}

\* A cache that no Get is filling is the content, if its tail is still the tail.
HeldInv(r) ==
    rpc[r] \in {Idle, "compare"} \/ Decided(r) => (cTail = tail => cData = committed)

\* A cache that is being filled holds words of the content while the head has
\* not moved.
CopyInv(r) ==
    rpc[r] = "data" /\ head = cTail =>
        \A x \in Words \ left[r] : cData[x] = committed[x]

\* The content that is handed out is the cache's, and is one that was put.
OutInv(r) ==
    /\ rpc[r] = "compare" => seen[r] = cTail
    /\ rpc[r] = "out" => /\ left[r] # {}
                         /\ \A x \in Words \ left[r] : value[r][x] = cData[x]
    /\ rpc[r] = Idle => value[r] \in contents
    /\ Decided(r) => cData \in contents

ReaderInv(r) == HeldInv(r) /\ CopyInv(r) /\ OutInv(r)

SoundInv == LockInv /\ CountInv /\ cTail <= tail /\ \A r \in Readers : ReaderInv(r)

\* No access has been reordered.
EarlyInv == \A r \in Readers : early[r] = {}

IInv == TypeOK /\ (sound => SoundInv /\ EarlyInv)

----------------------------------------------------------------------------
LEMMA InitInv == Init => IInv
<1> SUFFICES ASSUME Init PROVE IInv
  OBVIOUS
<1> USE HdcAssumption DEF Init, Idle, Unlocked
<1>1. Blank \in Content
  BY DEF Blank, Content
<1>2. TypeOK
  BY <1>1 DEF TypeOK
<1>3. LockInv /\ CountInv /\ cTail <= tail
  BY DEF LockInv, CountInv, Moving
<1>4. ASSUME NEW r \in Readers PROVE ReaderInv(r)
  BY DEF ReaderInv, HeldInv, CopyInv, OutInv, Decided, CacheIsWhole
<1> QED
  BY <1>2, <1>3, <1>4 DEF IInv, SoundInv, EarlyInv

\* Every definition in a step of a writer, every definition in a step of a reader.
LEMMA Typing == TypeOK /\ [Next]_vars => TypeOK'
<1> SUFFICES ASSUME TypeOK, [Next]_vars PROVE TypeOK'
  OBVIOUS
<1> USE HdcAssumption DEF TypeOK, Content, Fault, NoFault, PutGoto, GetGoto,
        PutAborts, GetAborts, NewRound, HeadStep, Idle
<1>1. ASSUME NEW w \in Writers, PutLock(w) PROVE TypeOK'
  BY <1>1 DEF PutLock, LockFree, shm, history, cache, receiver
<1>2. ASSUME NEW w \in Writers, PutHead(w) PROVE TypeOK'
  BY <1>2 DEF PutHead, history, cache, receiver
<1>3. ASSUME NEW w \in Writers, PutWord(w) PROVE TypeOK'
  BY <1>3 DEF PutWord, history, cache, receiver
<1>4. ASSUME NEW w \in Writers, PutTail(w) PROVE TypeOK'
  BY <1>4 DEF PutTail, history, cache, receiver
<1>5. ASSUME NEW r \in Readers, GetCachedTail(r) PROVE TypeOK'
  BY <1>5 DEF GetCachedTail, shm, sender, history, cache
<1>6. ASSUME NEW r \in Readers, GetCompare(r) PROVE TypeOK'
  <2>1. CASE UNCHANGED left
    BY <1>6, <2>1 DEF GetCompare, shm, sender, history, cache
  <2>2. CASE left' = [left EXCEPT ![r] = Words]
    BY <1>6, <2>2 DEF GetCompare, shm, sender, history, cache
  <2> QED
    BY <1>6, <2>1, <2>2 DEF GetCompare
<1>7. ASSUME NEW r \in Readers, FetchTail(r) PROVE TypeOK'
  <2>1. CASE UNCHANGED <<cTail, left>>
    BY <1>7, <2>1 DEF FetchTail, shm, sender, history
  <2>2. CASE cTail' = tail /\ left' = [left EXCEPT ![r] = Words \ early[r]]
    BY <1>7, <2>2 DEF FetchTail, shm, sender, history
  <2> QED
    BY <1>7, <2>1, <2>2 DEF FetchTail
<1>8. ASSUME NEW r \in Readers, FetchWord(r) PROVE TypeOK'
  <2> UNCHANGED <<shm, sender, cTail, cHead, seen, early, value>>
    BY <1>8 DEF FetchWord
  <2>1. CASE GetAborts(r) /\ UNCHANGED <<cData, left>>
    BY <2>1 DEF shm, sender, history
  <2>2. ASSUME NEW x \in left[r], NoFault, UNCHANGED rpc,
               cData' = [cData EXCEPT ![x] = data[x]],
               left' = [left EXCEPT ![r] = @ \ {x}]
        PROVE  TypeOK'
    <3>1. x \in Words /\ left' \in [Readers -> SUBSET Words]
      BY <2>2
    <3>2. cData' \in Content
      BY <2>2, <3>1
    <3> QED
      BY <2>2, <3>1, <3>2 DEF shm, sender, history
  <2> QED
    BY <1>8, <2>1, <2>2 DEF FetchWord
<1>9. ASSUME NEW r \in Readers, FetchHead(r) PROVE TypeOK'
  BY <1>9 DEF FetchHead, shm, sender, history
<1>10. ASSUME NEW r \in Readers, FetchCheck(r) PROVE TypeOK'
  <2>1. CASE UNCHANGED left
    BY <1>10, <2>1 DEF FetchCheck, shm, sender, history, cache
  <2>2. CASE left' = [left EXCEPT ![r] = Words]
    BY <1>10, <2>2 DEF FetchCheck, shm, sender, history, cache
  <2> QED
    BY <1>10, <2>1, <2>2 DEF FetchCheck
<1>11. ASSUME NEW r \in Readers, FetchTimeout(r) PROVE TypeOK'
  BY <1>11 DEF FetchTimeout, shm, sender, history, cache
<1>12. ASSUME NEW r \in Readers, GetOut(r) PROVE TypeOK'
  BY <1>12 DEF GetOut, shm, sender, history, cache
<1>13. ASSUME NEW w \in Writers, PutEarly(w) PROVE TypeOK'
  <2> PICK x \in todo : data' = [data EXCEPT ![x] = puts] /\ todo' = todo \ {x}
    BY <1>13 DEF PutEarly
  <2> QED
    BY <1>13 DEF PutEarly, history, cache, receiver
<1>14. ASSUME NEW r \in Readers, FetchEarly(r) PROVE TypeOK'
  <2> UNCHANGED <<shm, sender, cTail, rpc, seen, left, value>>
    BY <1>14 DEF FetchEarly
  <2>1. ASSUME NEW x \in Words, cData' = [cData EXCEPT ![x] = data[x]],
               early' = [early EXCEPT ![r] = @ \cup {x}], UNCHANGED cHead
        PROVE  TypeOK'
    <3>1. cData' \in Content
      BY <2>1
    <3>2. early' \in [Readers -> SUBSET (Words \cup {Head})]
      BY <2>1
    <3> QED
      BY <2>1, <3>1, <3>2 DEF shm, sender, history
  <2>2. CASE /\ cHead' = head /\ UNCHANGED cData
             /\ early' = [early EXCEPT ![r] = @ \cup {Head}]
    BY <2>2 DEF shm, sender, history
  <2> QED
    BY <1>14, <2>1, <2>2 DEF FetchEarly
<1>15. CASE UNCHANGED vars
  BY <1>15 DEF vars, shm, sender, history, cache, receiver
<1> QED
  BY <1>1, <1>2, <1>3, <1>4, <1>5, <1>6, <1>7, <1>8, <1>9, <1>10, <1>11, <1>12,
     <1>13, <1>14, <1>15 DEF Next, PutStep, GetStep
----------------------------------------------------------------------------
(* A step of a writer.  It touches neither the cache nor the readers, so what *)
(* a reader relies on is lost only where a counter moves.                     *)
LEMMA PutLockKeeps ==
  ASSUME TypeOK, SoundInv, NEW w \in Writers, PutLock(w)
  PROVE  SoundInv'
<1> USE HdcAssumption DEF PutLock, LockFree, PutGoto, shm, history, cache, receiver
<1>1. wpc' = [wpc EXCEPT ![w] = "head"] /\ lock' = w
  OBVIOUS
<1>2. ~Moving /\ ~Moving'
  BY <1>1 DEF SoundInv, LockInv, Moving, TypeOK, Idle, Unlocked
<1>3. LockInv'
  BY <1>1 DEF SoundInv, LockInv, TypeOK, Idle, Unlocked
<1>4. CountInv' /\ (cTail <= tail)'
  BY <1>2 DEF SoundInv, CountInv
<1>5. ASSUME NEW r \in Readers PROVE ReaderInv(r)'
  BY DEF SoundInv, ReaderInv, HeldInv, CopyInv, OutInv, Decided, CacheIsWhole
<1> QED
  BY <1>3, <1>4, <1>5 DEF SoundInv

LEMMA PutHeadKeeps ==
  ASSUME TypeOK, SoundInv, sound, sound', NEW w \in Writers, PutHead(w)
  PROVE  SoundInv'
<1> USE HdcAssumption DEF history, cache, receiver
<1>1. /\ wpc[w] = "head" /\ wpc' = [wpc EXCEPT ![w] = "data"] /\ UNCHANGED lock
      /\ head' = myHead + 1 /\ myHead' = myHead + 1
      /\ UNCHANGED <<tail, data, myTail, todo, puts, committed, contents,
                     cTail, cData, cHead, rpc, seen, left, value>>
  BY DEF PutHead, PutAborts, Fault, PutGoto, HeadStep
<1>2. ~Moving /\ Moving'
  BY <1>1 DEF SoundInv, LockInv, Moving, TypeOK, Idle
<1>3. LockInv'
  BY <1>1 DEF SoundInv, LockInv, TypeOK, Idle
<1>4. CountInv' /\ (cTail <= tail)'
  BY <1>1, <1>2 DEF SoundInv, CountInv
<1>5. (head # cTail)'
  BY <1>1, <1>2 DEF SoundInv, CountInv, TypeOK
<1>6. ASSUME NEW r \in Readers PROVE ReaderInv(r)'
  <2>1. HeldInv(r)' /\ OutInv(r)'
    BY <1>1 DEF SoundInv, ReaderInv, HeldInv, OutInv, Decided, CacheIsWhole
  <2>2. CopyInv(r)'
    BY <1>5 DEF CopyInv
  <2> QED
    BY <2>1, <2>2 DEF ReaderInv
<1> QED
  BY <1>3, <1>4, <1>6 DEF SoundInv

LEMMA PutWordKeeps ==
  ASSUME TypeOK, SoundInv, sound, sound', NEW w \in Writers, PutWord(w)
  PROVE  SoundInv'
<1> USE HdcAssumption DEF history, cache, receiver
<1>1. PICK x \in todo :
      /\ wpc[w] = "data" /\ data' = [data EXCEPT ![x] = puts]
      /\ UNCHANGED <<wpc, lock, head, tail, myHead, myTail, puts, committed,
                     contents, cTail, cData, cHead, rpc, seen, left, value>>
  BY DEF PutWord, PutAborts, Fault
<1>2. Moving /\ Moving'
  BY <1>1 DEF Moving
<1>3. CountInv' /\ (cTail <= tail)'
  BY <1>1, <1>2 DEF SoundInv, CountInv, TypeOK, Content
<1>4. ASSUME NEW r \in Readers PROVE ReaderInv(r)'
  BY <1>1 DEF SoundInv, ReaderInv, HeldInv, CopyInv, OutInv, Decided, CacheIsWhole
<1>5. LockInv'
  BY <1>1 DEF SoundInv, LockInv
<1> QED
  BY <1>3, <1>4, <1>5 DEF SoundInv

LEMMA PutTailKeeps ==
  ASSUME TypeOK, SoundInv, sound, sound', NEW w \in Writers, PutTail(w)
  PROVE  SoundInv'
<1> USE HdcAssumption DEF history, cache, receiver
<1>1. /\ wpc[w] = "data" /\ wpc' = [wpc EXCEPT ![w] = Idle] /\ lock' = Unlocked
      /\ tail' = myTail + 1 /\ myTail' = myTail + 1
      /\ committed' = data /\ contents' = contents \cup {data}
      /\ UNCHANGED <<head, data, myHead, puts,
                     cTail, cData, cHead, rpc, seen, left, value>>
  BY DEF PutTail, PutAborts, Fault, PutGoto
<1>2. lock = w /\ Moving
  BY <1>1 DEF SoundInv, LockInv, Moving, TypeOK, Idle
<1>3. LockInv' /\ ~Moving'
  BY <1>1, <1>2 DEF SoundInv, LockInv, Moving, TypeOK, Idle, Unlocked
<1>4. CountInv' /\ (cTail <= tail)' /\ (cTail # tail)' /\ (cTail # head)'
  BY <1>1, <1>2, <1>3 DEF SoundInv, CountInv, TypeOK
<1>5. ASSUME NEW r \in Readers PROVE ReaderInv(r)'
  <2>1. HeldInv(r)' /\ CopyInv(r)'
    BY <1>4 DEF HeldInv, CopyInv
  <2>2. OutInv(r)'
    BY <1>1 DEF SoundInv, ReaderInv, OutInv, Decided, CacheIsWhole
  <2> QED
    BY <2>1, <2>2 DEF ReaderInv
<1> QED
  BY <1>3, <1>4, <1>5 DEF SoundInv
----------------------------------------------------------------------------
(* A step of the only reader of the cache.                                  *)

\* No step of a reader disturbs what holds of the writers.
LEMMA ReaderKeepsCounts ==
  ASSUME SoundInv, UNCHANGED <<shm, sender>>
  PROVE  LockInv' /\ CountInv'
BY DEF SoundInv, LockInv, CountInv, Moving, shm, sender, history

LEMMA GetCachedTailKeeps ==
  ASSUME TypeOK, SoundInv, NEW r \in Readers, Readers = {r}, GetCachedTail(r)
  PROVE  SoundInv'
<1> USE DEF GetCachedTail, GetGoto, cache
<1>1. ReaderInv(r)'
  BY DEF SoundInv, ReaderInv, HeldInv, CopyInv, OutInv, Decided, CacheIsWhole,
         TypeOK, Idle, shm, sender, history
<1> QED
  BY <1>1, ReaderKeepsCounts DEF SoundInv, shm

LEMMA GetCompareKeeps ==
  ASSUME TypeOK, SoundInv, sound, sound', NEW r \in Readers, Readers = {r},
         GetCompare(r)
  PROVE  SoundInv'
<1> USE HdcAssumption DEF cache
<1>1. /\ rpc[r] = "compare"
      /\ \/ seen[r] = tail /\ rpc' = [rpc EXCEPT ![r] = "out"]
            /\ left' = [left EXCEPT ![r] = Words]
         \/ rpc' = [rpc EXCEPT ![r] = "tail"]
      /\ UNCHANGED <<shm, sender, cTail, cData, cHead, seen, value>>
  BY DEF GetCompare, GetAborts, Fault, GetGoto, NewRound, CacheIsCurrent
<1>2. /\ seen[r] = cTail /\ (cTail = tail => cData = committed)
      /\ committed \in contents
  BY <1>1 DEF SoundInv, ReaderInv, OutInv, HeldInv, CountInv
<1>3. ReaderInv(r)'
  BY <1>1, <1>2 DEF ReaderInv, HeldInv, CopyInv, OutInv, Decided, TypeOK, Idle,
        shm, sender, history
<1> QED
  BY <1>1, <1>3, ReaderKeepsCounts DEF SoundInv, shm

LEMMA FetchTailKeeps ==
  ASSUME TypeOK, SoundInv, EarlyInv, sound, sound', NEW r \in Readers,
         Readers = {r}, FetchTail(r)
  PROVE  SoundInv'
<1>1. /\ rpc' = [rpc EXCEPT ![r] = "data"] /\ cTail' = tail
      /\ left' = [left EXCEPT ![r] = Words]
      /\ UNCHANGED <<shm, sender>>
  BY DEF FetchTail, GetAborts, Fault, GetGoto, EarlyInv
<1>2. ReaderInv(r)'
  BY <1>1 DEF ReaderInv, HeldInv, CopyInv, OutInv, Decided, TypeOK, Idle
<1> QED
  BY <1>1, <1>2, ReaderKeepsCounts DEF SoundInv, shm, TypeOK

LEMMA FetchWordKeeps ==
  ASSUME TypeOK, SoundInv, sound, sound', NEW r \in Readers, Readers = {r},
         FetchWord(r)
  PROVE  SoundInv'
<1>1. PICK x \in left[r] :
      /\ rpc[r] = "data" /\ UNCHANGED <<rpc, cTail, shm, sender>>
      /\ cData' = [cData EXCEPT ![x] = data[x]]
      /\ left' = [left EXCEPT ![r] = @ \ {x}]
  BY DEF FetchWord, GetAborts, Fault
<1>2. head = cTail => data = committed
  BY DEF SoundInv, CountInv, TypeOK
<1>3. CopyInv(r)'
  <2> SUFFICES ASSUME head = cTail, NEW y \in Words, y \notin left'[r]
               PROVE  cData'[y] = committed[y]
    BY <1>1 DEF CopyInv, shm, sender, history
  <2>1. CASE y = x
    BY <1>1, <1>2, <2>1 DEF TypeOK, Content
  <2>2. CASE y # x
    BY <1>1, <2>2 DEF SoundInv, ReaderInv, CopyInv, TypeOK, Content
  <2> QED
    BY <2>1, <2>2
<1>4. ReaderInv(r)'
  BY <1>1, <1>3 DEF ReaderInv, HeldInv, OutInv, Decided, Idle
<1> QED
  BY <1>1, <1>4, ReaderKeepsCounts DEF SoundInv, shm

\* The head is the tail of the cache: the copy is the content.
LEMMA HeadCloses ==
  ASSUME TypeOK, SoundInv, NEW r \in Readers, rpc[r] = "data", left[r] = {},
         head = cTail
  PROVE  cData = committed /\ cData \in contents
<1>1. \A x \in Words : cData[x] = committed[x]
  BY DEF SoundInv, ReaderInv, CopyInv
<1>2. cData = committed
  BY <1>1 DEF TypeOK, Content
<1> QED
  BY <1>2 DEF SoundInv, CountInv

LEMMA FetchHeadKeeps ==
  ASSUME TypeOK, SoundInv, EarlyInv, sound, sound', NEW r \in Readers,
         Readers = {r}, FetchHead(r)
  PROVE  SoundInv'
<1>1. /\ rpc[r] = "data" /\ left[r] = {}
      /\ cHead' = head /\ rpc' = [rpc EXCEPT ![r] = "check"]
      /\ UNCHANGED <<shm, sender, cTail, cData, seen, left, value>>
  BY DEF FetchHead, GetAborts, Fault, GetGoto, EarlyInv
<1>2. ReaderInv(r)'
  BY <1>1, HeadCloses DEF ReaderInv, HeldInv, CopyInv, OutInv, Decided,
        CacheIsWhole, TypeOK, Idle, shm, sender, history
<1> QED
  BY <1>1, <1>2, ReaderKeepsCounts DEF SoundInv, shm

LEMMA FetchCheckKeeps ==
  ASSUME TypeOK, SoundInv, NEW r \in Readers, Readers = {r}, FetchCheck(r)
  PROVE  SoundInv'
<1> USE HdcAssumption
<1>1. /\ rpc[r] = "check"
      /\ \/ Decided(r) /\ rpc' = [rpc EXCEPT ![r] = "out"]
            /\ left' = [left EXCEPT ![r] = Words]
         \/ rpc' = [rpc EXCEPT ![r] = "tail"]
      /\ UNCHANGED <<shm, sender, cTail, cData, cHead, seen, value>>
  BY DEF FetchCheck, GetGoto, NewRound, Decided, cache
<1>2. ReaderInv(r)'
  BY <1>1 DEF SoundInv, ReaderInv, HeldInv, CopyInv, OutInv, Decided, TypeOK, Idle,
        shm, sender, history
<1> QED
  BY <1>1, <1>2, ReaderKeepsCounts DEF SoundInv, shm

LEMMA GetOutKeeps ==
  ASSUME TypeOK, SoundInv, NEW r \in Readers, Readers = {r}, GetOut(r)
  PROVE  SoundInv' /\ (rpc'[r] = Idle => value'[r] = cData)
<1>1. PICK x \in left[r] :
      /\ rpc[r] = "out"
      /\ value' = [value EXCEPT ![r][x] = cData[x]]
      /\ left' = [left EXCEPT ![r] = @ \ {x}]
      /\ rpc' = [rpc EXCEPT ![r] = IF left[r] = {x} THEN Idle ELSE "out"]
      /\ UNCHANGED <<shm, sender, cTail, cData, cHead>>
  BY DEF GetOut, GetGoto, cache
<1>2. Decided(r) /\ cData \in contents /\ (cTail = tail => cData = committed)
  BY <1>1 DEF Decided, SoundInv, ReaderInv, OutInv, HeldInv
<1>3. \A y \in Words \ left'[r] : value'[r][y] = cData[y]
  BY <1>1 DEF SoundInv, ReaderInv, OutInv, TypeOK, Content
<1>4. rpc'[r] = Idle => value'[r] = cData
  <2> SUFFICES ASSUME rpc'[r] = Idle PROVE value'[r] = cData
    OBVIOUS
  <2>1. left'[r] = {}
    BY <1>1 DEF TypeOK, Idle
  <2>2. value'[r] \in Content /\ cData \in Content
    BY <1>1 DEF TypeOK, Content
  <2> QED
    BY <1>3, <2>1, <2>2 DEF Content
<1>5. rpc'[r] = "out" => left'[r] # {}
  BY <1>1 DEF TypeOK, Idle
<1>6. ReaderInv(r)'
  <2>1. /\ rpc'[r] \in {Idle, "out"}
        /\ UNCHANGED <<cData, cTail, tail, committed, contents>>
    BY <1>1 DEF TypeOK, shm, sender, history
  <2> QED
    BY <1>2, <1>3, <1>4, <1>5, <2>1
       DEF ReaderInv, HeldInv, CopyInv, OutInv, Decided, Idle
<1> QED
  BY <1>1, <1>4, <1>6, ReaderKeepsCounts DEF SoundInv, shm

----------------------------------------------------------------------------
(* The invariant holds always.                                              *)
\* While nothing is reordered no reader holds anything early.
LEMMA EarlyKeeps ==
  ASSUME TypeOK, EarlyInv, sound', [Next]_vars
  PROVE  EarlyInv'
<1> USE DEF EarlyInv
<1>1. UNCHANGED early \/ \E r \in Readers : early' = [early EXCEPT ![r] = {}]
  <2>1. ASSUME NEW w \in Writers, PutLock(w) \/ PutStep(w) PROVE UNCHANGED early
    BY <2>1 DEF PutLock, PutStep, PutHead, PutEarly, PutWord, PutTail, receiver
  <2>2. ASSUME NEW r \in Readers, GetCachedTail(r) \/ GetStep(r) \/ FetchTimeout(r)
        PROVE  UNCHANGED early \/ early' = [early EXCEPT ![r] = {}]
    BY <2>2 DEF GetCachedTail, GetStep, GetCompare, FetchEarly, Reorder, FetchTail,
       FetchWord, FetchHead, FetchCheck, FetchTimeout, GetOut, NewRound
  <2>3. CASE UNCHANGED vars
    BY <2>3 DEF vars, receiver
  <2> QED
    BY <2>1, <2>2, <2>3 DEF Next
<1> QED
  BY <1>1 DEF TypeOK

LEMMA StepKeeps ==
  ASSUME NEW r0, Readers = {r0}, IInv, [Next]_vars
  PROVE  IInv'
<1>1. TypeOK'
  BY Typing DEF IInv
<1>2. ASSUME sound' PROVE SoundInv' /\ EarlyInv'
  <2>1. sound /\ TypeOK /\ SoundInv /\ EarlyInv
    <3>1. [Next]_vars => sound' = sound \/ sound' = FALSE
      BY DEF Next, vars, PutLock, PutStep, PutHead, PutEarly, PutWord, PutTail,
         PutAborts, GetCachedTail, GetStep, GetCompare, FetchEarly, FetchTail,
         FetchWord, FetchHead, FetchCheck, FetchTimeout, GetOut, GetAborts, Fault,
         Reorder, NoFault
    <3> QED
      BY <1>2, <3>1 DEF IInv
  <2>2. ASSUME NEW w \in Writers, PutLock(w) \/ PutStep(w) PROVE SoundInv'
    BY <1>2, <2>1, <2>2, PutLockKeeps, PutHeadKeeps, PutWordKeeps, PutTailKeeps
       DEF PutStep, PutEarly, Reorder
  <2>3. ASSUME NEW r \in Readers, GetCachedTail(r) PROVE SoundInv'
    BY <2>1, <2>3, GetCachedTailKeeps
  <2>4. ASSUME NEW r \in Readers, GetStep(r) PROVE SoundInv'
    <3> Readers = {r}
      OBVIOUS
    <3> QED
      BY <1>2, <2>1, <2>4, GetCompareKeeps, FetchTailKeeps, FetchWordKeeps,
         FetchHeadKeeps, FetchCheckKeeps, GetOutKeeps
         DEF GetStep, FetchEarly, Reorder
  <2>5. ASSUME NEW r \in Readers, FetchTimeout(r) PROVE SoundInv'
    BY <1>2, <2>5 DEF FetchTimeout, GetAborts, Fault
  <2>6. ASSUME UNCHANGED vars PROVE SoundInv'
    BY <2>1, <2>6 DEF vars, shm, sender, history, cache, receiver, SoundInv,
       LockInv, CountInv, Moving, ReaderInv, HeldInv, CopyInv, OutInv, Decided,
       CacheIsWhole
  <2>7. EarlyInv'
    BY <1>2, <2>1, EarlyKeeps
  <2> QED
    BY <2>2, <2>3, <2>4, <2>5, <2>6, <2>7 DEF Next
<1> QED
  BY <1>1, <1>2 DEF IInv

\* The invariant of a channel that one thread reads.
LEMMA Invariance == ASSUME NEW r0, Readers = {r0} PROVE Spec => []IInv
<1>1. Init => IInv
  BY InitInv
<1>2. IInv /\ [Next]_vars => IInv'
  BY StepKeeps
<1> QED
  BY <1>1, <1>2, PTL DEF Spec

\* The comment on top of hdc.cc, for a channel that one thread reads: up to the
\* first fault or reordered access a Get returns a whole content some Put left.
THEOREM WholeContents ==
  ASSUME NEW r0, Readers = {r0} PROVE Spec => []ReturnedWasPut
<1>1. IInv => ReturnedWasPut
  BY DEF IInv, SoundInv, ReaderInv, OutInv, ReturnedWasPut, ReturnedIsWhole
<1> QED
  BY <1>1, Invariance, PTL

----------------------------------------------------------------------------
(* Each step of the channel is a step of the register, or none.             *)

\* What the writers do is seen when the tail moves.
LEMMA PutTailPuts ==
  ASSUME TypeOK, SoundInv, NEW w \in Writers, PutTail(w)
  PROVE  Reg!Put
<1>1. /\ wpc[w] = "data" /\ committed' = data
      /\ UNCHANGED <<rpc, value, cData, cHead, cTail>>
  BY DEF PutTail, cache, receiver
<1>2. \A x \in Words : data[x] \in {puts, committed[x]}
  BY <1>1 DEF SoundInv, CountInv, Moving
<1> DEFINE part == {x \in Words : data[x] = puts}
<1>3. committed' = [x \in Words |-> IF x \in part THEN puts ELSE committed[x]]
  BY <1>1, <1>2 DEF TypeOK, Content
<1>4. UNCHANGED <<GetState, View>>
  BY <1>1 DEF GetState, View, Decided, CacheIsWhole
<1>5. part \in SUBSET Words /\ puts \in 0 .. MaxPuts
  BY DEF TypeOK
<1> QED
  BY <1>3, <1>4, <1>5 DEF Reg!Put

\* What a reader does shows in its own entry of the mapped state.
LEMMA OneReader ==
  ASSUME NEW r, Readers = {r}, NEW g, NEW v,
         GetState'[r] = g, View'[r] = v
  PROVE  GetState' = [GetState EXCEPT ![r] = g] /\ View' = [View EXCEPT ![r] = v]
BY DEF GetState, View

LEMMA StepRefines ==
  ASSUME NEW r0, Readers = {r0}, IInv, IInv', [Next]_vars
  PROVE  [Reg!Next]_(Reg!vars)
<1> USE DEF Reg!vars
<1>1. CASE ~sound'
  BY <1>1 DEF Reg!Next
<1>2. CASE sound'
  <2>1. [Next]_vars => sound' = sound \/ sound' = FALSE
    BY DEF Next, vars, PutLock, PutStep, PutHead, PutEarly, PutWord, PutTail,
       PutAborts, GetCachedTail, GetStep, GetCompare, FetchEarly, FetchTail,
       FetchWord, FetchHead, FetchCheck, FetchTimeout, GetOut, GetAborts, Fault,
       Reorder, NoFault
  <2>2. /\ sound /\ sound' /\ TypeOK /\ SoundInv /\ EarlyInv
        /\ TypeOK' /\ SoundInv' /\ ~Reorder
    BY <1>2, <2>1 DEF IInv, Reorder
  <2>3. ASSUME UNCHANGED <<committed, rpc, value, cData, cHead, cTail>>
        PROVE  UNCHANGED Reg!vars
    <3>1. UNCHANGED <<GetState, View>>
      BY <2>3 DEF GetState, View, Decided, CacheIsWhole
    <3> QED
      BY <2>2, <2>3, <3>1
  <2>4. ASSUME NEW w \in Writers,
               PutLock(w) \/ PutHead(w) \/ PutEarly(w) \/ PutWord(w)
        PROVE  UNCHANGED Reg!vars
    BY <2>3, <2>4 DEF PutLock, PutHead, PutEarly, PutWord, history, cache, receiver
  <2>5. ASSUME NEW w \in Writers, PutTail(w) PROVE Reg!Next
    BY <2>2, <2>5, PutTailPuts DEF Reg!Next
  <2>6. ASSUME NEW r \in Readers, GetCachedTail(r) \/ GetStep(r) \/ FetchTimeout(r)
        PROVE  [Reg!Next]_(Reg!vars)
    <3> Readers = {r}
      OBVIOUS
    <3>1. UNCHANGED committed
      BY <2>6 DEF GetCachedTail, GetStep, GetCompare, FetchEarly, FetchTail, FetchWord,
         FetchHead, FetchCheck, FetchTimeout, GetOut, sender, history
    <3>2. CASE GetCachedTail(r)
      <4>1. /\ rpc[r] = Idle /\ rpc'[r] = "compare"
            /\ UNCHANGED <<value, cData, cHead, cTail>>
        BY <2>2, <3>2 DEF GetCachedTail, GetGoto, cache, TypeOK
      <4>2. GetState[r] = "idle" /\ GetState'[r] = "called" /\ View'[r] = View[r]
        BY <4>1 DEF GetState, View, Decided, Idle
      <4>3. Reg!GetStarts(r)
        BY <3>1, <4>2, OneReader DEF Reg!GetStarts, GetState, View
      <4> QED
        BY <2>2, <4>3 DEF Reg!Next
    <3>3. CASE rpc[r] \in {"compare", "data"} /\ Decided(r)'
      <4>1. cData' = committed
        BY <2>2, <2>6, <3>3, HeadCloses
           DEF GetCachedTail, GetStep, GetCompare, FetchEarly, FetchTail, FetchWord,
               FetchHead, NewRound, EarlyInv, FetchCheck, FetchTimeout, GetOut, GetGoto, GetAborts, Fault, Idle,
               Decided, CacheIsWhole, CacheIsCurrent, SoundInv, ReaderInv, HeldInv,
               OutInv, TypeOK, shm, cache
      <4>2. GetState[r] = "called" /\ GetState'[r] = "read" /\ View'[r] = committed
        BY <3>3, <4>1 DEF GetState, View, Decided, Idle
      <4>3. Reg!GetReads(r)
        BY <3>1, <4>2, OneReader DEF Reg!GetReads
      <4> QED
        BY <2>2, <4>3 DEF Reg!Next
    <3>4. CASE GetOut(r) /\ rpc'[r] = Idle
      <4>1. rpc[r] = "out" /\ cData' = cData /\ value'[r] = cData
        BY <2>2, <3>4, GetOutKeeps DEF GetOut, cache
      <4>2. GetState[r] = "read" /\ GetState'[r] = "idle" /\ View'[r] = View[r]
        BY <3>4, <4>1 DEF GetState, View, Decided, Idle
      <4>3. Reg!GetEnds(r)
        BY <3>1, <4>2, OneReader DEF Reg!GetEnds, GetState, View
      <4> QED
        BY <2>2, <4>3 DEF Reg!Next
    <3>5. CASE /\ ~GetCachedTail(r)
               /\ ~(rpc[r] \in {"compare", "data"} /\ Decided(r)')
               /\ ~(GetOut(r) /\ rpc'[r] = Idle)
      <4>1. GetState'[r] = GetState[r] /\ View'[r] = View[r]
        BY <2>2, <2>6, <3>5
           DEF GetStep, GetCompare, NewRound, FetchEarly, FetchTail, FetchWord, FetchHead, FetchCheck,
               FetchTimeout, GetOut, GetGoto, GetAborts, Fault, Idle, Decided,
               CacheIsWhole, GetState, View, TypeOK, cache
      <4>2. UNCHANGED <<GetState, View>>
        BY <4>1 DEF GetState, View
      <4> QED
        BY <2>2, <3>1, <4>2
    <3> QED
      BY <3>2, <3>3, <3>4, <3>5
  <2>7. CASE UNCHANGED vars
    BY <2>3, <2>7 DEF vars, sender, history, cache, receiver
  <2> QED
    BY <2>4, <2>5, <2>6, <2>7 DEF Next, PutStep
<1> QED
  BY <1>1, <1>2

\* The comment on top of hdc.cc: a channel that one thread reads implements the
\* atomic register, whatever its writers do, up to the first fault or reordered
\* access.
THEOREM Atomic == ASSUME NEW r0, Readers = {r0} PROVE Spec => RegSpec
<1>1. Init => Reg!Init
  BY DEF Init, Reg!Init, GetState, View, Decided, Blank, Reg!Blank, CacheIsWhole, Idle
<1>2. IInv /\ IInv' /\ [Next]_vars => [Reg!Next]_(Reg!vars)
  BY StepRefines
<1> QED
  BY <1>1, <1>2, Invariance, PTL DEF Spec, RegSpec, Reg!Spec
=============================================================================
