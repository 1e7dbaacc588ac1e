-------------------------------- MODULE Hdc --------------------------------
(***************************************************************************)
(* The one-way channel between host and device (platform/resource/mem/      *)
(* hdc.cc): a content between two counters in shared memory, which the       *)
(* sender updates in place and the receivers copy into a cache of theirs.    *)
(***************************************************************************)
EXTENDS Naturals, FiniteSets

CONSTANTS
    Writers, Readers,   \* threads that Put at one end, Get at the other
    Words,              \* words of the content, each read and written at once
    MaxPuts,            \* bound: number of Put calls
    Faults,             \* copies may fail, UpdateCache may time out
    Reorders            \* the processors reorder accesses no fence separates

Idle == "idle"
Unlocked == "unlocked"
Head == "head"

ASSUME HdcAssumption ==
    /\ Unlocked \notin Writers /\ Words # {} /\ Head \notin Words
    /\ MaxPuts \in Nat /\ {Faults, Reorders} \subseteq BOOLEAN

VARIABLES
    head, tail, data,   \* the shared memory
    myHead, myTail,     \* the sender's counters: the same words, or (without
                        \* a mapping of device memory) its copies of them
    lock,               \* lock_ of the sender: the writer inside, if any
    wpc, todo,          \* where a Put stands, the words it has still to write
    puts,               \* the number of Put calls; a Put writes its number
    cTail, cData, cHead,    \* the cache of the receiver
    rpc, seen, left,    \* where a Get stands, the tail it saw cached, the
                        \* words it has still to copy
    early,              \* what it has loaded before the tail of its round
    value,              \* the content the last Get of a reader returned
    committed,          \* history: the content after the last Put,
    contents,           \* and after every Put
    sound               \* history: no fault, no reordered access yet

shm == <<head, tail, data>>
history == <<committed, contents>>
sender == <<myHead, myTail, lock, wpc, todo, puts, history>>
cache == <<cTail, cData, cHead>>
receiver == <<rpc, seen, left, early, value>>
vars == <<shm, sender, cache, receiver, sound>>

Blank == [x \in Words |-> 0]

\* AllocShm and AllocReadCache clear the memory.
Init ==
    /\ head = 0 /\ tail = 0 /\ data = Blank
    /\ myHead = 0 /\ myTail = 0
    /\ lock = Unlocked
    /\ wpc = [w \in Writers |-> Idle] /\ todo = {} /\ puts = 0
    /\ cTail = 0 /\ cData = Blank /\ cHead = 0
    /\ rpc = [r \in Readers |-> Idle]
    /\ seen = [r \in Readers |-> 0] /\ left = [r \in Readers |-> {}]
    /\ early = [r \in Readers |-> {}]
    /\ value = [r \in Readers |-> Blank]
    /\ committed = Blank /\ contents = {Blank} /\ sound = TRUE

NoFault == UNCHANGED sound
Fault == Faults /\ sound' = FALSE
Reorder == Reorders /\ sound' = FALSE

----------------------------------------------------------------------------
(* Put: Write under the write lock.                                         *)
PutGoto(w, p) == wpc' = [wpc EXCEPT ![w] = p]

\* A mutant of LockFree: the lock is not taken.
NoLock == TRUE
LockFree == lock = Unlocked

\* A Put of any part of the content gets the lock.
PutLock(w) ==
    /\ wpc[w] = Idle /\ LockFree /\ puts < MaxPuts
    /\ lock' = w /\ puts' = puts + 1
    /\ \E part \in SUBSET Words \ {{}} : todo' = part
    /\ PutGoto(w, "head")
    /\ NoFault
    /\ UNCHANGED <<shm, myHead, myTail, history, cache, receiver>>

\* CHK_RET: the Put ends with an error and gives the lock back.
PutAborts(w) == Fault /\ PutGoto(w, Idle) /\ lock' = Unlocked

\* A mutant of HeadStep: the head is not announced before the data.
HeadLater == myHead
HeadStep == myHead + 1

PutHead(w) ==
    /\ wpc[w] = "head"
    /\ myHead' = HeadStep
    /\ \/ head' = HeadStep /\ PutGoto(w, "data") /\ NoFault /\ UNCHANGED lock
       \/ head' \in {head, HeadStep} /\ PutAborts(w)
    /\ UNCHANGED <<tail, data, myTail, todo, puts, history, cache, receiver>>

PutWord(w) ==
    /\ wpc[w] = "data" /\ todo # {}
    /\ \/ \E x \in todo : /\ data' = [data EXCEPT ![x] = puts]
                          /\ todo' = todo \ {x}
          /\ NoFault /\ UNCHANGED <<wpc, lock>>
       \/ PutAborts(w) /\ UNCHANGED <<data, todo>>
    /\ UNCHANGED <<head, tail, myHead, myTail, puts, history, cache, receiver>>

\* No fence separates the content from the head: a word may be seen before it.
PutEarly(w) ==
    /\ wpc[w] = "head" /\ Reorder
    /\ \E x \in todo : data' = [data EXCEPT ![x] = puts] /\ todo' = todo \ {x}
    /\ UNCHANGED <<head, tail, myHead, myTail, lock, wpc, puts, history, cache,
                   receiver>>

\* The content is complete; a fence comes before the tail.
PutTail(w) ==
    /\ wpc[w] = "data" /\ todo = {}
    /\ myTail' = myTail + 1
    /\ \/ tail' = myTail + 1 /\ PutGoto(w, Idle) /\ lock' = Unlocked /\ NoFault
       \/ tail' \in {tail, myTail + 1} /\ PutAborts(w)
    /\ committed' = data /\ contents' = contents \cup {data}
    /\ UNCHANGED <<head, data, myHead, todo, puts, cache, receiver>>

PutStep(w) == PutHead(w) \/ PutEarly(w) \/ PutWord(w) \/ PutTail(w)

----------------------------------------------------------------------------
(* Get: Read under the read lock, which any number of readers hold.         *)
GetGoto(r, p) == rpc' = [rpc EXCEPT ![r] = p]

\* A copy of the reader fails: the Get returns an error.
GetAborts(r) == Fault /\ GetGoto(r, Idle)

GetCachedTail(r) ==
    /\ rpc[r] = Idle
    /\ seen' = [seen EXCEPT ![r] = cTail]
    /\ GetGoto(r, "compare")
    /\ NoFault
    /\ UNCHANGED <<shm, sender, cache, left, early, value>>

NewRound(r) == GetGoto(r, "tail") /\ early' = [early EXCEPT ![r] = {}]

\* A mutant of CacheIsCurrent: every content is fetched but the last one.
OneBehind(r) == tail <= seen[r] + 1
CacheIsCurrent(r) == seen[r] = tail

GetCompare(r) ==
    /\ rpc[r] = "compare"
    /\ \/ /\ CacheIsCurrent(r)
          /\ GetGoto(r, "out") /\ left' = [left EXCEPT ![r] = Words]
          /\ NoFault /\ UNCHANGED early
       \/ ~CacheIsCurrent(r) /\ NewRound(r) /\ NoFault /\ UNCHANGED left
       \/ GetAborts(r) /\ UNCHANGED <<left, early>>
    /\ UNCHANGED <<shm, sender, cache, seen, value>>

\* UpdateCache.  No fence separates its three steps: a word, or the head, may be
\* loaded before the step that stands before it.
FetchEarly(r) ==
    /\ rpc[r] \in {"tail", "data"} /\ Reorder
    /\ \/ \E x \in Words \ early[r] :
            /\ rpc[r] = "tail"
            /\ cData' = [cData EXCEPT ![x] = data[x]]
            /\ early' = [early EXCEPT ![r] = @ \cup {x}]
            /\ UNCHANGED cHead
       \/ /\ Head \notin early[r] /\ (rpc[r] = "data" => left[r] # {})
          /\ cHead' = head
          /\ early' = [early EXCEPT ![r] = @ \cup {Head}]
          /\ UNCHANGED cData
    /\ UNCHANGED <<shm, sender, cTail, rpc, seen, left, value>>

\* Step 1: the tail.
FetchTail(r) ==
    /\ rpc[r] = "tail"
    /\ \/ /\ cTail' = tail
          /\ GetGoto(r, "data") /\ left' = [left EXCEPT ![r] = Words \ early[r]]
          /\ NoFault
       \/ GetAborts(r) /\ UNCHANGED <<cTail, left>>
    /\ UNCHANGED <<shm, sender, cData, cHead, seen, early, value>>

\* Step 2: the data.
FetchWord(r) ==
    /\ rpc[r] = "data" /\ left[r] # {}
    /\ \/ \E x \in left[r] : /\ cData' = [cData EXCEPT ![x] = data[x]]
                             /\ left' = [left EXCEPT ![r] = @ \ {x}]
          /\ NoFault /\ UNCHANGED rpc
       \/ GetAborts(r) /\ UNCHANGED <<cData, left>>
    /\ UNCHANGED <<shm, sender, cTail, cHead, seen, early, value>>

\* Step 3: the head.
FetchHead(r) ==
    /\ rpc[r] = "data" /\ left[r] = {}
    /\ \/ /\ cHead' = IF Head \in early[r] THEN cHead ELSE head
          /\ GetGoto(r, "check") /\ NoFault
       \/ GetAborts(r) /\ UNCHANGED cHead
    /\ UNCHANGED <<shm, sender, cTail, cData, seen, left, early, value>>

\* A mutant of CacheIsWhole: the counters of the cache are not compared.
Unchecked == TRUE
CacheIsWhole == cHead = cTail

\* The copy is whole, or is made again.
FetchCheck(r) ==
    /\ rpc[r] = "check"
    /\ \/ /\ CacheIsWhole /\ GetGoto(r, "out") /\ UNCHANGED early
          /\ left' = [left EXCEPT ![r] = Words]
       \/ ~CacheIsWhole /\ NewRound(r) /\ UNCHANGED left
    /\ NoFault
    /\ UNCHANGED <<shm, sender, cache, seen, value>>

\* A mutant of FetchTimeout: the loop has no deadline.
NoDeadline(r) == FALSE

\* HCCL_E_AGAIN: the cache keeps what the round has copied.
FetchTimeout(r) ==
    /\ rpc[r] = "check" /\ ~CacheIsWhole
    /\ GetAborts(r)
    /\ UNCHANGED <<shm, sender, cache, seen, left, early, value>>

\* The Get copies the content from the cache and returns.
GetOut(r) ==
    /\ rpc[r] = "out" /\ left[r] # {}
    /\ \E x \in left[r] :
        /\ value' = [value EXCEPT ![r][x] = cData[x]]
        /\ left' = [left EXCEPT ![r] = @ \ {x}]
        /\ GetGoto(r, IF left[r] = {x} THEN Idle ELSE "out")
    /\ NoFault
    /\ UNCHANGED <<shm, sender, cache, seen, early>>

GetStep(r) ==
    \/ GetCompare(r) \/ FetchEarly(r) \/ FetchTail(r) \/ FetchWord(r) \/ FetchHead(r)
    \/ FetchCheck(r) \/ GetOut(r)

----------------------------------------------------------------------------
Next ==
    \/ \E w \in Writers : PutLock(w) \/ PutStep(w)
    \/ \E r \in Readers : GetCachedTail(r) \/ GetStep(r) \/ FetchTimeout(r)

Spec == Init /\ [][Next]_vars

\* A call that was started goes on.
FairSpec ==
    /\ Spec
    /\ \A w \in Writers : WF_vars(PutStep(w))
    /\ \A r \in Readers : WF_vars(GetStep(r))

\* The ten seconds of UpdateCache end.
TimePasses == \A r \in Readers : SF_vars(FetchTimeout(r))

----------------------------------------------------------------------------
Content == [Words -> 0 .. MaxPuts]

TypeOK ==
    /\ head \in Nat /\ tail \in Nat /\ data \in Content
    /\ myHead \in Nat /\ myTail \in Nat
    /\ lock \in Writers \cup {Unlocked}
    /\ wpc \in [Writers -> {Idle, "head", "data"}]
    /\ todo \in SUBSET Words /\ puts \in 0 .. MaxPuts
    /\ cTail \in Nat /\ cData \in Content /\ cHead \in Nat
    /\ rpc \in [Readers -> {Idle, "compare", "tail", "data", "check", "out"}]
    /\ seen \in [Readers -> Nat] /\ left \in [Readers -> SUBSET Words]
    /\ early \in [Readers -> SUBSET (Words \cup {Head})]
    /\ value \in [Readers -> Content] /\ committed \in Content
    /\ contents \in SUBSET Content

\* The step of a Get that decides to return the cache is the one that reads.
Decided(r) == rpc[r] = "out" \/ (rpc[r] = "check" /\ CacheIsWhole)
GetState == [r \in Readers |->
    IF rpc[r] = Idle THEN "idle" ELSE IF Decided(r) THEN "read" ELSE "called"]
View == [r \in Readers |-> IF Decided(r) THEN cData ELSE value[r]]

\* The comment on top of hdc.cc: with its two counters the channel is a register
\* whose Put and Get are atomic, up to the first fault or reordered access.  (One
\* reader.)
Reg == INSTANCE Register WITH
    Words <- Words, Values <- 0 .. MaxPuts, Zero <- 0, Readers <- Readers,
    val <- committed, get <- GetState, view <- View, sound <- sound
RegSpec == Reg!Spec

\* A Get that finds the channel in motion returns once the sender has finished
\* (hdc.cc, UpdateCache), unless a copy has failed.
GetReturns == \A r \in Readers : rpc[r] = "tail" ~> (rpc[r] = Idle \/ ~sound)

\* After any fault a Get still returns, if only with its timeout.
GetNeverHangs == TimePasses => \A r \in Readers : rpc[r] = "tail" ~> rpc[r] = Idle

\* The same comment: a copy whose counters differ is dropped, so what a Get has
\* returned is the whole content some Put left.
ReturnedIsWhole == \A r \in Readers : rpc[r] = Idle => value[r] \in contents

\* What the counters do ensure: it is, up to the first fault and while the
\* processors keep the order of the code.
ReturnedWasPut == sound => ReturnedIsWhole
=============================================================================
