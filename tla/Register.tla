------------------------------ MODULE Register ------------------------------
(***************************************************************************)
(* What a host-device channel promises (pub_inc/hdc_pub.h): a Get returns     *)
(* the whole content the channel had at some moment of the call.  Contents     *)
(* that no Get looks at are lost.  After a fault nothing is promised.           *)
(***************************************************************************)
CONSTANTS
    Words,      \* the words of the content
    Values,     \* what a word can hold
    Zero,       \* what it holds at first
    Readers

VARIABLES
    val,        \* the content
    get,        \* where the Get of each reader stands
    view,       \* the content each reader got last
    sound       \* no copy has failed, no Get has run into its timeout

vars == <<val, get, view, sound>>

Blank == [w \in Words |-> Zero]

Init ==
    /\ val = Blank /\ sound = TRUE
    /\ get = [r \in Readers |-> "idle"] /\ view = [r \in Readers |-> Blank]

\* A Put replaces a part of the content, in one step.
Put == \E part \in SUBSET Words, x \in Values :
    /\ val' = [w \in Words |-> IF w \in part THEN x ELSE val[w]]
    /\ UNCHANGED <<get, view>>

GetStarts(r) ==
    /\ get[r] = "idle"
    /\ get' = [get EXCEPT ![r] = "called"]
    /\ UNCHANGED <<val, view>>

GetReads(r) ==
    /\ get[r] = "called"
    /\ get' = [get EXCEPT ![r] = "read"]
    /\ view' = [view EXCEPT ![r] = val]
    /\ UNCHANGED val

GetEnds(r) ==
    /\ get[r] = "read"
    /\ get' = [get EXCEPT ![r] = "idle"]
    /\ UNCHANGED <<val, view>>

Next ==
    \/ /\ sound /\ sound'
       /\ Put \/ \E r \in Readers : GetStarts(r) \/ GetReads(r) \/ GetEnds(r)
    \/ ~sound'

Spec == Init /\ [][Next]_vars
=============================================================================
