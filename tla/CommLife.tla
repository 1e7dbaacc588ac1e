------------------------------ MODULE CommLife ------------------------------
(***************************************************************************)
(* What the registry of communicators promises to the threads of the device:  *)
(* a communicator is used by one kernel at a time, only while it exists, and    *)
(* is destroyed only while nobody uses it.  A group for which the promise has    *)
(* once been given up is spoiled.                                                *)
(***************************************************************************)
CONSTANTS Threads, Groups, None

VARIABLES
    alive,      \* the groups that have a communicator
    using,      \* the group whose communicator a thread uses, or None
    spoiled     \* the groups for which nothing is promised any more

vars == <<alive, using, spoiled>>

Init == alive = {} /\ using = [t \in Threads |-> None] /\ spoiled = {}

Unused(g) == \A t \in Threads : using[t] # g

Promised(g) == g \notin spoiled

Create(g) ==
    /\ g \notin alive /\ alive' = alive \cup {g}
    /\ UNCHANGED <<using, spoiled>>

GiveUp(g) ==
    /\ g \in alive /\ spoiled' = spoiled \cup {g}
    /\ UNCHANGED <<alive, using>>

Begin(t, g) ==
    /\ using[t] = None /\ g \in alive
    /\ Promised(g) => Unused(g)
    /\ using' = [using EXCEPT ![t] = g]
    /\ UNCHANGED <<alive, spoiled>>

End(t) ==
    /\ using[t] # None
    /\ using' = [using EXCEPT ![t] = None]
    /\ UNCHANGED <<alive, spoiled>>

Destroy(g) ==
    /\ g \in alive /\ alive' = alive \ {g}
    /\ Promised(g) => Unused(g)
    /\ UNCHANGED <<using, spoiled>>

Next ==
    \/ \E g \in Groups : Create(g) \/ GiveUp(g) \/ Destroy(g)
    \/ \E t \in Threads : End(t) \/ \E g \in Groups : Begin(t, g)

Spec == Init /\ [][Next]_vars
=============================================================================
