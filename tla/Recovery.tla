------------------------------ MODULE Recovery ------------------------------
(***************************************************************************)
(* What a recovery promises the host that drives it: from the answer to      *)
(* Suspend until Resume no operator is running, the streams are killed when    *)
(* StopExec has returned and empty when Clean has.  A recovery that fails after *)
(* that answer promises that no operator starts again; one that fails without   *)
(* it, nothing.  Once an operator has been missed, nothing is promised any more. *)
(***************************************************************************)
VARIABLES
    phase,      \* where the host stands
    busy,       \* an operator is running
    streams,    \* "empty", "running" or "killed"
    missed      \* the promise is no longer kept

vars == <<phase, busy, streams, missed>>

Init == phase = "running" /\ busy = FALSE /\ streams = "empty" /\ missed = FALSE

Goto(from, to) == phase = from /\ phase' = to

\* Operators may start until Suspend is answered.
Start ==
    /\ phase \in {"running", "suspending", "unanswered"} /\ busy' = TRUE
    /\ UNCHANGED <<phase, streams>>

End == busy /\ busy' = FALSE /\ UNCHANGED <<phase, streams>>

Launch ==
    /\ busy /\ streams # "killed" /\ streams' = "running"
    /\ UNCHANGED <<phase, busy>>

Finish == streams = "running" /\ streams' = "empty" /\ UNCHANGED <<phase, busy>>

Suspend == Goto("running", "suspending") /\ UNCHANGED <<busy, streams>>
Hold == ~busy /\ Goto("suspending", "suspended") /\ UNCHANGED <<busy, streams>>
Stopped ==
    /\ streams = "killed" /\ Goto("suspended", "stopped")
    /\ UNCHANGED <<busy, streams>>
Cleaned ==
    /\ streams = "empty" /\ Goto("stopped", "cleaned")
    /\ UNCHANGED <<busy, streams>>
Resume == Goto("cleaned", "running") /\ UNCHANGED <<busy, streams>>
Fail ==
    /\ \/ Goto("suspending", "unanswered")
       \/ phase \in {"suspended", "stopped"} /\ phase' = "failed"
    /\ UNCHANGED <<busy, streams>>

Kill ==
    /\ phase \in {"suspended", "failed"}
    /\ streams' = "killed" /\ UNCHANGED <<phase, busy>>

Clean ==
    /\ phase \in {"stopped", "failed"} /\ streams = "killed"
    /\ streams' = "empty" /\ UNCHANGED <<phase, busy>>

Keep ==
    \/ Start \/ End \/ Launch \/ Finish
    \/ Suspend \/ Hold \/ Stopped \/ Cleaned \/ Resume \/ Fail
    \/ Kill \/ Clean

\* The operator is missed before it does any harm.
Miss == missed' = TRUE /\ (missed \/ UNCHANGED <<phase, streams>>)

Next == Miss \/ (Keep /\ missed = FALSE /\ UNCHANGED missed)

Spec == Init /\ [][Next]_vars
=============================================================================
