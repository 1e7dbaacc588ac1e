----------------------------- MODULE NsRecovery -----------------------------
(***************************************************************************)
(* The N-second recovery of one communicator: the host suspends, stops,      *)
(* cleans and resumes it by commands, which the operator thread and the      *)
(* background thread of the device answer.  The two host-device channels are *)
(* atomic registers (Hdc).  Operators are unfolded from the host             *)
(* (isDeviceMode_ is FALSE) and are not re-executed (retryEnable_ is FALSE).  *)
(***************************************************************************)
EXTENDS Naturals

CONSTANTS
    MaxOps,     \* bound: operators that start
    MaxRounds,  \* bound: calls of Suspend
    Faults      \* calls of the driver may fail, the host may give up waiting

ASSUME NsRecoveryAssumption ==
    MaxOps \in Nat /\ MaxRounds \in Nat /\ Faults \in BOOLEAN

VARIABLES
    control,        \* host to device: the command and the suspending flag
    status,         \* device to host: KfcStatus
    hpc, rounds,    \* what the host has called, and how often Suspend
    opc, ops,       \* the operator thread: its state; operators started
    bpc,            \* the background thread: where it is in its loop
    isOpLaunch, endStopLaunch, needsResponse,
    commNeedsRecovery, groupNsCommStatus,
    streams,        \* what the streams of the communicator hold
    missed          \* history: the flags did not speak for an operator

flags == <<isOpLaunch, endStopLaunch, needsResponse, commNeedsRecovery>>
host == <<control, hpc, rounds>>
operator == <<opc, ops>>
background == <<bpc, groupNsCommStatus>>
vars == <<host, status, operator, background, flags, streams, missed>>

Init ==
    /\ control = [cmd |-> "none", flag |-> "null"] /\ status = "null"
    /\ hpc = "running" /\ rounds = 0
    /\ opc = "idle" /\ ops = 0
    /\ bpc = "stopLaunch" /\ groupNsCommStatus = TRUE
    /\ isOpLaunch = FALSE /\ endStopLaunch = FALSE /\ needsResponse = FALSE
    /\ commNeedsRecovery = FALSE
    /\ streams = "empty" /\ missed = FALSE

----------------------------------------------------------------------------
(* The host: Suspend, StopExec, Clean and Resume of HcclCommunicator, called *)
(* in this order by the recovery that drives them; an error ends it.         *)
HostGoto(p) == hpc' = p
Device == <<status, operator, background, flags, streams, missed>>

Suspend ==
    /\ hpc = "running" /\ rounds < MaxRounds
    /\ control' = [cmd |-> "NsStopLaunch", flag |-> "isSuspending"]
    /\ rounds' = rounds + 1
    /\ HostGoto("suspending")
    /\ UNCHANGED Device

\* StopExec and Clean look at the status before they send their command.
StopExecReads ==
    /\ hpc = "suspended"
    /\ HostGoto(IF status = "kStoplaunch" THEN "stop" ELSE "stopped")
    /\ UNCHANGED <<control, rounds, Device>>

CleanReads ==
    /\ hpc = "stopped"
    /\ HostGoto(IF status \in {"kStopExec", "kEnd"} THEN "clean" ELSE "cleaned")
    /\ UNCHANGED <<control, rounds, Device>>

\* They replace the command word and leave the flag.
HostSends(from, cmd, to) ==
    /\ hpc = from
    /\ control' = [control EXCEPT !.cmd = cmd]
    /\ HostGoto(to)
    /\ UNCHANGED <<rounds, Device>>

\* The calls poll the status; StopExec and Clean take kEnd for an answer too.
Answers ==
    [suspending |-> {"kStoplaunch"},
     stopping |-> {"kStopExec", "kEnd"}, cleaning |-> {"kClear", "kEnd"}]
Answered == [suspending |-> "suspended", stopping |-> "stopped", cleaning |-> "cleaned"]

HostPolls ==
    /\ hpc \in DOMAIN Answers
    /\ \/ status \in Answers[hpc] /\ HostGoto(Answered[hpc])
       \/ status = "kError" /\ HostGoto("failed")
    /\ UNCHANGED <<control, rounds, Device>>

HostTimeout ==
    /\ Faults /\ hpc \in DOMAIN Answers /\ status \notin Answers[hpc]
    /\ HostGoto("failed")
    /\ UNCHANGED <<control, rounds, Device>>

Resume ==
    /\ hpc = "cleaned"
    /\ control' = [cmd |-> "none", flag |-> "isResume"]
    /\ HostGoto("running")
    /\ UNCHANGED <<rounds, Device>>

HostCall ==
    \/ StopExecReads \/ HostSends("stop", "NsStopExec", "stopping")
    \/ CleanReads \/ HostSends("clean", "NsClear", "cleaning")
    \/ HostPolls \/ Resume

----------------------------------------------------------------------------
(* The operator thread: RunAicpuRpcSrvLaunchV2 and the states of the         *)
(* operator (HcclOpExecFSM).                                                 *)
OpGoto(p) == opc' = p
OpRest == <<host, ops, background>>

\* It has passed the suspending flag, and isOpLaunch does not yet speak for it.
Starting == opc \in {"admit", "init", "begin", "open"}
Announced == opc \in {"LAUNCH", "WAIT_END", "close"}
\* The host has its answer to Clean, and the flags are not all reset.
Ending == bpc \in {"reset", "unlaunch", "unanswer", "forget"}
Misses(event) == missed' = (missed \/ event)

\* The launch looks at the suspending flag.
OpEnters ==
    /\ opc = "idle" /\ ops < MaxOps
    /\ ops' = ops + 1
    /\ OpGoto(IF control.flag = "isSuspending" THEN "idle" ELSE "admit")
    /\ UNCHANGED <<host, background, status, flags, streams, missed>>

OpAdmits ==
    /\ opc = "admit"
    /\ endStopLaunch' = FALSE
    /\ OpGoto("init")
    /\ UNCHANGED <<OpRest, status, isOpLaunch, needsResponse, commNeedsRecovery, streams, missed>>

\* HCCL_OP_EXEC_FSM_INIT
OpInit ==
    /\ opc = "init"
    /\ OpGoto(IF endStopLaunch THEN "STOP_LAUNCH" ELSE "begin")
    /\ UNCHANGED <<OpRest, status, flags, streams, missed>>

OpBegins ==
    /\ opc = "begin"
    /\ status' = "kRuning"
    /\ OpGoto("open")
    /\ UNCHANGED <<OpRest, flags, streams, missed>>

\* A mutant of OnOpen: the operator of a second round is not announced.
FirstRound == rounds = 0
OnOpen == TRUE

OpOpens ==
    /\ opc = "open"
    /\ isOpLaunch' = OnOpen
    /\ OpGoto("LAUNCH")
    /\ UNCHANGED <<OpRest, status, endStopLaunch, needsResponse, commNeedsRecovery, streams, missed>>

\* CheckOpExecStatus, which launching and waiting call again and again.
Asked == control.cmd = "NsStopLaunch" /\ ~endStopLaunch

\* Its flags do not last when those of the recovery before are still to be reset.
OpHeeds ==
    /\ opc \in {"LAUNCH", "WAIT_END"} /\ Asked
    /\ needsResponse' = TRUE
    /\ OpGoto("heed")
    /\ Misses(Ending)
    /\ UNCHANGED <<OpRest, status, isOpLaunch, endStopLaunch, commNeedsRecovery, streams>>

OpEndsLaunch ==
    /\ opc = "heed"
    /\ endStopLaunch' = TRUE
    /\ OpGoto("STOP_LAUNCH")
    /\ UNCHANGED <<OpRest, status, isOpLaunch, needsResponse, commNeedsRecovery, streams, missed>>

\* Tasks that are put behind the kill stay where they are.
OpLaunches ==
    /\ opc = "LAUNCH" /\ ~Asked
    /\ streams' = IF streams = "killed" THEN "killed" ELSE "running"
    /\ OpGoto("WAIT_END")
    /\ UNCHANGED <<OpRest, status, flags, missed>>

\* The tasks are done, or nobody waits for them (IsNoNeedWait).
OpEnds ==
    /\ opc = "WAIT_END" /\ ~Asked
    /\ status' = "kEnd"
    /\ OpGoto("close")
    /\ UNCHANGED <<OpRest, flags, streams, missed>>

\* A launch that fails, a wait that times out: HCCL_OP_EXEC_FSM_ERROR.
OpFails ==
    /\ Faults /\ opc \in {"LAUNCH", "WAIT_END"}
    /\ status' = "kRetryError"
    /\ OpGoto("close")
    /\ UNCHANGED <<OpRest, flags, streams, missed>>

OpCloses ==
    /\ opc = "close"
    /\ isOpLaunch' = FALSE
    /\ OpGoto("idle")
    /\ UNCHANGED <<OpRest, status, endStopLaunch, needsResponse, commNeedsRecovery, streams, missed>>

\* HCCL_OP_EXEC_STOP_LAUNCH
OpStops ==
    /\ opc = "STOP_LAUNCH"
    /\ needsResponse' = FALSE
    /\ OpGoto(IF needsResponse THEN "mark" ELSE "idle")
    /\ UNCHANGED <<OpRest, status, isOpLaunch, endStopLaunch, commNeedsRecovery, streams, missed>>

OpMarks ==
    /\ opc = "mark"
    /\ commNeedsRecovery' = TRUE
    /\ OpGoto("respond")
    /\ UNCHANGED <<OpRest, status, isOpLaunch, endStopLaunch, needsResponse, streams, missed>>

OpResponds ==
    /\ opc = "respond"
    /\ status' = "kStoplaunch"
    /\ OpGoto("idle")
    /\ UNCHANGED <<OpRest, flags, streams, missed>>

OpStep ==
    \/ OpAdmits \/ OpInit \/ OpBegins \/ OpOpens \/ OpHeeds \/ OpEndsLaunch \/ OpLaunches
    \/ OpEnds \/ OpCloses \/ OpStops \/ OpMarks \/ OpResponds

\* The device runs the tasks.
TasksFinish ==
    /\ streams = "running"
    /\ streams' = "empty"
    /\ UNCHANGED <<host, status, operator, background, flags, missed>>

----------------------------------------------------------------------------
(* The background thread: StopLaunchCommandHandle, then KfcCommandHandle.    *)
BgGoto(p) == bpc' = p
BgRest == <<host, operator, missed>>

BgReads ==
    /\ bpc = "stopLaunch"
    /\ BgGoto(IF Asked THEN "check" ELSE "command")
    /\ UNCHANGED <<BgRest, status, groupNsCommStatus, flags, streams>>

\* A mutant of OpIsLaunched: the operator thread is not thought of.
NeverLaunched == FALSE
OpIsLaunched == isOpLaunch

\* An operator that is only starting is not seen.
BgChecks ==
    /\ bpc = "check"
    /\ BgGoto(IF OpIsLaunched THEN "command" ELSE "answer")
    /\ Misses(~OpIsLaunched /\ Starting)
    /\ UNCHANGED <<host, operator, status, groupNsCommStatus, flags, streams>>

BgAnswers ==
    /\ bpc = "answer"
    /\ status' = "kStoplaunch"
    /\ BgGoto("mark")
    /\ UNCHANGED <<BgRest, groupNsCommStatus, flags, streams>>

BgMarks ==
    /\ bpc = "mark"
    /\ commNeedsRecovery' = TRUE
    /\ BgGoto("endStop")
    /\ UNCHANGED <<BgRest, status, groupNsCommStatus, isOpLaunch, endStopLaunch,
                   needsResponse, streams>>

BgEndsLaunch ==
    /\ bpc = "endStop"
    /\ endStopLaunch' = TRUE
    /\ BgGoto("command")
    /\ UNCHANGED <<BgRest, status, groupNsCommStatus, isOpLaunch, needsResponse,
                   commNeedsRecovery, streams>>

\* HandleAICPUCommand, with the gates of NsCommStop and NsCommClean.
BgCommands ==
    /\ bpc = "command"
    /\ \/ /\ commNeedsRecovery /\ control.cmd = "NsStopExec" /\ groupNsCommStatus
          /\ groupNsCommStatus' = FALSE /\ BgGoto("kill")
       \/ /\ commNeedsRecovery /\ control.cmd = "NsClear" /\ ~groupNsCommStatus
          /\ groupNsCommStatus' = TRUE /\ BgGoto("clean")
       \/ /\ ~commNeedsRecovery \/ <<control.cmd, groupNsCommStatus>> \notin
                                    {<<"NsStopExec", TRUE>>, <<"NsClear", FALSE>>}
          /\ BgGoto("stopLaunch") /\ UNCHANGED groupNsCommStatus
    /\ UNCHANGED <<BgRest, status, flags, streams>>

\* A call of the driver fails: kError.
BgErrs(next) == Faults /\ status' = "kError" /\ BgGoto(next) /\ UNCHANGED streams

BgKills ==
    /\ bpc = "kill"
    /\ \/ streams' = "killed" /\ BgGoto("killed") /\ UNCHANGED status
       \/ BgErrs("stopLaunch")
    /\ UNCHANGED <<BgRest, groupNsCommStatus, flags>>

BgKilled ==
    /\ bpc = "killed"
    /\ status' = "kStopExec"
    /\ BgGoto("stopLaunch")
    /\ UNCHANGED <<BgRest, groupNsCommStatus, flags, streams>>

BgCleans ==
    /\ bpc = "clean"
    /\ \/ streams' = "empty" /\ BgGoto("cleaned") /\ UNCHANGED status
       \/ BgErrs("forget")
    /\ UNCHANGED <<BgRest, groupNsCommStatus, flags>>

BgCleaned ==
    /\ bpc = "cleaned"
    /\ status' = "kClear"
    /\ BgGoto("reset")
    /\ UNCHANGED <<BgRest, groupNsCommStatus, flags, streams>>

\* A mutant of AfterClean: endStopLaunch is left to the next operator.
AnsweredFlag == endStopLaunch
AfterClean == FALSE

\* The flags are reset one by one, and after the answer: an operator may have been
\* announced in the meantime.
BgResets ==
    /\ bpc = "reset"
    /\ endStopLaunch' = AfterClean
    /\ BgGoto("unlaunch")
    /\ UNCHANGED <<BgRest, status, groupNsCommStatus, isOpLaunch, needsResponse,
                   commNeedsRecovery, streams>>

BgUnlaunches ==
    /\ bpc = "unlaunch"
    /\ isOpLaunch' = FALSE
    /\ Misses(Announced)
    /\ BgGoto("unanswer")
    /\ UNCHANGED <<host, operator, status, groupNsCommStatus, endStopLaunch, needsResponse,
                   commNeedsRecovery, streams>>

BgUnanswers ==
    /\ bpc = "unanswer"
    /\ needsResponse' = FALSE
    /\ BgGoto("forget")
    /\ UNCHANGED <<BgRest, status, groupNsCommStatus, isOpLaunch, endStopLaunch,
                   commNeedsRecovery, streams>>

BgForgets ==
    /\ bpc = "forget"
    /\ commNeedsRecovery' = FALSE
    /\ BgGoto("stopLaunch")
    /\ UNCHANGED <<BgRest, status, groupNsCommStatus, isOpLaunch, endStopLaunch,
                   needsResponse, streams>>

BgStep ==
    \/ BgReads \/ BgChecks \/ BgAnswers \/ BgMarks \/ BgEndsLaunch \/ BgCommands
    \/ BgKills \/ BgKilled \/ BgCleans \/ BgCleaned
    \/ BgResets \/ BgUnlaunches \/ BgUnanswers \/ BgForgets

----------------------------------------------------------------------------
Next ==
    \/ Suspend \/ HostCall \/ HostTimeout
    \/ OpEnters \/ OpStep \/ OpFails \/ TasksFinish
    \/ BgStep

Spec == Init /\ [][Next]_vars

FairSpec == Spec /\ WF_vars(HostCall) /\ WF_vars(OpStep) /\ WF_vars(BgStep)

----------------------------------------------------------------------------
\* Where the host stands, as the recovery's promise sees it.
Phase ==
    CASE hpc \in {"suspended", "stop", "stopping"} -> "suspended"
      [] hpc \in {"stopped", "clean", "cleaning"} -> "stopped"
      [] hpc = "failed" /\ control.cmd = "NsStopLaunch" -> "unanswered"
      [] OTHER -> hpc
Busy == opc \in {"begin", "open", "LAUNCH", "WAIT_END"}

\* Until an operator is missed, the recovery keeps its promise: the commands of
\* KfcCommand (pub_inc/aicpu_operator_pub.h) stop launching, stop executing and
\* clean, in this order, what the two threads have.
Promise == INSTANCE Recovery WITH
    phase <- Phase, busy <- Busy, streams <- streams, missed <- missed
RecoverySpec == Promise!Spec

\* An operator that runs can be told to stop: it is announced to the background
\* thread, and the recovery before has left nothing that makes it deaf
\* (aicpu_communicator.h, isOpLaunch and endStopLaunch), unless the flags were
\* reset, or an answer given, without regard to it.
OperatorListens ==
    opc \in {"LAUNCH", "WAIT_END"} /\ ~missed => isOpLaunch /\ ~endStopLaunch

\* Every call of the host is answered, in every recovery, without its timeout, as
\* long as no operator is missed (HcclCommunicator::Suspend, StopExec, Clean).
CallsAnswered == [](~missed) => \A p \in DOMAIN Answers : hpc = p ~> hpc # p

\* NsStopLaunch stops the launching of operators (aicpu_operator_pub.h); "the op
\* should not be launched in the suspending status" (aicpu_communicator.cc).
NothingRunsSuspended == Phase \in {"suspended", "stopped", "cleaned"} => ~Busy

\* isOpLaunch says that an operator is initialized (aicpu_communicator.h:535).
RunningIsAnnounced == opc \in {"LAUNCH", "WAIT_END"} => isOpLaunch
=============================================================================
