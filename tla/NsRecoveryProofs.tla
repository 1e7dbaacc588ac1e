-------------------------- MODULE NsRecoveryProofs --------------------------
(***************************************************************************)
(* The recovery keeps its promise over any number of operators and          *)
(* recoveries, whatever fails, until an operator is missed.                  *)
(***************************************************************************)
EXTENDS NsRecovery, TLAPS

Statuses == {"null", "kRuning", "kEnd", "kRetryError", "kStoplaunch", "kStopExec",
             "kClear", "kError"}

\* What the host has called says which command is in the channel.
CmdOf(p) ==
    CASE p = "running" -> {"none"}
      [] p \in {"suspending", "suspended", "stop"} -> {"NsStopLaunch"}
      [] p \in {"stopping", "stopped", "clean"} -> {"NsStopExec"}
      [] p \in {"cleaning", "cleaned"} -> {"NsClear"}
      [] OTHER -> {"NsStopLaunch", "NsStopExec", "NsClear"}

HostInv ==
    /\ hpc \in {"running", "suspending", "suspended", "stop", "stopping", "stopped",
                "clean", "cleaning", "cleaned", "failed"}
    /\ control \in [cmd : {"none", "NsStopLaunch", "NsStopExec", "NsClear"},
                    flag : {"null", "isSuspending", "isResume"}]
    /\ control.cmd \in CmdOf(hpc)
    /\ control.flag = "isSuspending" <=> hpc # "running"

TypeInv ==
    /\ status \in Statuses
    /\ isOpLaunch \in BOOLEAN /\ endStopLaunch \in BOOLEAN /\ needsResponse \in BOOLEAN
    /\ commNeedsRecovery \in BOOLEAN /\ groupNsCommStatus \in BOOLEAN
    /\ streams \in {"empty", "running", "killed"}

Looping == bpc \in {"stopLaunch", "check", "command"}

----------------------------------------------------------------------------
(* Until an operator is missed the device goes through these stages, one     *)
(* after another.                                                            *)

\* No answer is owed to the operator or kept from it: it runs, or may run, and the
\* host has called Suspend at most.
Serving ==
    /\ ~needsResponse /\ groupNsCommStatus /\ streams # "killed"
    /\ opc = "idle" \/ Starting \/ Announced
    /\ opc \in {"init", "begin", "open"} \/ Announced => ~endStopLaunch
    /\ Announced => isOpLaunch
    /\ hpc \in {"running", "suspending", "cleaning", "cleaned", "failed"}
    /\ control.cmd # "NsStopExec"
    /\ control.cmd = "NsClear" => opc = "idle" /\ streams = "empty" /\ status = "kClear"
    /\ status \in {"null", "kRuning", "kEnd", "kRetryError", "kClear"}

\* No recovery is under way, or the host has only just called Suspend.
Listening ==
    /\ Serving /\ ~endStopLaunch /\ ~commNeedsRecovery /\ (isOpLaunch => Announced)
    /\ Looping /\ (bpc = "check" => control.cmd = "NsStopLaunch")

\* The operator thread answers.
Heeding ==
    /\ groupNsCommStatus /\ isOpLaunch /\ streams # "killed"
    /\ Looping
    /\ \/ opc = "heed" /\ needsResponse /\ ~endStopLaunch /\ ~commNeedsRecovery
       \/ opc = "STOP_LAUNCH" /\ needsResponse /\ endStopLaunch /\ ~commNeedsRecovery
       \/ opc = "mark" /\ ~needsResponse /\ endStopLaunch /\ ~commNeedsRecovery
       \/ opc = "respond" /\ ~needsResponse /\ endStopLaunch /\ commNeedsRecovery
    /\ hpc \in {"suspending", "failed"} /\ control.cmd = "NsStopLaunch"
    /\ status \in {"null", "kRuning", "kEnd", "kRetryError", "kClear"}

\* The background thread answers in its place.
Answering ==
    /\ ~endStopLaunch /\ ~needsResponse /\ groupNsCommStatus
    /\ ~isOpLaunch /\ opc = "idle" /\ streams # "killed"
    /\ \/ /\ bpc = "answer" /\ ~commNeedsRecovery
          /\ status \in {"null", "kRuning", "kEnd", "kRetryError", "kClear"}
          /\ hpc \in {"suspending", "failed"} /\ control.cmd = "NsStopLaunch"
       \/ /\ \/ bpc = "mark" /\ ~commNeedsRecovery
             \/ bpc = "endStop" /\ commNeedsRecovery
          /\ status = "kStoplaunch"
          /\ hpc \in {"suspending", "suspended", "stop", "stopping", "failed"}
          /\ control.cmd # "NsClear"

\* From the answer on no operator runs: it holds what it was told.
Held == endStopLaunch /\ ~needsResponse /\ opc = "idle"

LaunchStopped ==
    /\ Held /\ commNeedsRecovery /\ groupNsCommStatus /\ streams # "killed"
    /\ Looping /\ (bpc = "check" => isOpLaunch) /\ status = "kStoplaunch"
    /\ hpc \in {"suspending", "suspended", "stop", "stopping", "failed"}
    /\ control.cmd # "NsClear"

Killing ==
    /\ Held /\ commNeedsRecovery /\ ~groupNsCommStatus
    /\ \/ bpc = "kill" /\ streams # "killed"
       \/ bpc = "killed" /\ streams = "killed"
    /\ status = "kStoplaunch"
    /\ hpc \in {"stopping", "failed"} /\ control.cmd = "NsStopExec"

ExecStopped ==
    /\ Held /\ commNeedsRecovery /\ ~groupNsCommStatus
    /\ bpc \in {"stopLaunch", "command"}
    /\ \/ /\ status = "kStopExec" /\ streams = "killed"
          /\ hpc \in {"stopping", "stopped", "clean", "cleaning", "failed"}
          /\ control.cmd # "NsStopLaunch"
       \/ /\ status = "kError" /\ streams # "killed"
          /\ hpc \in {"stopping", "failed"} /\ control.cmd = "NsStopExec"

Cleaning ==
    /\ Held /\ commNeedsRecovery /\ groupNsCommStatus
    /\ \/ bpc = "clean" /\ streams = "killed"
       \/ bpc = "cleaned" /\ streams = "empty"
    /\ status = "kStopExec"
    /\ hpc \in {"cleaning", "failed"} /\ control.cmd = "NsClear"

CleanFailed ==
    /\ Held /\ groupNsCommStatus /\ streams = "killed" /\ status = "kError"
    /\ \/ bpc = "forget" /\ commNeedsRecovery
       \/ bpc \in {"stopLaunch", "command"} /\ ~commNeedsRecovery
    /\ hpc \in {"cleaning", "failed"} /\ control.cmd = "NsClear"

\* The recovery is over, but for the flags; the host may have resumed, operators be
\* running, and the host have called Suspend again.
Resetting ==
    /\ Serving /\ commNeedsRecovery /\ Ending
    /\ bpc # "reset" => ~endStopLaunch
    /\ bpc \in {"unanswer", "forget"} /\ isOpLaunch => Announced

Stage ==
    \/ Listening \/ Heeding \/ Answering \/ LaunchStopped \/ Killing \/ ExecStopped
    \/ Cleaning \/ CleanFailed \/ Resetting

OnCourse == HostInv /\ TypeInv /\ Stage

RecoveryInv == missed \in BOOLEAN /\ (missed \/ OnCourse)

\* The calls of the host keep the device on course.
LEMMA HostKeeps ==
    ASSUME OnCourse,
           \/ Suspend \/ StopExecReads \/ HostSends("stop", "NsStopExec", "stopping")
           \/ CleanReads \/ HostSends("clean", "NsClear", "cleaning") \/ HostPolls
           \/ HostTimeout \/ Resume
    PROVE  OnCourse'
<1> USE DEF OnCourse, HostInv, TypeInv, CmdOf, Statuses, Stage, Serving, Starting, Announced, Ending,
            Listening, Heeding, Answering, LaunchStopped, Killing, ExecStopped, Cleaning, CleanFailed,
            Resetting, Held, Looping,
            HostGoto, Device, operator, background, flags
<1>1. CASE Suspend
  BY <1>1 DEF Suspend
<1>2. CASE StopExecReads
  BY <1>2 DEF StopExecReads
<1>3. CASE HostSends("stop", "NsStopExec", "stopping")
  BY <1>3 DEF HostSends
<1>4. CASE CleanReads
  BY <1>4 DEF CleanReads
<1>5. CASE HostSends("clean", "NsClear", "cleaning")
  BY <1>5 DEF HostSends
<1>6. CASE HostPolls
  BY <1>6 DEF HostPolls, Answers, Answered
<1>7. CASE HostTimeout
  BY <1>7 DEF HostTimeout, Answers
<1>8. CASE Resume
  BY <1>8 DEF Resume
<1> QED
  BY <1>1, <1>2, <1>3, <1>4, <1>5, <1>6, <1>7, <1>8

\* The steps of the operator thread, and the tasks of the device.
LEMMA OpKeeps ==
    ASSUME OnCourse, ~missed',
           \/ OpEnters \/ OpAdmits \/ OpInit \/ OpBegins \/ OpOpens \/ OpHeeds
           \/ OpEndsLaunch \/ OpLaunches \/ OpEnds \/ OpFails \/ OpCloses
           \/ OpStops \/ OpMarks \/ OpResponds \/ TasksFinish
    PROVE  OnCourse'
<1> USE DEF OnCourse, HostInv, TypeInv, CmdOf, Statuses, Stage, Serving, Starting, Announced, Ending,
            Listening, Heeding, Answering, LaunchStopped, Killing, ExecStopped, Cleaning, CleanFailed,
            Resetting, Held, Looping,
            OpGoto, OpRest, host, operator, background, flags
<1>1. CASE OpEnters
  BY <1>1 DEF OpEnters
<1>2. CASE OpAdmits
  <2>1. HostInv'
    BY <1>2 DEF OpAdmits
  <2>2. TypeInv'
    BY <1>2 DEF OpAdmits
  <2>3. Listening => Listening'
    BY <1>2 DEF OpAdmits
  <2>4. Resetting => Resetting'
    BY <1>2 DEF OpAdmits
  <2> QED
    BY <1>2, <2>1, <2>2, <2>3, <2>4 DEF OpAdmits
<1>3. CASE OpInit
  BY <1>3 DEF OpInit
<1>4. CASE OpOpens
  BY <1>4 DEF OpOpens, OnOpen
<1>5. CASE OpHeeds
  <2>1. Listening
    BY <1>5 DEF OpHeeds, Asked, Misses
  <2>2. HostInv' /\ TypeInv'
    BY <1>5, <2>1 DEF OpHeeds, Asked
  <2>3. Heeding'
    BY <1>5, <2>1 DEF OpHeeds, Asked
  <2> QED
    BY <2>2, <2>3
<1>6. CASE OpLaunches
  BY <1>6 DEF OpLaunches, Asked
<1>7. CASE OpEnds
  BY <1>7 DEF OpEnds, Asked
<1>8. CASE OpFails
  BY <1>8 DEF OpFails
<1>9. CASE OpCloses
  <2>1. HostInv' /\ TypeInv'
    BY <1>9 DEF OpCloses
  <2>2. Listening => Listening'
    BY <1>9 DEF OpCloses
  <2>3. Resetting => Resetting'
    BY <1>9 DEF OpCloses
  <2> QED
    BY <1>9, <2>1, <2>2, <2>3 DEF OpCloses
<1>10. CASE OpStops
  BY <1>10 DEF OpStops
<1>11. CASE OpResponds
  BY <1>11 DEF OpResponds
<1>12. CASE TasksFinish
  BY <1>12 DEF TasksFinish
<1>13. CASE OpBegins
  BY <1>13 DEF OpBegins
<1>14. CASE OpEndsLaunch
  BY <1>14 DEF OpEndsLaunch
<1>15. CASE OpMarks
  BY <1>15 DEF OpMarks
<1> QED
  BY <1>1, <1>2, <1>3, <1>4, <1>5, <1>6, <1>7, <1>8, <1>9, <1>10, <1>11, <1>12, <1>13,
     <1>14, <1>15

\* The steps of the background thread.
LEMMA BgKeeps ==
    ASSUME OnCourse, ~missed',
           \/ BgReads \/ BgChecks \/ BgAnswers \/ BgMarks \/ BgEndsLaunch \/ BgCommands
           \/ BgKills \/ BgKilled \/ BgCleans \/ BgCleaned
           \/ BgResets \/ BgUnlaunches \/ BgUnanswers \/ BgForgets
    PROVE  OnCourse'
<1> USE DEF OnCourse, HostInv, TypeInv, CmdOf, Statuses, Stage, Serving, Starting, Announced, Ending,
            Listening, Heeding, Answering, LaunchStopped, Killing, ExecStopped, Cleaning, CleanFailed,
            Resetting, Held, Looping,
            BgGoto, BgRest, host, operator, flags, Misses
<1>1. CASE BgReads
  BY <1>1 DEF BgReads, Asked
<1>2. CASE BgChecks
  <2>1. HostInv' /\ TypeInv'
    BY <1>2 DEF BgChecks
  <2>2. CASE Listening
    <3>1. Listening' \/ Answering'
      BY <1>2, <2>2 DEF BgChecks, OpIsLaunched
    <3> QED
      BY <2>1, <3>1
  <2>3. CASE Heeding
    <3>1. Heeding'
      BY <1>2, <2>3 DEF BgChecks, OpIsLaunched
    <3> QED
      BY <2>1, <3>1
  <2>4. CASE LaunchStopped
    BY <1>2, <2>1, <2>4 DEF BgChecks, OpIsLaunched
  <2> QED
    BY <1>2, <2>2, <2>3, <2>4 DEF BgChecks
<1>3. CASE BgAnswers
  BY <1>3 DEF BgAnswers
<1>4. CASE BgMarks
  BY <1>4 DEF BgMarks
<1>5. CASE BgCommands
  <2>1. HostInv' /\ TypeInv'
    <3>1. /\ UNCHANGED <<control, hpc, status, isOpLaunch, endStopLaunch, needsResponse>>
          /\ UNCHANGED <<commNeedsRecovery, streams>>
      BY <1>5 DEF BgCommands
    <3>2. CASE UNCHANGED groupNsCommStatus
      BY <3>1, <3>2
    <3>3. CASE groupNsCommStatus' = TRUE \/ groupNsCommStatus' = FALSE
      <4>1. groupNsCommStatus' \in BOOLEAN
        BY <3>3, Zenon
      <4> QED
        BY <3>1, <4>1
    <3> QED
      BY <1>5, <3>2, <3>3 DEF BgCommands
  <2>2. CASE Listening
    <3>1. Listening'
      BY <1>5, <2>2 DEF BgCommands
    <3> QED
      BY <2>1, <3>1
  <2>3. CASE Heeding
    <3>1. Heeding'
      BY <1>5, <2>3 DEF BgCommands
    <3> QED
      BY <2>1, <3>1
  <2>4. CASE LaunchStopped
    <3>1. LaunchStopped' \/ Killing'
      BY <1>5, <2>4 DEF BgCommands
    <3> QED
      BY <2>1, <3>1
  <2>5. CASE ExecStopped
    <3>1. ExecStopped' \/ Cleaning'
      BY <1>5, <2>5 DEF BgCommands
    <3> QED
      BY <2>1, <3>1
  <2>6. CASE CleanFailed
    <3>1. CleanFailed'
      BY <1>5, <2>6 DEF BgCommands
    <3> QED
      BY <2>1, <3>1
  <2> QED
    BY <1>5, <2>2, <2>3, <2>4, <2>5, <2>6 DEF BgCommands
<1>6. CASE BgKills
  BY <1>6 DEF BgKills, BgErrs
<1>7. CASE BgKilled
  BY <1>7 DEF BgKilled
<1>8. CASE BgCleans
  BY <1>8 DEF BgCleans, BgErrs
<1>9. CASE BgCleaned
  BY <1>9 DEF BgCleaned
<1>10. CASE BgResets
  <2>1. HostInv' /\ TypeInv'
    BY <1>10 DEF BgResets, AfterClean
  <2>2. Resetting
    BY <1>10 DEF BgResets
  <2>3. Resetting'
    BY <1>10, <2>2 DEF BgResets, AfterClean
  <2> QED
    BY <2>1, <2>3
<1>11. CASE BgForgets
  <2>1. HostInv' /\ TypeInv'
    BY <1>11 DEF BgForgets
  <2>2. Resetting => Listening'
    BY <1>11 DEF BgForgets
  <2>3. CleanFailed => CleanFailed'
    BY <1>11 DEF BgForgets
  <2> QED
    BY <1>11, <2>1, <2>2, <2>3 DEF BgForgets
<1>12. CASE BgEndsLaunch
  BY <1>12 DEF BgEndsLaunch
<1>13. CASE BgUnlaunches
  <2>1. HostInv' /\ TypeInv'
    BY <1>13 DEF BgUnlaunches
  <2>2. Resetting
    BY <1>13 DEF BgUnlaunches
  <2>3. Resetting'
    BY <1>13, <2>2 DEF BgUnlaunches
  <2> QED
    BY <2>1, <2>3
<1>14. CASE BgUnanswers
  <2>1. HostInv' /\ TypeInv'
    BY <1>14 DEF BgUnanswers
  <2>2. Resetting
    BY <1>14 DEF BgUnanswers
  <2>3. Resetting'
    BY <1>14, <2>2 DEF BgUnanswers
  <2> QED
    BY <2>1, <2>3
<1> QED
  BY <1>1, <1>2, <1>3, <1>4, <1>5, <1>6, <1>7, <1>8, <1>9, <1>10, <1>11, <1>12, <1>13, <1>14

LEMMA RecoveryInit == Init => RecoveryInv
<1> SUFFICES ASSUME Init PROVE RecoveryInv
  OBVIOUS
<1>1. HostInv
  BY DEF Init, HostInv, CmdOf
<1>2. TypeInv
  BY DEF Init, TypeInv, Statuses
<1>3. Listening
  BY DEF Init, Serving, Starting, Announced, Listening, Looping
<1>4. missed \in BOOLEAN
  BY DEF Init
<1> QED
  BY <1>1, <1>2, <1>3, <1>4 DEF RecoveryInv, OnCourse, Stage

\* An operator that is missed stays missed.
LEMMA MissedStays ==
    ASSUME missed \in BOOLEAN, [Next]_vars
    PROVE  missed' \in BOOLEAN /\ (missed => missed')
<1>1. \/ UNCHANGED missed
      \/ Misses(Ending) \/ Misses(~OpIsLaunched /\ Starting) \/ Misses(Announced)
  BY DEF Next, vars, Suspend, HostCall, StopExecReads, HostSends, CleanReads, HostPolls,
         HostTimeout, Resume, Device, OpEnters, OpStep, OpAdmits, OpInit, OpBegins, OpOpens,
         OpHeeds, OpEndsLaunch, OpLaunches, OpEnds, OpFails, OpCloses, OpStops, OpMarks,
         OpResponds, TasksFinish, BgStep, BgRest, BgReads, BgChecks, BgAnswers, BgMarks,
         BgEndsLaunch, BgCommands, BgKills, BgKilled, BgCleans, BgCleaned, BgResets,
         BgUnlaunches, BgUnanswers, BgForgets
<1> QED
  BY <1>1, Zenon DEF Misses

LEMMA RecoveryKeeps == RecoveryInv /\ [Next]_vars => RecoveryInv'
<1> SUFFICES ASSUME RecoveryInv, [Next]_vars PROVE RecoveryInv'
  OBVIOUS
<1>1. missed' \in BOOLEAN /\ (missed => missed')
  BY MissedStays DEF RecoveryInv
<1>2. ASSUME ~missed' PROVE OnCourse'
  <2>1. OnCourse
    BY <1>1, <1>2 DEF RecoveryInv
  <2>2. CASE UNCHANGED vars
    BY <2>1, <2>2 DEF vars, host, operator, background, flags, OnCourse, HostInv, TypeInv,
                Stage, Serving, Starting, Announced, Ending, Listening, Heeding, Answering,
                LaunchStopped, Killing, ExecStopped, Cleaning, CleanFailed, Resetting, Held,
                Looping
  <2>3. CASE Next
    BY <1>2, <2>1, <2>3, HostKeeps, OpKeeps, BgKeeps DEF Next, HostCall, OpStep, BgStep
  <2> QED
    BY <2>2, <2>3
<1> QED
  BY <1>1, <1>2 DEF RecoveryInv

\* Until one is missed, an operator the host can reach is announced, and not deaf.
THEOREM Listens == Spec => []OperatorListens
<1>1. RecoveryInv => OperatorListens
  BY DEF RecoveryInv, OnCourse, OperatorListens, Stage, Serving, Starting, Announced,
         Listening, Heeding, Answering, LaunchStopped, Killing, ExecStopped, Cleaning,
         CleanFailed, Resetting, Held
<1> QED
  BY <1>1, RecoveryInit, RecoveryKeeps, PTL DEF Spec

----------------------------------------------------------------------------
\* The promise is about these.
Seen == <<Phase, Busy, streams, missed>>

\* What the stages say about an answer.
LEMMA AnswersMean ==
    ASSUME OnCourse
    PROVE  /\ hpc = "suspending" /\ status = "kStoplaunch" => ~Busy
           /\ hpc = "stopping" /\ status \in {"kStopExec", "kEnd"} => streams = "killed"
           /\ hpc = "cleaning" /\ status \in {"kClear", "kEnd"} => streams = "empty"
           /\ hpc = "suspended" => status = "kStoplaunch"
           /\ hpc = "stopped" => status = "kStopExec"
           /\ opc = "init" => Phase \in {"running", "suspending", "unanswered"} /\ ~endStopLaunch
           /\ opc = "LAUNCH" => streams # "killed"
           /\ bpc = "kill" => Phase \in {"suspended", "failed"}
           /\ bpc = "clean" => Phase \in {"stopped", "failed"} /\ streams = "killed"
<1> USE DEF OnCourse, HostInv, CmdOf, Busy, Phase, Stage, Serving, Starting, Announced, Ending,
            Listening, Heeding, Answering, LaunchStopped, Killing, ExecStopped, Cleaning,
            CleanFailed, Resetting, Held, Looping
<1>1. /\ hpc = "suspending" /\ status = "kStoplaunch" => ~Busy
      /\ hpc = "suspended" => status = "kStoplaunch"
  OBVIOUS
<1>2. /\ hpc = "stopping" /\ status \in {"kStopExec", "kEnd"} => streams = "killed"
      /\ hpc = "stopped" => status = "kStopExec"
  OBVIOUS
<1>3. hpc = "cleaning" /\ status \in {"kClear", "kEnd"} => streams = "empty"
  OBVIOUS
<1>4. opc = "init" => Phase \in {"running", "suspending", "unanswered"} /\ ~endStopLaunch
  OBVIOUS
<1>5. opc = "LAUNCH" => streams # "killed"
  OBVIOUS
<1>6. bpc = "kill" => Phase \in {"suspended", "failed"}
  OBVIOUS
<1>7. bpc = "clean" => Phase \in {"stopped", "failed"} /\ streams = "killed"
  OBVIOUS
<1> QED
  BY <1>1, <1>2, <1>3, <1>4, <1>5, <1>6, <1>7

\* Every step of the host is one of the promise, or changes nothing it sees.
LEMMA HostImplements ==
    ASSUME OnCourse,
           Suspend \/ HostCall \/ HostTimeout
    PROVE  [Promise!Keep]_Seen /\ UNCHANGED missed
<1> USE AnswersMean DEF OnCourse, HostInv, CmdOf, HostGoto, Device, operator, background,
        flags, Phase, Seen, Promise!Keep, Promise!Goto, Answers, Answered
<1>0. UNCHANGED <<Busy, streams, missed>>
  BY DEF Suspend, HostCall, HostTimeout, StopExecReads, CleanReads, HostSends, HostPolls,
         Resume, Busy
<1>1. CASE Suspend
  BY <1>0, <1>1 DEF Suspend, Promise!Suspend
<1>2. CASE StopExecReads
  BY <1>0, <1>2 DEF StopExecReads
<1>3. CASE HostSends("stop", "NsStopExec", "stopping")
  BY <1>0, <1>3 DEF HostSends
<1>4. CASE CleanReads
  BY <1>0, <1>4 DEF CleanReads
<1>5. CASE HostSends("clean", "NsClear", "cleaning")
  BY <1>0, <1>5 DEF HostSends
<1>6. CASE HostPolls
  <2>1. CASE hpc' = "failed"
    BY <1>0, <1>6, <2>1 DEF HostPolls, Promise!Fail
  <2>2. CASE hpc = "suspending" /\ hpc' # "failed"
    BY <1>0, <1>6, <2>2 DEF HostPolls, Promise!Hold
  <2>3. CASE hpc = "stopping" /\ hpc' # "failed"
    BY <1>0, <1>6, <2>3 DEF HostPolls, Promise!Stopped
  <2>4. CASE hpc = "cleaning" /\ hpc' # "failed"
    BY <1>0, <1>6, <2>4 DEF HostPolls, Promise!Cleaned
  <2> QED
    BY <1>6, <2>1, <2>2, <2>3, <2>4 DEF HostPolls
<1>7. CASE Resume
  BY <1>0, <1>7 DEF Resume, Promise!Resume
<1>8. CASE HostTimeout
  BY <1>0, <1>8 DEF HostTimeout, Promise!Fail
<1> QED
  BY <1>0, <1>1, <1>2, <1>3, <1>4, <1>5, <1>6, <1>7, <1>8 DEF HostCall

\* So is every step of the device that misses no operator.
LEMMA DeviceImplements ==
    ASSUME OnCourse, UNCHANGED missed,
           OpEnters \/ OpStep \/ OpFails \/ TasksFinish \/ BgStep
    PROVE  [Promise!Keep]_Seen
<1> USE AnswersMean DEF OpGoto, OpRest, BgGoto, BgRest, host, operator, background, flags
<1>0. UNCHANGED Phase
  BY DEF OpEnters, OpStep, OpFails, TasksFinish, BgStep, OpAdmits, OpInit, OpBegins, OpOpens,
         OpHeeds, OpEndsLaunch, OpLaunches, OpEnds, OpCloses, OpStops, OpMarks, OpResponds,
         BgReads, BgChecks, BgAnswers, BgMarks, BgEndsLaunch, BgCommands, BgKills, BgErrs,
         BgKilled, BgCleans, BgCleaned, BgResets, BgUnlaunches, BgUnanswers, BgForgets, Phase
<1>1. CASE OpInit
  BY <1>0, <1>1 DEF OpInit, Busy, Promise!Keep, Promise!Start
<1>2. CASE OpHeeds \/ OpEnds \/ OpFails
  BY <1>0, <1>2 DEF OpHeeds, OpEnds, OpFails, Busy, Promise!Keep, Promise!End
<1>3. CASE OpLaunches
  BY <1>0, <1>3 DEF OpLaunches, Busy, Promise!Keep, Promise!Launch
<1>4. CASE TasksFinish
  BY <1>0, <1>4 DEF TasksFinish, Busy, Promise!Keep, Promise!Finish
<1>5. CASE \/ OpEnters \/ OpAdmits \/ OpBegins \/ OpOpens \/ OpEndsLaunch \/ OpCloses
           \/ OpStops \/ OpMarks \/ OpResponds
  BY <1>0, <1>5 DEF OpEnters, OpAdmits, OpBegins, OpOpens, OpEndsLaunch, OpCloses, OpStops,
                    OpMarks, OpResponds, Busy, Seen
<1>6. CASE BgKills
  BY <1>0, <1>6 DEF BgKills, BgErrs, Busy, Seen, Promise!Keep, Promise!Kill
<1>7. CASE BgCleans
  BY <1>0, <1>7 DEF BgCleans, BgErrs, Busy, Seen, Promise!Keep, Promise!Clean
<1>8. CASE \/ BgReads \/ BgChecks \/ BgAnswers \/ BgMarks \/ BgEndsLaunch \/ BgCommands
           \/ BgKilled \/ BgCleaned \/ BgResets \/ BgUnlaunches \/ BgUnanswers \/ BgForgets
  BY <1>0, <1>8 DEF BgReads, BgChecks, BgAnswers, BgMarks, BgEndsLaunch, BgCommands, BgKilled,
                    BgCleaned, BgResets, BgUnlaunches, BgUnanswers, BgForgets, Busy, Seen
<1> QED
  BY <1>1, <1>2, <1>3, <1>4, <1>5, <1>6, <1>7, <1>8 DEF OpStep, BgStep

\* A step that misses an operator does no harm yet.
LEMMA MissImplements ==
    ASSUME missed \in BOOLEAN, ~missed, Next, missed'
    PROVE  Promise!Miss
<1>1. missed' \in BOOLEAN
  BY MissedStays
<1>2. OpHeeds \/ BgChecks \/ BgUnlaunches
  BY DEF Next, Suspend, HostCall, StopExecReads, HostSends, CleanReads, HostPolls,
         HostTimeout, Resume, Device, OpEnters, OpStep, OpAdmits, OpInit, OpBegins, OpOpens,
         OpEndsLaunch, OpLaunches, OpEnds, OpFails, OpCloses, OpStops, OpMarks,
         OpResponds, TasksFinish, BgStep, BgRest, BgReads, BgAnswers, BgMarks,
         BgEndsLaunch, BgCommands, BgKills, BgKilled, BgCleans, BgCleaned, BgResets,
         BgUnanswers, BgForgets
<1>3. UNCHANGED <<Phase, streams>>
  BY <1>2 DEF OpHeeds, BgChecks, BgUnlaunches, OpRest, host, Phase
<1> QED
  BY <1>1, <1>3 DEF Promise!Miss

LEMMA PromiseInit == Init => Promise!Init
BY DEF Init, Promise!Init, Phase, Busy

LEMMA PromiseSteps == RecoveryInv /\ [Next]_vars => [Promise!Next]_(Promise!vars)
<1> SUFFICES ASSUME RecoveryInv, [Next]_vars PROVE [Promise!Next]_(Promise!vars)
  OBVIOUS
<1>1. missed \in BOOLEAN /\ missed' \in BOOLEAN /\ (missed => missed')
  BY MissedStays DEF RecoveryInv
<1>2. CASE UNCHANGED vars
  BY <1>2 DEF vars, host, operator, Phase, Busy, Promise!vars
<1>3. CASE missed
  BY <1>1, <1>3 DEF Promise!Next, Promise!Miss
<1>4. CASE Next /\ ~missed /\ missed'
  BY <1>1, <1>4, MissImplements DEF Promise!Next
<1>5. CASE Next /\ ~missed'
  <2>1. OnCourse /\ UNCHANGED missed /\ missed = FALSE
    BY <1>1, <1>5 DEF RecoveryInv
  <2>2. [Promise!Keep]_Seen
    BY <1>5, <2>1, HostImplements, DeviceImplements DEF Next
  <2> QED
    BY <2>1, <2>2 DEF Seen, Promise!vars, Promise!Next
<1> QED
  BY <1>1, <1>2, <1>3, <1>4, <1>5

\* From the answer to Suspend to Resume no operator runs, the streams are killed
\* when StopExec has returned and empty when Clean has, in every recovery, until an
\* operator is missed.
THEOREM Promised == Spec => RecoverySpec
BY RecoveryInit, RecoveryKeeps, PromiseInit, PromiseSteps, PTL
   DEF Spec, RecoverySpec, Promise!Spec
=============================================================================
