------------------------------- MODULE Timers -------------------------------
(***************************************************************************)
(* What the process does by the clock: it polls X (PollSchedule) and keeps *)
(* its session with Bluesky (Session).  One clock, one process: a stop and *)
(* a start are those of both, and the process starts only with a session.  *)
(***************************************************************************)
EXTENDS PollSchedule, Session

vars == <<scheduleVars, sessionVars>>

Tick  == ScheduleTick /\ SessionTick
Stop  == ScheduleStop /\ SessionStop
Start == ScheduleStart /\ SessionStart

Init == ScheduleInit /\ SessionInit
Next == \/ PollStep /\ UNCHANGED sessionVars
        \/ (LoopStep \/ Send \/ Answered) /\ UNCHANGED scheduleVars
        \/ Tick \/ Stop \/ Start

(* The goroutines run, time goes on, the supervisor starts the process, an *)
(* answer comes or the request times out, and the sink is emptied.  The    *)
(* server does not fail every login for ever.                              *)
Fairness ==
  /\ WF_vars(Tick) /\ WF_vars(Start)
  /\ WF_vars(PollStep /\ UNCHANGED sessionVars)
  /\ WF_vars(LoopStep /\ UNCHANGED scheduleVars)
  /\ WF_vars(Answered /\ UNCHANGED scheduleVars)
  /\ SF_vars(loop = "login" /\ Renewed /\ UNCHANGED scheduleVars)

Spec == Init /\ [][Next]_vars /\ Fairness
=============================================================================
