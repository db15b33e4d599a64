---------------------------- MODULE TimersProofs ----------------------------
(***************************************************************************)
(* What Timers keeps, for every interval, window, allowance and lifetime   *)
(* that stand to each other as the assumptions say.  The poll schedule and *)
(* the session are proved apart; their composition implements both.        *)
(***************************************************************************)
EXTENDS Timers, TLAPS

(***************************************************************************)
(* The poll schedule.                                                      *)
(***************************************************************************)
(* Overrides and delays are never shorter than the margin, which is what   *)
(* covers the end of a window that the clock of the process takes for past.*)
DelaysBounded ==
  /\ override \in 0..(DayLimit + Margin) /\ (override = 0 \/ override >= Margin)
  /\ delay \in 0..BackoffMax /\ (delay = 0 \/ delay >= Margin)

(* Without an open window X's counts are fresh; the remaining count of an  *)
(* answer is X's own as long as the window it is of is open.               *)
CountsTrue ==
  /\ reset = 0 => left = Allowance /\ slips = 0 /\ ~limited
  /\ (poll = "answer" /\ answer.kind = "ok" /\ reset > 0) => answer.remaining = left

Spare == left + slips >= 2

(* Either a request is to spare, or the loop sleeps until the window ends. *)
SpareOrParked ==
  /\ left + slips >= 1
  /\ poll = "off" => Spare
  /\ poll = "sleep" => Spare \/ sleep >= reset
  /\ (poll = "answer" /\ answer.kind # "ok") => Spare
  /\ poll = "emit" => Spare \/ reset <= Margin \/ override >= reset

(* A refusal is being read, or the loop sleeps as long as it asks.         *)
RefusalHeeded ==
  /\ quiet <= HumanPause
  /\ quiet > 0 => \/ poll = "answer" /\ answer.kind = "refused"
                  \/ poll = "sleep" /\ sleep >= quiet

ScheduleInv == /\ ScheduleTypeOK /\ DelaysBounded /\ CountsTrue
               /\ SpareOrParked /\ RefusalHeeded /\ KeepsAllowance

LEMMA ScheduleConstants ==
  /\ Interval \in Nat \ {0} /\ BackoffBase \in Nat \ {0}
  /\ BackoffMax \in Nat \ {0} /\ Window \in Nat \ {0} /\ HumanPause \in Nat
  /\ DayLimit \in Nat /\ Margin \in Nat /\ Allowance \in Nat /\ MaxSkew \in Nat
  /\ MaxSlips \in Nat /\ Allowance \in 0..Allowance
  BY ScheduleAssumption

LEMMA QuarterMonotone ==
  ASSUME NEW m \in Nat, NEW n \in Nat, n <= m
  PROVE  n \div 4 \in Nat /\ m \div 4 \in Nat /\ n \div 4 <= m \div 4
  BY SMT

LEMMA Growth ==
  ASSUME delay \in 0..BackoffMax, delay = 0 \/ delay >= Margin
  PROVE  /\ Grow(delay) \in 1..BackoffMax /\ Grow(delay) >= Margin
         /\ Grow(delay) \div 4 \in Nat /\ BackoffMax \div 4 \in Nat
         /\ Grow(delay) \div 4 <= BackoffMax \div 4
  <1>1. Grow(delay) \in 1..BackoffMax /\ Grow(delay) >= Margin
    BY ScheduleConstants, WindowAssumption, SMT DEF Grow, Least
  <1> QED BY <1>1, QuarterMonotone, ScheduleConstants

LEMMA ScheduleStarts == ScheduleInit => ScheduleInv
  <1> SUFFICES ASSUME ScheduleInit PROVE ScheduleInv
    OBVIOUS
  <1>1. SleepBounded
    <2>1. Interval \in LongestSleep /\ sleep \in 0..Interval
      BY ScheduleConstants DEF ScheduleInit, LongestSleep
    <2> QED BY <2>1 DEF SleepBounded
  <1>2. answer \in Answers
    BY DEF ScheduleInit, Answers, Failure
  <1>3. ScheduleTypeOK
    <2>1. limited \in BOOLEAN
      BY DEF ScheduleInit
    <2>2. /\ poll \in {"sleep", "answer", "emit", "off"}
          /\ sleep \in Nat /\ override \in Nat /\ slips \in Nat /\ quiet \in Nat
          /\ delay \in 0..BackoffMax /\ skew \in 0..MaxSkew
          /\ left \in 0..Allowance /\ reset \in 0..Window
      BY ScheduleConstants DEF ScheduleInit
    <2> QED BY <1>1, <1>2, <2>1, <2>2 DEF ScheduleTypeOK
  <1>4. DelaysBounded /\ RefusalHeeded /\ KeepsAllowance
    BY ScheduleConstants DEF ScheduleInit, DelaysBounded, RefusalHeeded, KeepsAllowance
  <1>5. CountsTrue /\ SpareOrParked
    BY ScheduleConstants, WindowAssumption
       DEF ScheduleInit, CountsTrue, SpareOrParked, Spare
  <1> QED BY <1>1, <1>3, <1>4, <1>5 DEF ScheduleInv

(* A sleep of a length the code names, and what is left of one.            *)
LEMMA SleepChosen ==
  ASSUME NEW d \in LongestSleep, sleep' \in 0..d
  PROVE  SleepBounded' /\ sleep' \in Nat
  BY ScheduleConstants DEF SleepBounded, LongestSleep

LEMMA SleepShrinks ==
  ASSUME SleepBounded, sleep \in Nat, sleep' \in 0..sleep
  PROVE  SleepBounded' /\ sleep' \in Nat
  <1>1. PICK d \in LongestSleep : sleep \in 0..d
    BY DEF SleepBounded
  <1>2. d \in Nat
    BY ScheduleConstants DEF LongestSleep
  <1> QED BY <1>1, <1>2, SleepChosen

(* What PollLoop's error branch sleeps.                                    *)
LEMMA FailureSleeps ==
  ASSUME NEW asked \in Nat, asked = HumanPause \/ asked \in 0..(DayLimit + Margin),
         DelaysBounded, PollFailed(asked)
  PROVE  /\ SleepBounded' /\ sleep' \in Nat /\ poll' = "sleep"
         /\ sleep' >= asked /\ sleep' >= Margin
         /\ delay' \in 0..BackoffMax /\ (delay' = 0 \/ delay' >= Margin)
  <1>1. PICK jitter \in 0..(delay' \div 4) :
          SleepFor(IF asked > delay' + jitter THEN asked ELSE delay' + jitter)
    BY DEF PollFailed
  <1>2. /\ delay' \in 1..BackoffMax /\ delay' >= Margin /\ BackoffMax \div 4 \in Nat
        /\ delay' \div 4 \in Nat /\ delay' \div 4 <= BackoffMax \div 4
    BY Growth DEF PollFailed, DelaysBounded
  <1> DEFINE most == BackoffMax \div 4
             backoff == delay' + jitter
  <1>a. jitter \in Nat /\ jitter <= most /\ most \in Nat
    <2> DEFINE quarter == delay' \div 4
    <2>1. quarter \in Nat /\ most \in Nat /\ quarter <= most /\ jitter \in 0..quarter
      BY <1>2
    <2> HIDE DEF quarter, most
    <2> QED BY <2>1
  <1>b. backoff \in Nat /\ backoff >= Margin /\ backoff <= BackoffMax + most
    <2>1. delay' \in Nat /\ delay' <= BackoffMax /\ delay' >= Margin
      BY <1>2, ScheduleConstants
    <2>2. ASSUME NEW d \in Nat, NEW j \in Nat, NEW m \in Nat,
                 d <= BackoffMax, d >= Margin, j <= m
          PROVE  d + j \in Nat /\ d + j >= Margin /\ d + j <= BackoffMax + m
      BY <2>2, ScheduleConstants
    <2> HIDE DEF most
    <2> QED BY <2>1, <2>2, <1>a
  <1>c. sleep' = IF asked > backoff THEN asked ELSE backoff
    BY <1>1 DEF SleepFor
  <1>3. /\ sleep' \in Nat /\ sleep' >= asked /\ sleep' >= Margin
        /\ sleep' = asked \/ sleep' <= BackoffMax + most
    <2> HIDE DEF most, backoff
    <2> QED BY <1>b, <1>c, ScheduleConstants
  <1>4. SleepBounded'
    <2>1. CASE sleep' = asked
      <3>1. \E d \in LongestSleep : sleep' \in 0..d
        BY <2>1, ScheduleConstants DEF LongestSleep
      <3> QED BY <3>1, SleepChosen
    <2>2. CASE sleep' <= BackoffMax + most
      <3>1. BackoffMax + BackoffMax \div 4 \in LongestSleep
        BY DEF LongestSleep
      <3>2. sleep' \in 0..(BackoffMax + BackoffMax \div 4)
        <4> HIDE DEF most
        <4> DEFINE top == BackoffMax + most
        <4>1. top \in Nat /\ sleep' \in 0..top
          BY <2>2, <1>a, <1>3, ScheduleConstants
        <4> QED BY <4>1 DEF most
      <3> QED BY <3>1, <3>2, SleepChosen
    <2> QED BY <1>3, <2>1, <2>2
  <1>5. delay' \in 0..BackoffMax
    BY <1>2, ScheduleConstants
  <1> QED BY <1>1, <1>2, <1>3, <1>4, <1>5 DEF SleepFor

LEMMA ScheduleStep == ScheduleInv /\ [ScheduleNext]_scheduleVars => ScheduleInv'
  <1> SUFFICES ASSUME ScheduleInv, [ScheduleNext]_scheduleVars PROVE ScheduleInv'
    OBVIOUS
  <1> USE ScheduleConstants, WindowAssumption
          DEF ScheduleInv, ScheduleTypeOK, DelaysBounded, CountsTrue, Spare,
              SpareOrParked, RefusalHeeded, KeepsAllowance
  <1>0. sleep' = sleep => SleepBounded'
    BY SleepShrinks
  <1>1. CASE RequestServed
    BY <1>0, <1>1 DEF RequestServed, Request, Counted, Answers
  <1>2. CASE RequestRefused
    BY <1>0, <1>2 DEF RequestRefused, Request, Counted, CountedUnseen, Answers, Failure
  <1>3. CASE RequestLost
    BY <1>0, <1>3 DEF RequestLost, Request, Counted, CountedUnseen, Answers, Failure
  <1>4. CASE RequestLimited
    BY <1>0, <1>4 DEF RequestLimited, Request, Answers, Failure
  <1>5. CASE ReadAnswer
    <2>1. reset > 0 => answer.remaining = left
      BY <1>5 DEF ReadAnswer
    <2>2. /\ override' \in 0..(DayLimit + Margin)
          /\ override' = 0 \/ override' >= Margin
      BY <1>5 DEF ReadAnswer, WaitUntilReset, Less
    <2>3. Spare \/ reset <= Margin \/ override' >= reset
      BY <1>5, <2>1 DEF ReadAnswer, WaitUntilReset, Less
    <2> QED BY <1>0, <1>5, <2>2, <2>3 DEF ReadAnswer, xVars
  <1>6. CASE ReadFailure
    <2> DEFINE asked == IF answer.kind = "refused" THEN HumanPause ELSE 0
    <2>1. /\ SleepBounded' /\ sleep' \in Nat /\ poll' = "sleep"
          /\ sleep' >= asked /\ sleep' >= Margin
          /\ delay' \in 0..BackoffMax /\ (delay' = 0 \/ delay' >= Margin)
      BY <1>6, FailureSleeps DEF ReadFailure
    <2> QED BY <1>6, <2>1 DEF ReadFailure, xVars
  <1>7. CASE PollReturns
    <2>1. CASE PollSucceeded(override)
      <3>1. SleepBounded' /\ sleep' \in Nat
        <4>1. \E d \in LongestSleep : sleep' \in 0..d
          BY <2>1 DEF PollSucceeded, SleepFor, LongestSleep
        <4> QED BY <4>1, SleepChosen
      <3> QED BY <1>7, <2>1, <3>1 DEF PollReturns, PollSucceeded, SleepFor, xVars
    <2>2. CASE PollFailed(override)
      <3>1. /\ SleepBounded' /\ sleep' \in Nat /\ poll' = "sleep"
            /\ sleep' >= override /\ sleep' >= Margin
            /\ delay' \in 0..BackoffMax /\ (delay' = 0 \/ delay' >= Margin)
        BY <2>2, FailureSleeps
      <3> QED BY <1>7, <3>1 DEF PollReturns, xVars
    <2> QED BY <1>7, <2>1, <2>2 DEF PollReturns
  <1>8. CASE ScheduleTick
    <2>1. /\ sleep' \in 0..sleep /\ sleep' >= sleep - 1
          /\ quiet' \in Nat /\ quiet' <= quiet /\ quiet' <= Less(quiet, 1)
      BY <1>8 DEF ScheduleTick, Less
    <2>2. SleepBounded' /\ sleep' \in Nat
      BY <2>1, SleepShrinks
    <2>3. CASE reset = 1
      <3>1. /\ reset' = 0 /\ left' = Allowance /\ slips' = 0 /\ limited' = FALSE
            /\ UNCHANGED <<poll, delay, override, answer, skew>>
        BY <1>8, <2>3 DEF ScheduleTick, WindowPasses, Less
      <3>2. RefusalHeeded'
        BY <1>8, <2>1, <3>1 DEF ScheduleTick, Less
      <3>3. CountsTrue' /\ SpareOrParked' /\ KeepsAllowance' /\ DelaysBounded'
        BY <3>1
      <3>4. limited' \in BOOLEAN
        BY <3>1
      <3>5. /\ left' \in 0..Allowance /\ reset' \in 0..Window /\ slips' \in Nat
            /\ quiet' \in Nat
        BY <2>1, <3>1
      <3>6. ScheduleTypeOK'
        BY <2>2, <3>1, <3>4, <3>5
      <3> QED BY <3>2, <3>3, <3>6
    <2>4. CASE reset # 1
      BY <1>8, <2>1, <2>2, <2>4 DEF ScheduleTick, WindowPasses, Less
    <2> QED BY <2>3, <2>4
  <1>9. CASE ScheduleStop
    <2>1. SleepBounded' /\ sleep' \in Nat
      BY <1>9, SleepShrinks DEF ScheduleStop
    <2> QED BY <1>9, <2>1 DEF ScheduleStop, xVars
  <1>10. CASE ScheduleStart
    <2>1. SleepBounded' /\ sleep' \in Nat
      BY <1>10, SleepShrinks DEF ScheduleStart, SleepFor
    <2> QED BY <1>10, <2>1 DEF ScheduleStart, SleepFor, xVars
  <1>11. CASE UNCHANGED scheduleVars
    BY <1>0, <1>11 DEF scheduleVars, loopVars, xVars
  <1> QED BY <1>1, <1>2, <1>3, <1>4, <1>5, <1>6, <1>7, <1>8, <1>9, <1>10, <1>11
          DEF ScheduleNext, PollStep

(***************************************************************************)
(* The session.                                                            *)
(***************************************************************************)
(* Time since the ticker fired, or since the start.                        *)
Elapsed == RefreshInterval - ticker

(* Where the loop is in its renewal says how long ago the ticker fired, so *)
(* a tick is never dropped.                                                *)
RenewalInTime ==
  /\ ticked => loop = "select" /\ Elapsed = 0
  /\ loop = "refresh" => Elapsed <= spent
  /\ loop = "login" => Elapsed <= RequestTime + spent
  /\ loop = "off" => using = NoRequest

(* Intervals that have passed over the session besides the current one.    *)
Behind == IF loop = "select" /\ ~ticked THEN 0 ELSE RefreshInterval

(* A session is as old as the renewals missed since make it, and a request *)
(* adds its own time.                                                      *)
AgesBounded ==
  /\ loop # "off" /\ session.missed = 0 =>
       session.age <= Behind + Elapsed + RequestTime
  /\ loop # "off" /\ session.missed = 1 =>
       session.age <= RefreshInterval + Behind + Elapsed + RequestTime
  /\ using.missed < 2 =>
       using.age <= 2 * RefreshInterval + 3 * RequestTime + busy

SessionInv == SessionTypeOK /\ RenewalInTime /\ AgesBounded

LEMMA SessionConstants ==
  /\ RefreshInterval \in Nat \ {0} /\ Lifetime \in Nat /\ RequestTime \in Nat
  BY SessionAssumption

LEMMA SessionStarts == SessionInit => SessionInv
  <1> SUFFICES ASSUME SessionInit PROVE SessionInv
    OBVIOUS
  <1>1. Lifetime \in 0..Lifetime /\ 0 \in 0..2 /\ 0 \in 0..RequestTime
        /\ RefreshInterval \in 1..RefreshInterval
    BY SessionConstants
  <1>2. session \in Sessions
    BY <1>1 DEF SessionInit, Sessions
  <1>3. SessionTypeOK
    BY <1>1, <1>2 DEF SessionInit, SessionTypeOK
  <1>4. loop = "off" /\ using = NoRequest /\ ~ticked
    BY DEF SessionInit
  <1> QED BY <1>3, <1>4 DEF SessionInv, RenewalInTime, AgesBounded, NoRequest

LEMMA SessionStep == SessionInv /\ [SessionNext]_sessionVars => SessionInv'
  <1> SUFFICES ASSUME SessionInv, [SessionNext]_sessionVars PROVE SessionInv'
    OBVIOUS
  <1> USE SessionConstants, LifetimeAssumption
          DEF SessionInv, SessionTypeOK, RenewalInTime, AgesBounded, Elapsed, Behind,
              Sessions, NoRequest
  <1>0. 0 \in 0..RequestTime /\ FALSE \in BOOLEAN
    OBVIOUS
  <1>1. CASE Wake
    <2>1. ticked' = FALSE /\ ticked = TRUE
      BY <1>1 DEF Wake
    <2>2. SessionTypeOK'
      BY <1>0, <1>1, <2>1 DEF Wake
    <2>3. RenewalInTime'
      BY <1>1, <2>1 DEF Wake
    <2>4. AgesBounded'
      BY <1>1, <2>1 DEF Wake
    <2> QED BY <2>2, <2>3, <2>4
  <1>2. CASE Renewed
    BY <1>2 DEF Renewed, SetSession
  <1>3. CASE RefreshFails
    BY <1>3 DEF RefreshFails
  <1>4. CASE LoginFails
    BY <1>4 DEF LoginFails
  <1>5. CASE Send
    BY <1>5 DEF Send
  <1>6. CASE Answered
    BY <1>6 DEF Answered
  <1>7. CASE SessionTick
    <2>1. ticked' \in BOOLEAN
      BY <1>7 DEF SessionTick
    <2>2. session' \in Sessions
      BY <1>7 DEF SessionTick, Older
    <2>3. using' \in Sessions \cup {NoRequest} /\ busy' \in 0..RequestTime
      BY <1>7 DEF SessionTick, Older
    <2>4. /\ ticker' \in 1..RefreshInterval /\ spent' \in 0..RequestTime
          /\ loop' \in {"select", "refresh", "login", "off"}
      BY <1>7 DEF SessionTick
    <2>5. RenewalInTime'
      <3>1. CASE loop # "off" /\ ticker = 1
        <4>1. loop = "select"
          BY <1>7, <3>1 DEF SessionTick
        <4>2. loop' = loop /\ ticker' = RefreshInterval
          BY <1>7, <3>1 DEF SessionTick
        <4> QED BY <4>1, <4>2
      <3>2. CASE ~(loop # "off" /\ ticker = 1)
        <4>1. ~ticked'
          BY <1>7, <3>2 DEF SessionTick
        <4> QED BY <1>7, <3>2, <4>1 DEF SessionTick
      <3> QED BY <3>1, <3>2
    <2>6. AgesBounded'
      BY <1>7 DEF SessionTick, Older
    <2> QED BY <2>1, <2>2, <2>3, <2>4, <2>5, <2>6
  <1>8. CASE SessionStop
    <2>1. ticked' = FALSE /\ loop' = "off" /\ using' = NoRequest
      BY <1>8 DEF SessionStop
    <2>2. SessionTypeOK'
      BY <1>0, <1>8, <2>1 DEF SessionStop
    <2> QED BY <2>1, <2>2
  <1>9. CASE SessionStart
    BY <1>9 DEF SessionStart
  <1>10. CASE UNCHANGED sessionVars
    BY <1>10 DEF sessionVars
  <1> QED BY <1>1, <1>2, <1>3, <1>4, <1>5, <1>6, <1>7, <1>8, <1>9, <1>10
          DEF SessionNext, LoopStep

(***************************************************************************)
(* The composition.                                                        *)
(***************************************************************************)
Inv == ScheduleInv /\ SessionInv

LEMMA StepOfBoth == [Next]_vars => [ScheduleNext]_scheduleVars /\ [SessionNext]_sessionVars
  BY DEF Next, vars, Tick, Stop, Start, ScheduleNext, SessionNext, scheduleVars, sessionVars

THEOREM Invariance == Spec => []Inv
  <1>1. Init => Inv
    BY ScheduleStarts, SessionStarts DEF Init, Inv
  <1>2. Inv /\ [Next]_vars => Inv'
    BY ScheduleStep, SessionStep, StepOfBoth DEF Inv
  <1> QED BY <1>1, <1>2, PTL DEF Spec

(* The two components are specifications of their own, and the process     *)
(* implements each.                                                        *)
THEOREM TimersImplement == Spec => ScheduleSpec /\ SessionSpec
  <1>1. Init => ScheduleInit /\ SessionInit
    BY DEF Init
  <1> QED BY <1>1, StepOfBoth, PTL DEF Spec, ScheduleSpec, SessionSpec

(* The variables of the poll schedule keep their types, and no sleep is    *)
(* longer than the longest delay in the code.                              *)
THEOREM ScheduleTypesCorrect == Spec => []ScheduleTypeOK
  <1>1. Inv => ScheduleTypeOK
    BY DEF Inv, ScheduleInv
  <1> QED BY <1>1, Invariance, PTL

(* The variables of the session keep their types: the ticker stays within  *)
(* its interval and no request outlasts the time a client gives it.        *)
THEOREM SessionTypesCorrect == Spec => []SessionTypeOK
  <1>1. Inv => SessionTypeOK
    BY DEF Inv, SessionInv
  <1> QED BY <1>1, Invariance, PTL

(* X refuses no request for its rate unless one window saw two restarts or *)
(* lost answers.                                                           *)
THEOREM AllowanceKept == Spec => []KeepsAllowance
  <1>1. Inv => KeepsAllowance
    BY DEF Inv, ScheduleInv
  <1> QED BY <1>1, Invariance, PTL

(* After a refusal for a reason retrying cannot fix, the listener rests.   *)
THEOREM RefusalsRespected == Spec => []RefusalRests
  <1>1. Inv => RefusalRests
    BY DEF Inv, ScheduleInv, RefusalHeeded, RefusalRests
  <1> QED BY <1>1, Invariance, PTL

(* No request carries an expired token unless two renewals in a row failed.*)
THEOREM SessionSurvives == Spec => []OutageSurvived
  <1>1. Inv => OutageSurvived
    <2> SUFFICES ASSUME SessionInv, using # NoRequest, Expired(using)
                 PROVE  using.missed = 2
      BY DEF Inv, OutageSurvived
    <2>1. using \in Sessions
      BY DEF SessionInv, SessionTypeOK
    <2> QED BY <2>1, SessionConstants, LifetimeAssumption
            DEF SessionInv, SessionTypeOK, AgesBounded, Sessions, Expired
  <1> QED BY <1>1, Invariance, PTL
=============================================================================
