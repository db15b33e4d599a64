---------------------------- MODULE PollSchedule ----------------------------
(***************************************************************************)
(* When a listener polls: PollLoop and Backoff of internal/platform/       *)
(* poll.go around one poll of internal/platform/twitter/inbound.go, which  *)
(* asks to be parked until a rate limit resets or a person has acted, and  *)
(* X's side of the rate limit.  The process may be restarted at any time,  *)
(* and forgets what it was waiting for; an answer may be lost, and with it *)
(* the count of requests that are left.  Module Poller says what a poll    *)
(* hands over; here it only takes its time.                                *)
(***************************************************************************)
EXTENDS Naturals

CONSTANTS
  Interval,     \* TwitterPollInterval
  BackoffBase,  \* of the Backoff in PollLoop
  BackoffMax,
  HumanPause,   \* humanActionPause
  DayLimit,     \* a reset further away is not waited for
  Margin,       \* the second added to the wait until a reset
  Window,       \* X: length of a rate limit window
  Allowance,    \* X: requests in a window
  MaxSkew,      \* how far the process's clock may be ahead of X's
  MaxSlips      \* bound: restarts and lost answers in one window

ASSUME ScheduleAssumption ==
  /\ {Interval, BackoffBase, BackoffMax, Window} \subseteq Nat \ {0}
  /\ {HumanPause, DayLimit, Margin, Allowance, MaxSkew, MaxSlips} \subseteq Nat
(* What the wait until a reset rests on.                                   *)
ASSUME WindowAssumption ==
  /\ MaxSkew <= Margin /\ Margin <= Interval
  /\ Margin <= BackoffBase /\ Margin <= BackoffMax
  /\ Window < DayLimit /\ Allowance >= 2

VARIABLES
  poll,     \* "sleep", "answer" (a request was served), "emit", "off"
  sleep,    \* what is left of platform.Sleep
  delay,    \* Backoff.Delay(failures) without jitter, 0 without failures
  override, \* wait, of the poll that is going on
  answer,   \* what X said
  skew,     \* how far the clock of the process is ahead
  left,     \* X: requests left in the window
  reset,    \* X: time until the window ends, 0 when none is open
  slips,    \* restarts and lost answers in this window
  limited,  \* X refused a request in this window for its rate
  quiet     \* time for which a refusal calls for quiet

loopVars == <<poll, sleep, delay, override, answer>>
xVars    == <<left, reset, limited>>
scheduleVars == <<loopVars, skew, xVars, slips, quiet>>

Least(a, b) == IF a < b THEN a ELSE b
Less(a, b)  == IF a > b THEN a - b ELSE 0

Answers == [kind : {"ok"}, remaining : Nat] \cup [kind : {"refused", "failed"}]
Failure(kind) == [kind |-> kind]

(***************************************************************************)
(* PollLoop and Backoff.                                                   *)
(***************************************************************************)
(* Mutated form: the delay grows without a cap.                            *)
GrowUncapped(d) == IF d = 0 THEN BackoffBase ELSE 2 * d

(* The delay for one failure more.                                         *)
Grow(d) == Least(BackoffMax, IF d = 0 THEN BackoffBase ELSE 2 * d)

SleepFor(d) == poll' = "sleep" /\ sleep' = d

(* Mutated forms: an error ends the loop; a failed poll's override is not  *)
(* looked at.                                                              *)
PollFailedForGood(asked) == delay' = 0 /\ poll' = "returned" /\ sleep' = asked

PollFailedBlindly(asked) ==
  /\ delay' = Grow(delay)
  /\ \E jitter \in 0..(delay' \div 4) : SleepFor(delay' + jitter)

PollFailed(asked) ==
  /\ delay' = Grow(delay)
  /\ \E jitter \in 0..(delay' \div 4) :
       SleepFor(IF asked > delay' + jitter THEN asked ELSE delay' + jitter)

PollSucceeded(asked) ==
  /\ delay' = 0
  /\ SleepFor(IF asked > 0 THEN asked ELSE Interval)

(***************************************************************************)
(* One poll.                                                               *)
(***************************************************************************)
(* A request that X counts opens a window when none is open.               *)
Counted == /\ left > 0 /\ left' = left - 1
           /\ reset' = IF reset = 0 THEN Window ELSE reset

Request == poll = "sleep" /\ sleep = 0 /\ poll' = "answer"

RequestServed ==
  /\ Request /\ Counted
  /\ answer' = [kind |-> "ok", remaining |-> left']
  /\ UNCHANGED <<sleep, delay, override, skew, limited, slips, quiet>>

(* X counts a request, and the loop does not learn what is left.           *)
CountedUnseen == Counted /\ slips < MaxSlips /\ slips' = slips + 1

(* 401, 402, 403.  X may count such a request or not.                      *)
RequestRefused ==
  /\ Request /\ answer' = Failure("refused") /\ quiet' = HumanPause
  /\ CountedUnseen \/ UNCHANGED <<left, reset, slips>>
  /\ UNCHANGED <<sleep, delay, override, skew, limited>>

(* The network loses the request or the answer, the store fails before it. *)
RequestLost ==
  /\ Request /\ answer' = Failure("failed")
  /\ CountedUnseen \/ UNCHANGED <<left, reset, slips>>
  /\ UNCHANGED <<sleep, delay, override, skew, limited, quiet>>

(* 429.                                                                    *)
RequestLimited ==
  /\ Request /\ left = 0 /\ limited' = TRUE /\ answer' = Failure("failed")
  /\ UNCHANGED <<sleep, delay, override, skew, left, reset, slips, quiet>>

(* Mutated form: wait only when nothing is left.                           *)
WaitUntilResetLate(remaining) ==
  LET until == Less(reset, skew)
  IN IF remaining <= 0 /\ until > 0 /\ until < DayLimit THEN until + Margin ELSE 0

(* time.Until(reset) by the clock of the process.                          *)
WaitUntilReset(remaining) ==
  LET until == Less(reset, skew)
  IN IF remaining <= 1 /\ until > 0 /\ until < DayLimit THEN until + Margin ELSE 0

ReadAnswer ==
  /\ poll = "answer" /\ answer.kind = "ok"
  /\ override' = WaitUntilReset(answer.remaining) /\ poll' = "emit"
  /\ UNCHANGED <<sleep, delay, answer, skew, xVars, slips, quiet>>

(* pauseForRefusal and PollLoop's error branch.                            *)
ReadFailure ==
  /\ poll = "answer" /\ answer.kind # "ok"
  /\ PollFailed(IF answer.kind = "refused" THEN HumanPause ELSE 0)
  /\ UNCHANGED <<override, answer, skew, xVars, slips, quiet>>

(* The posts are handed over and the cursor is saved, or cannot be.        *)
PollReturns ==
  /\ poll = "emit"
  /\ PollSucceeded(override) \/ PollFailed(override)
  /\ override' = 0
  /\ UNCHANGED <<answer, skew, xVars, slips, quiet>>

(***************************************************************************)
(* Time, and the process.                                                  *)
(***************************************************************************)
(* A new window's counts start with it.                                    *)
WindowPasses ==
  /\ reset' = Less(reset, 1)
  /\ IF reset = 1
     THEN left' = Allowance /\ slips' = 0 /\ limited' = FALSE
     ELSE UNCHANGED <<left, slips, limited>>

(* No time passes between the end of a sleep and the request.              *)
ScheduleTick ==
  /\ ~(poll = "sleep" /\ sleep = 0)
  /\ sleep' = Less(sleep, 1) /\ quiet' = Less(quiet, 1) /\ WindowPasses
  /\ UNCHANGED <<poll, delay, override, answer, skew>>

(* What the loop waited for is forgotten, which matters in a window.       *)
ScheduleStop ==
  /\ poll # "off"
  /\ poll' = "off" /\ sleep' = 0 /\ delay' = 0 /\ override' = 0 /\ quiet' = 0
  /\ IF reset = 0 THEN UNCHANGED slips
     ELSE slips < MaxSlips /\ slips' = slips + 1
  /\ UNCHANGED <<answer, skew, xVars>>

(* PollLoop calls the poll at once.                                        *)
ScheduleStart ==
  /\ poll = "off" /\ SleepFor(0)
  /\ UNCHANGED <<delay, override, answer, skew, xVars, slips, quiet>>

ScheduleInit ==
  /\ poll = "off" /\ sleep = 0 /\ delay = 0 /\ override = 0
  /\ answer = Failure("failed") /\ skew \in 0..MaxSkew
  /\ left = Allowance /\ reset = 0 /\ slips = 0 /\ limited = FALSE /\ quiet = 0

PollStep == \/ RequestServed \/ RequestRefused \/ RequestLost \/ RequestLimited
            \/ ReadAnswer \/ ReadFailure \/ PollReturns

ScheduleNext == PollStep \/ ScheduleTick \/ ScheduleStop \/ ScheduleStart

ScheduleSpec == ScheduleInit /\ [][ScheduleNext]_scheduleVars

(***************************************************************************)
(* What must hold.                                                         *)
(***************************************************************************)
LongestSleep ==
  {Interval, HumanPause, DayLimit + Margin, BackoffMax + BackoffMax \div 4}

SleepBounded == \E d \in LongestSleep : sleep \in 0..d

(* Types; no sleep is longer than the longest delay the code names.        *)
ScheduleTypeOK ==
  /\ poll \in {"sleep", "answer", "emit", "off"}
  /\ SleepBounded /\ sleep \in Nat
  /\ delay \in 0..BackoffMax /\ override \in Nat /\ answer \in Answers
  /\ skew \in 0..MaxSkew /\ left \in 0..Allowance /\ reset \in 0..Window
  /\ slips \in Nat /\ limited \in BOOLEAN /\ quiet \in Nat

(* The listener parks itself before the allowance of a window is used up,  *)
(* with one request to spare: X refuses a request for its rate only when   *)
(* in one window the process was restarted, or an answer was lost, twice.  *)
KeepsAllowance == limited => slips >= 2

(* After a refusal that only a person can lift, no request goes out for    *)
(* the whole pause, whatever the backoff says, unless the process starts   *)
(* anew.                                                                   *)
RefusalRests == poll = "sleep" /\ quiet > 0 => sleep >= quiet

(* However a poll ends, there is another: no answer parks the listener for *)
(* good, and no failure ends its loop.                                     *)
PollsAgain == []<>(poll \in {"answer", "off"})
=============================================================================
