------------------------------- MODULE Session ------------------------------
(***************************************************************************)
(* The session of internal/platform/bluesky/bluesky.go: New logs in,       *)
(* refreshLoop replaces the tokens while the consumer sends the requests   *)
(* of a post, each with the client it finds when it starts.  The server    *)
(* may fail any request, and accepts an access token for its lifetime.     *)
(*                                                                         *)
(* Left out: what the requests are about (module Posting), and Check.      *)
(***************************************************************************)
EXTENDS Naturals

CONSTANTS
  RefreshInterval,  \* sessionRefreshInterval
  Lifetime,         \* of an access token
  RequestTime       \* Timeout of the HTTP client

ASSUME SessionAssumption ==
  /\ RefreshInterval \in Nat \ {0} /\ {Lifetime, RequestTime} \subseteq Nat
(* Two renewals and the requests around them fit into a lifetime.          *)
ASSUME LifetimeAssumption ==
  /\ 2 * RequestTime < RefreshInterval
  /\ 2 * RefreshInterval + 4 * RequestTime < Lifetime

VARIABLES
  session,  \* a.xrpc: the age of its access token, and how many renewals
            \* in a row, up to 2, have failed since it was set
  loop,     \* refreshLoop: "select", "refresh", "login"; "off" (no process)
  spent,    \* how long the loop's request has taken
  ticker,   \* time until the ticker fires
  ticked,   \* its channel holds a tick
  using,    \* the client a request of the consumer holds, or NoRequest
  busy      \* how long that request has taken

sessionVars == <<session, loop, spent, ticker, ticked, using, busy>>

NoRequest == [age |-> 0, missed |-> 3]
Older(s) == [s EXCEPT !.age = IF @ < Lifetime THEN @ + 1 ELSE @]
Expired(s) == s.age >= Lifetime

(* setSession, with a token issued while the request was on its way.       *)
SetSession == \E age \in 0..spent : session' = [age |-> age, missed |-> 0]

(***************************************************************************)
(* refreshLoop.                                                            *)
(***************************************************************************)
Wake == /\ loop = "select" /\ ticked
        /\ ticked' = FALSE /\ loop' = "refresh" /\ spent' = 0
        /\ UNCHANGED <<session, ticker, using, busy>>

Renewed == /\ loop \in {"refresh", "login"}
           /\ SetSession /\ loop' = "select" /\ spent' = 0
           /\ UNCHANGED <<ticker, ticked, using, busy>>

(* Mutated form: no login after a refresh that failed.                     *)
RefreshFailsFinally ==
  /\ loop = "refresh" /\ loop' = "select" /\ spent' = 0
  /\ UNCHANGED <<session, ticker, ticked, using, busy>>

RefreshFails == /\ loop = "refresh" /\ loop' = "login" /\ spent' = 0
                /\ UNCHANGED <<session, ticker, ticked, using, busy>>

(* Mutated form: the loop ends when it cannot log in.                      *)
LoginFailsForGood ==
  /\ loop = "login" /\ loop' = "ended" /\ spent' = 0
  /\ session' = [session EXCEPT !.missed = 2]
  /\ UNCHANGED <<ticker, ticked, using, busy>>

LoginFails ==
  /\ loop = "login" /\ loop' = "select" /\ spent' = 0
  /\ session' = [session EXCEPT !.missed = IF @ < 2 THEN @ + 1 ELSE 2]
  /\ UNCHANGED <<ticker, ticked, using, busy>>

(***************************************************************************)
(* A request of Post: a.client(), and its answer.                          *)
(***************************************************************************)
Send == /\ loop # "off" /\ using = NoRequest
        /\ using' = session /\ busy' = 0
        /\ UNCHANGED <<session, loop, spent, ticker, ticked>>

Answered == /\ using # NoRequest /\ using' = NoRequest /\ busy' = 0
            /\ UNCHANGED <<session, loop, spent, ticker, ticked>>

(***************************************************************************)
(* Time, and the process.                                                  *)
(***************************************************************************)
(* A request ends within its timeout, and a tick wakes the loop at once.   *)
SessionTick ==
  /\ ~(loop = "select" /\ ticked)
  /\ loop \in {"refresh", "login"} => spent < RequestTime
  /\ using # NoRequest => busy < RequestTime
  /\ session' = Older(session)
  /\ IF using = NoRequest THEN UNCHANGED <<using, busy>>
     ELSE using' = Older(using) /\ busy' = busy + 1
  /\ spent' = IF loop \in {"refresh", "login"} THEN spent + 1 ELSE 0
  /\ CASE loop = "off" -> UNCHANGED <<ticker, ticked>>
       [] loop # "off" /\ ticker = 1 -> ticker' = RefreshInterval /\ ticked' = TRUE
       [] OTHER -> ticker' = ticker - 1 /\ UNCHANGED ticked
  /\ UNCHANGED loop

SessionStop ==
  /\ loop # "off" /\ loop' = "off" /\ spent' = 0 /\ ticked' = FALSE
  /\ using' = NoRequest /\ busy' = 0
  /\ UNCHANGED <<session, ticker>>

(* New, whose login has succeeded: Run starts refreshLoop.                 *)
SessionStart ==
  /\ loop = "off" /\ loop' = "select" /\ ticker' = RefreshInterval
  /\ \E age \in 0..RequestTime : session' = [age |-> age, missed |-> 0]
  /\ UNCHANGED <<spent, ticked, using, busy>>

SessionInit ==
  /\ session = [age |-> Lifetime, missed |-> 0] /\ loop = "off" /\ spent = 0
  /\ ticker = RefreshInterval /\ ticked = FALSE /\ using = NoRequest /\ busy = 0

LoopStep == Wake \/ Renewed \/ RefreshFails \/ LoginFails

SessionNext == LoopStep \/ Send \/ Answered
               \/ SessionTick \/ SessionStop \/ SessionStart

SessionSpec == SessionInit /\ [][SessionNext]_sessionVars

(***************************************************************************)
(* What must hold.                                                         *)
(***************************************************************************)
Sessions == [age : 0..Lifetime, missed : 0..2]

SessionTypeOK ==
  /\ session \in Sessions /\ using \in Sessions \cup {NoRequest}
  /\ loop \in {"select", "refresh", "login", "off"}
  /\ ticker \in 1..RefreshInterval /\ ticked \in BOOLEAN
  /\ spent \in 0..RequestTime /\ busy \in 0..RequestTime

(* A request of a post is never answered with an expired token as long as  *)
(* no two renewals in a row, a refresh and a login each, have failed: what *)
(* refreshLoop promises to keep valid survives one outage, and a request   *)
(* that goes on with the old client while the loop sets the new one is     *)
(* still accepted.                                                         *)
OutageSurvived == using # NoRequest /\ Expired(using) => using.missed = 2

(* As long as the server lets one login in so often succeed, an expired    *)
(* session does not stay: after any outage posts go through again.         *)
SessionComesBack == []<>(loop # "off" => ~Expired(session))
=============================================================================
