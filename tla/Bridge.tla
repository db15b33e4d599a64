------------------------------- MODULE Bridge -------------------------------
(***************************************************************************)
(* The whole process: cmd/bridge/main.go and feed.Engine.Run start one     *)
(* listener for each platform and the consumer, and stop them together.    *)
(* Every behaviour of this specification is one of Engine's, in which the  *)
(* listeners' Emit is a Deliver; the property Spec states it.              *)
(***************************************************************************)
EXTENDS Jetstream

allVars == <<vars, pollerVars, streamVars>>
listeners == <<pollerVars, streamVars>>

BridgeInit == Init /\ PollerInit /\ StreamInit

ConsumerStep == Consumer /\ UNCHANGED listeners

Polling(p)   == PollerStep(p) /\ UNCHANGED streamVars
Streaming(p) == StreamStep(p) /\ UNCHANGED pollerVars

(* wg.Wait: the process leaves Run when every listener has returned too.   *)
AllStopped == /\ \A p \in Pollers : lpc[p] = "stopped"
              /\ \A p \in Streams : conn[p] = "stopped"

BridgeExit    == AllStopped /\ Exit /\ PollersDown /\ StreamsDown
BridgeCrash   == Crash /\ PollersDown /\ StreamsDown
BridgeRestart == Restart /\ PollersUp /\ StreamsUp

Outside == (Surroundings \/ Cancel) /\ UNCHANGED listeners

BridgeNext == \/ ConsumerStep
              \/ \E p \in Pollers : Polling(p)
              \/ \E p \in Streams : Streaming(p)
              \/ BridgeExit \/ BridgeCrash \/ BridgeRestart
              \/ Outside

BridgeSpec == BridgeInit /\ [][BridgeNext]_allVars

(* Go runs every goroutine that can run, every request comes back (Bluesky *)
(* has a timeout; for Mastodon and X the client has none, and the platform *)
(* or the network must let go), and the supervisor starts a process that   *)
(* ended (Restart=always).  A connection to the relay need never break,    *)
(* but the stop signal closes it.  Users and faults are owed nothing.      *)
(* consume returns although it could go on receiving, because select picks *)
(* at random among the cases that are ready: hence the strong fairness.    *)
Fairness ==
  /\ WF_allVars(ConsumerStep) /\ SF_allVars(Return /\ UNCHANGED listeners)
  /\ \A p \in Pollers : WF_allVars(Polling(p))
  /\ \A p \in Streams :
       /\ WF_allVars(/\ \/ Dial(p) \/ Read(p) \/ EmitEvent(p) \/ PeriodicFlush(p)
                        \/ CloseTail(p) \/ StopTailing(p)
                     /\ UNCHANGED pollerVars)
       /\ WF_allVars(proc = "stopping" /\ Disconnect(p) /\ UNCHANGED pollerVars)
  /\ WF_allVars(BridgeExit) /\ WF_allVars(BridgeRestart)

FairSpec == BridgeSpec /\ Fairness

(***************************************************************************)
(* The promise.                                                            *)
(***************************************************************************)
Mirrored == INSTANCE Mirror WITH
  troubles <- {k \in {"lost", "dbError", "cancel", "crash", "expire"} : happened[k] > 0}

(* README: posts are mirrored, each one once, oldest first, in its thread. *)
(* With listeners, store, channel and process the bridge does no more than *)
(* that: a copy is of a post that exists, says what it says, goes where it *)
(* is routed, and never comes twice, out of order or under another parent. *)
MirrorsPosts == Mirrored!MirrorSpec

(***************************************************************************)
(* What must hold.                                                         *)
(***************************************************************************)
BridgeTypeOK == TypeOK /\ PollerTypeOK /\ StreamTypeOK

(* How far the listener of a platform has recorded that it read.           *)
ReadUpTo(p) == CASE p \in Pollers -> cursor[p]
                 [] p \in Streams -> streamCursor[p]
                 [] OTHER -> NoID        \* a platform that is only posted to

(* The pair has been dealt with: copied, or recorded as failed.            *)
Settled(o, t) ==
  \E r \in Slot(rows, o, t) : r.status \in {StatusOK, StatusError}

UserPosts == {o \in posts : o.fromId = NoID}

(* The post is one the listener owes: not before the live tail began.      *)
Owed(o) == /\ Wanted(o.plat, o)
           /\ o.plat \in Streams => o.id > joined[o.plat]

(* What is behind a cursor waits in the sink, is being worked on, or is    *)
(* settled for every target.                                               *)
AllReadHandled ==
  \A o \in UserPosts :
    (Owed(o) /\ o.id <= ReadUpTo(o.plat)) =>
      \/ \E i \in 1..Len(sink) : sink[i] = o
      \/ cur = o
      \/ \A i \in 1..Len(Routes[o.plat]) : Settled(o, Routes[o.plat][i])

(* No two posts of users say the same; of two that do, guard two passes    *)
(* one over.                                                               *)
TextsDiffer ==
  \A o, q \in UserPosts : Hash[o.text] = Hash[q.text] /\ Hash[o.text] # NoHash => o = q

(* The cursor and the channel together lose nothing while no fault happens *)
(* (checked where pages do not overflow, and with Backfill).               *)
ReadMeansHandled == Undisturbed /\ TextsDiffer => AllReadHandled

(* Oldest first: a platform's posts appear on another one in their order.  *)
CopiedInOrder ==
  Undisturbed =>
    \A c, d \in Copies :
      (c.plat = d.plat /\ c.from = d.from /\ c.fromId < d.fromId) => c.id < d.id

(* A thread that is read as a whole is mirrored as a thread: if nothing    *)
(* was refused, the copy of a reply to a post the bridge read is a reply.  *)
ThreadsStayThreads ==
  (Undisturbed /\ TextsDiffer /\ happened["refuse"] = 0) =>
    \A c \in Copies : \A o, q \in UserPosts :
      ( /\ o.plat = c.from /\ o.id = c.fromId
        /\ q.plat = o.plat /\ q.id = o.parent
        /\ Owed(q) ) => c.parent # NoID

(* Unless a fault happens, every post a user writes on a polled platform   *)
(* is settled on every target in the end, and so is every post of a        *)
(* followed platform that comes after a cursor that was saved.             *)
Numbers == UNION {1..limit["publish"] : limit \in Budgets}

EveryPostSettled ==
  \A p \in Pollers \cup Streams : \A n \in Numbers :
    ( /\ \E o \in UserPosts : o.plat = p /\ o.id = n /\ Wanted(p, o)
      /\ p \in Streams => streamCursor[p] # NoID /\ streamCursor[p] < n )
    ~> \A i \in 1..Len(Routes[p]) :
         Settled([plat |-> p, id |-> n], Routes[p][i]) \/ ~Undisturbed

(* A stop signal ends the process, whatever the listeners and the consumer *)
(* are waiting for: a full sink, the relay, a platform, a retry.           *)
StopsWhenAsked == (proc = "stopping") ~> (proc = "down")

(***************************************************************************)
(* What the documentation and the comments say, and the code does not do.  *)
(***************************************************************************)
(* README, "Never echoes its own output": no copy is ever copied.          *)
NeverEchoes == \A c, d \in Copies : ~(d.from = c.plat /\ d.fromId = c.id)

(* engine.go on bridge: it reports true when the target holds a copy.      *)
HeldMeansCopy ==
  [][ (pc \in {"claim", "complete"} /\ bridged' /\ ~bridged) =>
        \E c \in Copies : /\ c.plat = Target
                         /\ c.from = cur.plat /\ c.fromId = cur.id ]_allVars

(* README, "restarts resume from where they left off": stopping and        *)
(* starting the bridge loses nothing it has read.                          *)
RestartsResume ==
  (\A k \in {"lost", "dbError", "crash"} : happened[k] = 0) => AllReadHandled

(* README, "On first run the bridge starts from now": only the first poll  *)
(* may pass over posts as history.                                         *)
OnlyFirstPollSkips ==
  [][ \A p \in Pollers :
        (lpc[p] = "idle" /\ lpc'[p] = "save") =>
           \A q \in Page(p) : ~Wanted(p, q) ]_allVars

(* store.go on FailBridge: a failed pair is tried again when its post is   *)
(* detected again; so a detected post with a failed pair reaches the claim.*)
DetectedFailureRetried ==
  [][ ( /\ pc = "seen" /\ proc = "running"
        /\ \E r \in rows : /\ r.origin = cur.plat /\ r.originId = cur.id
                           /\ r.status = StatusError )
      => pc' # "consume" \/ proc' # "running" ]_allVars
=============================================================================
