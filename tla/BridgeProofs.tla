---------------------------- MODULE BridgeProofs -----------------------------
(***************************************************************************)
(* The composed system.  First, it implements Engine, for any values of    *)
(* the constants: what a listener hands over is always a post that exists, *)
(* so whatever is proved of Engine holds of the bridge.  Then what the     *)
(* cursors, the pages, the relay, the sink and the consumer do together:   *)
(* the invariants follow a post from the listener that reads it to the     *)
(* last of its targets.  Without a fault posts are copied in the order of  *)
(* their authors, nothing behind a cursor is forgotten, and threads stay   *)
(* threads; and the bridge implements Mirror.                              *)
(***************************************************************************)
EXTENDS Bridge, EngineProofs, WellFoundedInduction, FiniteSetTheorems

USE PollerAssumption, JetstreamAssumption

(* A page that is being emitted is not empty and holds existing posts.     *)
BatchInv ==
  /\ batch \in [Pollers -> SUBSET posts]
  /\ lpc \in [Pollers -> {"start", "idle", "emit", "save", "stopped", "off"}]
  /\ \A p \in Pollers : lpc[p] = "emit" => batch[p] # {}

(* A page has an oldest post, and it is the one that is emitted next.      *)
LEMMA NextOfPage ==
  ASSUME NEW page \in SUBSET Post, page # {}
  PROVE  /\ NextOf(page) \in page
         /\ \A q \in page : NextOf(page).id <= q.id
<1> DEFINE ids == {q.id : q \in page}
           less == {pair \in Nat \X Nat : pair[1] < pair[2]}
<1>1. ids \subseteq Nat /\ ids # {}
  BY DEF Post
<1>2. IsWellFoundedOn(less, Nat)
  BY NatLessThanWellFounded DEF OpToRel
<1>3. PICK n \in ids : \A k \in ids : ~(<<k, n>> \in less)
  <2> HIDE DEF ids, less
  <2> QED BY <1>1, <1>2, WFMin
<1>4. PICK q \in page : q.id = n
  OBVIOUS
<1>5. ASSUME NEW r \in page PROVE q.id <= r.id
  <2>1. r.id \in Nat /\ q.id \in Nat /\ r.id \in ids
    BY <1>4 DEF Post
  <2>2. ~(r.id < q.id)
    BY <1>3, <1>4, <2>1
  <2> QED BY <2>1, <2>2
<1> QED BY <1>4, <1>5 DEF NextOf

(* A step of a listener is a Deliver, a trouble of its own, or nothing to  *)
(* the engine.                                                             *)
LEMMA PollingStep ==
  ASSUME TypeOK, BatchInv, NEW p \in Pollers, Polling(p)
  PROVE  [Next]_vars /\ BatchInv'
<1>1. CASE Poll(p)
  <2>1. Page(p) \subseteq posts
    BY DEF Page
  <2>2. UNCHANGED vars
    BY <1>1 DEF Poll
  <2>3. BatchInv'
    BY <1>1, <2>1 DEF Poll, BatchInv, vars
  <2> QED BY <2>2, <2>3
<1>2. CASE PollNothing(p)
  BY <1>2 DEF PollNothing, BatchInv, vars
<1>3. CASE Emit(p)
  <2>1. batch[p] \subseteq posts /\ batch[p] # {} /\ posts \subseteq Post
    BY <1>3 DEF Emit, BatchInv, TypeOK
  <2>2. NextOf(batch[p]) \in posts
    BY <2>1, NextOfPage
  <2>3. Deliver(NextOf(batch[p]))
    BY <1>3 DEF Emit, Deliver
  <2>4. posts' = posts
    BY <1>3 DEF Emit, world
  <2>5. batch' = [batch EXCEPT ![p] = @ \ {NextOf(@)}]
    BY <1>3 DEF Emit
  <2>6. lpc' = [lpc EXCEPT ![p] = IF batch'[p] = {} THEN "save" ELSE "emit"]
    BY <1>3 DEF Emit
  <2>7. BatchInv'
    BY <2>4, <2>5, <2>6 DEF BatchInv
  <2> QED BY <2>2, <2>3, <2>7 DEF Next
<1>4. CASE GiveUp(p)
  BY <1>4 DEF GiveUp, BatchInv, vars
<1>5. CASE Save(p)
  <2>1. UNCHANGED vars \/ ListenerTrouble("dbError")
    BY <1>5 DEF Save
  <2>2. posts' = posts
    BY <2>1 DEF vars, ListenerTrouble, world
  <2> QED BY <1>5, <2>1, <2>2 DEF Save, BatchInv, Next
<1>6. CASE StopPolling(p)
  BY <1>6 DEF StopPolling, BatchInv, vars
<1> QED BY <1>1, <1>2, <1>3, <1>4, <1>5, <1>6 DEF Polling, PollerStep

LEMMA StreamingStep ==
  ASSUME TypeOK, BatchInv, NEW p \in Streams, Streaming(p)
  PROVE  [Next]_vars /\ BatchInv'
<1>1. UNCHANGED <<batch, lpc>>
  BY DEF Streaming, pollerVars
<1>2. \/ UNCHANGED vars
      \/ \E k \in {"dbError", "disconnect"} : ListenerTrouble(k)
      \/ \E post \in posts : Deliver(post)
  <2>1. CASE Dial(p) \/ Read(p) \/ StopTailing(p)
    BY <2>1 DEF Dial, Read, StopTailing
  <2>2. CASE EmitEvent(p)
    BY <2>2 DEF EmitEvent, Event, Deliver
  <2>3. CASE PeriodicFlush(p) \/ CloseTail(p)
    BY <2>3 DEF PeriodicFlush, CloseTail, FlushCursor
  <2>4. CASE Disconnect(p)
    BY <2>4 DEF Disconnect
  <2> QED BY <2>1, <2>2, <2>3, <2>4 DEF Streaming, StreamStep
<1>3. posts' = posts
  BY <1>2 DEF vars, ListenerTrouble, Deliver, world
<1> QED BY <1>1, <1>2, <1>3 DEF BatchInv, Next

(* Down, a listener has no page.                                           *)
LEMMA DownAndUp ==
  ASSUME TypeOK, BatchInv, BridgeExit \/ BridgeCrash \/ BridgeRestart
  PROVE  [Next]_vars /\ BatchInv'
<1>1. posts' = posts
  BY DEF BridgeExit, BridgeCrash, BridgeRestart, Exit, Crash, Restart, GoDown, world
<1>2. Exit \/ Crash \/ Restart
  BY DEF BridgeExit, BridgeCrash, BridgeRestart
<1>3. PollersDown \/ PollersUp
  BY DEF BridgeExit, BridgeCrash, BridgeRestart
<1>4. BatchInv'
  BY <1>1, <1>3 DEF PollersDown, PollersUp, BatchInv
<1> QED BY <1>2, <1>4 DEF Next

LEMMA BridgeStep ==
  ASSUME TypeOK, BatchInv, [BridgeNext]_allVars
  PROVE  [Next]_vars /\ BatchInv'
<1>1. ASSUME [Next]_vars, UNCHANGED <<batch, lpc>> PROVE BatchInv'
  <2>1. posts \subseteq posts'
    BY <1>1, PostsGrow
  <2> QED BY <1>1, <2>1 DEF BatchInv
<1>2. CASE ConsumerStep \/ Outside
  <2>1. Next /\ UNCHANGED <<batch, lpc>>
    BY <1>2 DEF ConsumerStep, Outside, listeners, pollerVars, Next
  <2> QED BY <1>1, <2>1
<1>3. CASE UNCHANGED allVars
  <2>1. UNCHANGED vars /\ UNCHANGED <<batch, lpc>>
    BY <1>3 DEF allVars, pollerVars
  <2> QED BY <1>1, <2>1
<1> QED BY <1>2, <1>3, PollingStep, StreamingStep, DownAndUp DEF BridgeNext

(* Listeners, restarts and stops included, the bridge is an Engine.        *)
THEOREM BridgeImplementsEngine == BridgeSpec => Spec
<1>1. BridgeInit => Init /\ TypeOK /\ BatchInv
  BY InitTypeOK DEF BridgeInit, PollerInit, BatchInv
<1>2. TypeOK /\ BatchInv /\ [BridgeNext]_allVars => [Next]_vars /\ TypeOK' /\ BatchInv'
  BY BridgeStep, TypeInductive
<1> QED BY <1>1, <1>2, PTL DEF BridgeSpec, Spec

(* The guarantees of the engine, for the whole bridge: no echo of what is  *)
(* recorded, one copy unless an answer was lost, true records, threads     *)
(* under the right parent, no copy of a copy and no claim left behind      *)
(* without a fault, and no finished row ever lost.                         *)
THEOREM BridgeSafe ==
  BridgeSpec =>
    /\ [](/\ OwnPostNeverCopied /\ NoSecondCopy /\ RecordedCopyExists
          /\ RepliesThreadedRight /\ OnlyUserPostsCopied /\ PendingIsBeingWorkedOn)
    /\ FinishedRowsKept
BY BridgeImplementsEngine, NoEcho, OneCopyPerPost, RecordsTrue, ThreadsKept,
   OnlyOriginals, ClaimsResolved, FinishedRowsOutlive, PTL

(***************************************************************************)
(* Type correctness of the listeners.                                      *)
(***************************************************************************)
(* Between two flushes fewer events are counted than the interval, and the *)
(* process does not start in the middle of a connection.                   *)
FlushDue == \A p \in Streams : conn[p] # "flush" => sinceFlush[p] < FlushInterval
AllOff == proc = "down" => /\ \A p \in Pollers : lpc[p] = "off"
                           /\ \A p \in Streams : conn[p] = "off"

(* A page has a newest identifier.                                         *)
LEMMA NewestOfPage ==
  ASSUME NEW page \in SUBSET Post, page # {}, NEW bound \in Nat,
         \A q \in page : q.id < bound
  PROVE  /\ Newest(page) \in {q.id : q \in page}
         /\ \A q \in page : q.id <= Newest(page)
<1> DEFINE ids == {q.id : q \in page}
           less == {pair \in Nat \X Nat : pair[1] < pair[2]}
           above == {n \in Nat : \A k \in ids : k <= n}
<1>1. ids \subseteq Nat /\ ids # {} /\ \A k \in ids : k < bound
  BY DEF Post
<1>2. IsWellFoundedOn(less, Nat)
  BY NatLessThanWellFounded DEF OpToRel
<1>3. above \subseteq Nat /\ bound \in above
  BY <1>1
<1>4. PICK n \in above : \A k \in above : ~(<<k, n>> \in less)
  <2> HIDE DEF above, less
  <2> QED BY <1>2, <1>3, WFMin
<1>5. n \in ids
  <2> SUFFICES ASSUME n \notin ids PROVE FALSE
    OBVIOUS
  <2>1. \A k \in ids : k < n /\ k \in Nat
    <3>1. n \in Nat /\ (\A k \in ids : k <= n) /\ \A k \in ids : k # n
      OBVIOUS
    <3> HIDE DEF ids
    <3> QED BY <1>1, <3>1
  <2>2. n # 0 /\ n - 1 \in Nat
    BY <1>1, <1>4, <2>1
  <2>3. n - 1 \in above
    BY SMTT(30), <2>1, <2>2
  <2>4. n \in Nat /\ n - 1 < n
    BY <2>2
  <2>5. <<n - 1, n>> \in less
    BY <2>2, <2>4
  <2> HIDE DEF less, above
  <2> QED BY <1>4, <2>3, <2>5
<1>6. \E m \in ids : \A q \in page : q.id <= m
  BY <1>4, <1>5
<1> HIDE DEF ids
<1>7. Newest(page) \in ids /\ \A q \in page : q.id <= Newest(page)
  BY <1>6 DEF Newest, ids
<1> QED BY <1>7 DEF ids

(* What a poll finds are existing posts of its platform after its cursor.  *)
LEMMA PageIsNew ==
  ASSUME TypeOK, PostsExist, NEW p \in Pollers, Page(p) # {}
  PROVE  /\ Page(p) \subseteq {q \in posts : q.plat = p /\ q.id > cursor[p]}
         /\ Newest(Page(p)) \in {q.id : q \in Page(p)}
         /\ \A q \in Page(p) : q.id <= Newest(Page(p))
         /\ Newest(Page(p)) \in Nat /\ Newest(Page(p)) < nextId[p]
<1>1. Page(p) \subseteq {q \in posts : q.plat = p /\ q.id > cursor[p]}
  BY DEF Page
<1>2. Page(p) \subseteq Post /\ nextId[p] \in Nat /\ \A q \in Page(p) : q.id < nextId[p]
  BY <1>1 DEF TypeOK, PostsExist
<1>3. /\ Newest(Page(p)) \in {q.id : q \in Page(p)}
      /\ \A q \in Page(p) : q.id <= Newest(Page(p))
  BY <1>2, NewestOfPage
<1> QED BY <1>1, <1>2, <1>3 DEF Post

LEMMA PollerTypeKept ==
  ASSUME TypeOK, PostsExist, PollerTypeOK, NEW p \in Pollers, PollerStep(p)
  PROVE  PollerTypeOK'
<1>1. CASE Poll(p)
  <2> DEFINE first == cursor[p] = NoID /\ ~Backfill
             new == IF first THEN {} ELSE {q \in Page(p) : Wanted(p, q)}
  <2>1. new \subseteq Post
    BY DEF Page, TypeOK
  <2>2. Newest(Page(p)) \in Nat
    BY <1>1, PageIsNew DEF Poll
  <2>3. /\ batch' = [batch EXCEPT ![p] = new]
        /\ lpc' = [lpc EXCEPT ![p] = IF new = {} THEN "save" ELSE "emit"]
    BY <1>1 DEF Poll
  <2> HIDE DEF new
  <2> QED BY <1>1, <2>1, <2>2, <2>3 DEF Poll, PollerTypeOK
<1>2. CASE Emit(p)
  <2>1. batch' = [batch EXCEPT ![p] = @ \ {NextOf(@)}]
    BY <1>2 DEF Emit
  <2>2. lpc' = [lpc EXCEPT ![p] = IF batch'[p] = {} THEN "save" ELSE "emit"]
    BY <1>2 DEF Emit
  <2>3. cursor' = cursor /\ newest' = newest
    BY <1>2 DEF Emit
  <2> QED BY <2>1, <2>2, <2>3 DEF PollerTypeOK
<1>3. CASE PollNothing(p) \/ GiveUp(p) \/ Save(p) \/ StopPolling(p)
  BY <1>3 DEF PollNothing, GiveUp, Save, StopPolling, PollerTypeOK, NoID
<1> QED BY <1>1, <1>2, <1>3 DEF PollerStep

LEMMA StreamTypeKept ==
  ASSUME TypeOK, StreamTypeOK, FlushDue, AllOff, NEW p \in Streams, StreamStep(p)
  PROVE  StreamTypeOK' /\ FlushDue' /\ AllOff'
<1>1. ASSUME Dial(p) PROVE StreamTypeOK' /\ FlushDue'
  <2>1. \A at \in Resume(p) : at \in Nat
    BY DEF Resume, StreamTypeOK, TypeOK, NoID
  <2> QED BY <1>1, <2>1 DEF Dial, StreamTypeOK, FlushDue
<1>2. ASSUME EmitEvent(p) PROVE StreamTypeOK' /\ FlushDue'
  BY <1>2 DEF EmitEvent, StreamTypeOK, FlushDue
<1>3. ASSUME PeriodicFlush(p) \/ CloseTail(p)
      PROVE  StreamTypeOK' /\ FlushDue'
  BY <1>3 DEF PeriodicFlush, CloseTail, FlushCursor, StreamTypeOK, FlushDue, NoID
<1>4. ASSUME Read(p) \/ Disconnect(p) \/ StopTailing(p)
      PROVE  StreamTypeOK' /\ FlushDue'
  BY <1>4 DEF Read, Disconnect, StopTailing, StreamTypeOK, FlushDue, tailVars
<1>5. AllOff'
  <2>1. conn[p] # "off" /\ proc' = proc
    BY DEF StreamStep, Dial, Read, EmitEvent, PeriodicFlush, Disconnect, CloseTail,
       StopTailing, FlushCursor, ListenerTrouble, vars
  <2> QED BY <2>1 DEF AllOff
<1> QED BY <1>1, <1>2, <1>3, <1>4, <1>5 DEF StreamStep

LEMMA ListenerTypesKept ==
  ASSUME IInv, PollerTypeOK, StreamTypeOK, FlushDue, AllOff, [BridgeNext]_allVars
  PROVE  PollerTypeOK' /\ StreamTypeOK' /\ FlushDue' /\ AllOff'
<1> USE DEF pollerVars, streamVars, tailVars, listeners
<1>1. CASE UNCHANGED listeners /\ (proc' = proc \/ proc' # "down")
  BY <1>1 DEF PollerTypeOK, StreamTypeOK, FlushDue, AllOff
<1>2. ASSUME NEW p \in Pollers, Polling(p)
      PROVE  PollerTypeOK' /\ StreamTypeOK' /\ FlushDue' /\ AllOff'
  <2>1. proc' = proc /\ lpc[p] # "off"
    BY <1>2 DEF Polling, PollerStep, Poll, PollNothing, Emit, GiveUp, Save, StopPolling,
       ListenerTrouble, vars
  <2> QED BY <1>2, <2>1, PollerTypeKept DEF Polling, StreamTypeOK, FlushDue, AllOff, IInv
<1>3. ASSUME NEW p \in Streams, Streaming(p)
      PROVE  PollerTypeOK' /\ StreamTypeOK' /\ FlushDue' /\ AllOff'
  BY <1>3, StreamTypeKept DEF Streaming, PollerTypeOK, IInv
<1>4. CASE PollersDown /\ StreamsDown
  BY <1>4 DEF PollersDown, StreamsDown, PollerTypeOK, StreamTypeOK, FlushDue, AllOff, NoID
<1>5. CASE BridgeRestart
  <2>1. /\ proc = "down" /\ proc' = "running" /\ PollersUp /\ StreamsUp
        /\ \A p \in Pollers : lpc[p] = "off"
        /\ \A p \in Streams : conn[p] = "off"
    BY <1>5 DEF BridgeRestart, Restart, AllOff
  <2> QED BY <2>1 DEF PollersUp, StreamsUp, PollerTypeOK, StreamTypeOK, FlushDue, AllOff
<1>6. CASE ConsumerStep \/ Outside \/ UNCHANGED allVars
  <2>1. proc' = proc \/ proc' # "down"
    BY <1>6 DEF ConsumerStep, Consumer, Outside, Surroundings, Receive, CheckOurs, CheckSeen,
       Claim, ResolveParent, BeginAttempt, Create, Answer, Refuse, LoseAnswer, PostFails,
       Complete, Fail, Mark, Return, Publish, Expire, Cancel, allVars, vars
  <2> QED BY <1>1, <1>6, <2>1 DEF ConsumerStep, Outside, allVars
<1> QED
  BY <1>2, <1>3, <1>4, <1>5, <1>6 DEF BridgeNext, BridgeExit, BridgeCrash

(* What every later proof about the bridge starts from.                    *)
BridgeInv == IInv /\ UniqueIds /\ BatchInv /\ BridgeTypeOK /\ FlushDue /\ AllOff

LEMMA BridgeInvariance == BridgeSpec => []BridgeInv
<1>1. BridgeInit => /\ UniqueIds /\ BatchInv
                    /\ PollerTypeOK /\ StreamTypeOK /\ FlushDue /\ AllOff
  BY DEF BridgeInit, Init, PollerInit, StreamInit, PollerTypeOK, StreamTypeOK, FlushDue,
     AllOff, BatchInv, UniqueIds, NoID
<1>2. IInv /\ PollerTypeOK /\ StreamTypeOK /\ FlushDue /\ AllOff /\ [BridgeNext]_allVars
        => PollerTypeOK' /\ StreamTypeOK' /\ FlushDue' /\ AllOff'
  BY ListenerTypesKept
<1>3. IInv /\ BatchInv /\ UniqueIds /\ [BridgeNext]_allVars => BatchInv' /\ UniqueIds'
  BY BridgeStep, UniqueIdsKept DEF IInv
<1>4. IInv /\ UniqueIds /\ BatchInv /\ PollerTypeOK /\ StreamTypeOK /\ FlushDue /\ AllOff
        => BridgeInv
  BY DEF IInv, BridgeTypeOK, BridgeInv
<1> QED BY <1>1, <1>2, <1>3, <1>4, BridgeImplementsEngine, Invariance, PTL DEF BridgeSpec

(* The variables of the whole bridge keep their types: cursors and stream  *)
(* positions stay natural numbers whatever a page or the relay brings, a   *)
(* listener hands posts over exactly while it holds some, and the events   *)
(* since a flush never outnumber the interval.                             *)
THEOREM BridgeTypeCorrect == BridgeSpec => []BridgeTypeOK
BY BridgeInvariance, PTL DEF BridgeInv

(***************************************************************************)
(* Order.                                                                  *)
(***************************************************************************)
(* What of p was handed to the sink, is in hand or was copied.             *)
DeliveredUpTo(p, bound) ==
  /\ \A i \in 1..Len(sink) : sink[i].plat = p => sink[i].id <= bound
  /\ pc \notin Idle /\ cur.plat = p => cur.id <= bound
  /\ \A c \in Copies : c.from = p => c.fromId <= bound

(* From the copies over the post in hand to the end of the sink, the posts *)
(* of a platform have rising numbers.                                      *)
InOrder ==
  Undisturbed =>
    /\ \A i, j \in 1..Len(sink) :
         i < j /\ sink[i].plat = sink[j].plat => sink[i].id <= sink[j].id
    /\ pc \notin Idle => \A i \in 1..Len(sink) :
         sink[i].plat = cur.plat => cur.id <= sink[i].id
    /\ \A c \in Copies :
         /\ \A i \in 1..Len(sink) : sink[i].plat = c.from => c.fromId <= sink[i].id
         /\ pc \notin Idle /\ cur.plat = c.from => c.fromId <= cur.id
    /\ CopiedInOrder

(* How far the listener of a stream has come.                              *)
Last(p) == IF lastCursor[p] = NoID THEN streamCursor[p] ELSE lastCursor[p]

(* What a poller has handed over lies behind what it hands over next.      *)
PollerAhead(p) ==
  /\ lpc[p] \in {"start", "idle", "emit", "save"}
  /\ lpc[p] # "emit" => batch[p] = {}
  /\ lpc[p] \in {"start", "idle"} => DeliveredUpTo(p, cursor[p])
  /\ lpc[p] \in {"emit", "save"} => /\ cursor[p] <= newest[p]
                                    /\ DeliveredUpTo(p, newest[p])
  /\ \A q \in batch[p] : /\ q.plat = p /\ q.id <= newest[p]
                         /\ DeliveredUpTo(p, q.id)

PollersAhead == Undisturbed => \A p \in Pollers : PollerAhead(p)

(* The relay may send the last event once more, but nothing before it.     *)
StreamAhead(p) ==
  /\ conn[p] \in {"idle", "reading", "emit", "flush", "closing"}
  /\ DeliveredUpTo(p, Last(p))
  /\ streamCursor[p] <= Last(p)
  /\ conn[p] = "idle" => lastCursor[p] = NoID
  /\ conn[p] = "reading" => Last(p) <= pos[p] + 1
  /\ conn[p] = "emit" => Last(p) <= pos[p]
  /\ conn[p] = "flush" => lastCursor[p] = pos[p] /\ pos[p] # NoID

StreamsAhead == Undisturbed => \A p \in Streams : StreamAhead(p)

(***************************************************************************)
(* The steps of a run without a fault.                                     *)
(***************************************************************************)
(* Neither the channel nor the copies change, and no post is picked up.    *)
Same == /\ sink' = sink /\ Copies' = Copies
        /\ pc' \in Idle \/ (pc \notin Idle /\ cur' = cur)

Saved(p)  == Save(p) /\ UNCHANGED vars /\ cursor' = [cursor EXCEPT ![p] = newest[p]]
Flushed(p) == /\ PeriodicFlush(p) \/ CloseTail(p)
              /\ UNCHANGED vars /\ streamCursor' = [streamCursor EXCEPT ![p] = Last(p)]
Dropped(p) == Disconnect(p) /\ conn[p] = "reading" /\ ListenerTrouble("disconnect")

QuietPolling(p)   == Poll(p) \/ PollNothing(p) \/ Emit(p) \/ Saved(p)
QuietStreaming(p) == Dial(p) \/ Read(p) \/ EmitEvent(p) \/ Flushed(p) \/ Dropped(p)

LEMMA NoFault ==
  ASSUME BridgeInv, [BridgeNext]_allVars, Undisturbed'
  PROVE  /\ [Next]_vars /\ Undisturbed /\ proc = "running" /\ ~StoreFails
         /\ \A k \in {"lost", "dbError", "cancel", "crash"} : ~Happens(k)
<1>1. [Next]_vars
  BY BridgeStep DEF BridgeInv, IInv
<1>2. Undisturbed /\ proc = "running" /\ TypeOK
  BY <1>1, Counted DEF Undisturbed, CopiesRecorded, BridgeInv, IInv, TypeOK, Kinds
<1>3. \A k \in {"lost", "dbError", "cancel", "crash"} : ~Happens(k)
  BY <1>2 DEF Happens, Undisturbed, Kinds, TypeOK
<1> QED BY <1>1, <1>2, <1>3 DEF StoreFails

LEMMA QuietStep ==
  ASSUME BridgeInv, [BridgeNext]_allVars, Undisturbed'
  PROVE  \/ UNCHANGED listeners /\ (Receive \/ Create \/ Same)
         \/ \E p \in Pollers : QuietPolling(p) /\ UNCHANGED streamVars
         \/ \E p \in Streams : QuietStreaming(p) /\ UNCHANGED pollerVars
<1> USE DEF store, world, local, Idle
<1>1. CASE ConsumerStep
  <2>1. \/ Receive \/ Create
        \/ CheckOurs \/ CheckSeen \/ Claim \/ ResolveParent \/ BeginAttempt \/ Answer
        \/ Refuse \/ Complete \/ Fail \/ Mark
    BY <1>1, NoFault DEF ConsumerStep, Consumer, LoseAnswer, PostFails, Return
  <2>2. \/ CheckOurs \/ CheckSeen \/ Claim \/ ResolveParent \/ BeginAttempt \/ Answer
        \/ Refuse \/ Complete \/ Fail \/ Mark
        => Same
    BY DEF CheckOurs, CheckSeen, Claim, ResolveParent, BeginAttempt, Answer, Refuse, PostFails,
       Complete, Fail, Mark, Done, Route, NextTarget, Same, Copies
  <2> QED BY <1>1, <2>1, <2>2 DEF ConsumerStep
<1>2. ASSUME NEW p \in Pollers, Polling(p)
      PROVE  QuietPolling(p) /\ UNCHANGED streamVars
  BY <1>2, NoFault DEF Polling, PollerStep, QuietPolling, Saved, GiveUp, Save, StopPolling,
     ListenerTrouble
<1>3. ASSUME NEW p \in Streams, Streaming(p)
      PROVE  QuietStreaming(p) /\ UNCHANGED pollerVars
  <2>1. FlushCursor(p) =>
          UNCHANGED vars /\ streamCursor' = [streamCursor EXCEPT ![p] = Last(p)]
    BY NoFault DEF FlushCursor, ListenerTrouble, Last, BridgeInv, BridgeTypeOK, StreamTypeOK
  <2> QED BY <1>3, <2>1, NoFault DEF Streaming, StreamStep, QuietStreaming, Flushed, Dropped,
          PeriodicFlush, CloseTail, Disconnect, StopTailing
<1>4. CASE BridgeExit \/ BridgeCrash \/ BridgeRestart
  BY <1>4, NoFault DEF BridgeExit, BridgeCrash, BridgeRestart, Exit, Crash, Restart
<1>5. CASE Outside
  <2>1. ASSUME NEW q, NEW txt, NEW par, Publish(q, txt, par) PROVE Same
    BY <2>1, PublishedIsNoCopy DEF Publish, Same
  <2>2. ASSUME NEW h, Expire(h) PROVE Same
    BY <2>2 DEF Expire, Same, Copies
  <2> QED BY <1>5, <2>1, <2>2, NoFault DEF Outside, Surroundings, Cancel
<1>6. CASE UNCHANGED allVars
  BY <1>6 DEF allVars, vars, listeners, Same, Copies
<1> QED BY <1>1, <1>2, <1>3, <1>4, <1>5, <1>6 DEF BridgeNext

(***************************************************************************)
(* The order is kept.                                                      *)
(***************************************************************************)
LEMMA DeliveredFurther ==
  ASSUME TypeOK, PostsExist, NEW p, NEW m \in Nat, NEW n \in Nat, m <= n, DeliveredUpTo(p, m)
  PROVE  DeliveredUpTo(p, n)
<1>1. \A i \in 1..Len(sink) : sink[i].id \in Nat
  <2>1. \A i \in 1..Len(sink) : sink[i] \in Post
    BY DEF TypeOK
  <2> QED BY <2>1 DEF Post
<1>2. pc \notin Idle => cur.id \in Nat
  BY DEF TypeOK, Post, Idle
<1>3. \A c \in Copies : c.fromId \in Nat
  BY DEF TypeOK, Post, Copies
<1> QED BY <1>1, <1>2, <1>3 DEF DeliveredUpTo

(* Only a hand-over adds to what was delivered.                            *)
LEMMA DeliveredKept ==
  ASSUME TypeOK, NEW p, NEW n \in Nat, DeliveredUpTo(p, n), Receive \/ Create \/ Same
  PROVE  DeliveredUpTo(p, n)'
<1> USE DEF Idle
<1>1. CASE Receive
  <2>1. /\ Len(sink') = Len(sink) - 1 /\ cur' = sink[1] /\ Copies' = Copies
        /\ \A i \in 1..Len(sink') : sink'[i] = sink[i + 1]
    BY <1>1 DEF Receive, TypeOK, world, Copies
  <2>2. 1 \in 1..Len(sink) /\ \A i \in 1..Len(sink') : i + 1 \in 1..Len(sink)
    BY <1>1, <2>1 DEF Receive, TypeOK
  <2> QED BY <2>1, <2>2 DEF DeliveredUpTo
<1>2. CASE Create
  <2>1. /\ sink' = sink /\ cur' = cur /\ pc \notin Idle
        /\ \A c \in Copies' : c \in Copies \/ (c.from = cur.plat /\ c.fromId = cur.id)
    BY <1>2 DEF Create, NewPost, Copies
  <2> QED BY <2>1 DEF DeliveredUpTo
<1>3. CASE Same
  BY <1>3 DEF Same, DeliveredUpTo
<1> QED BY <1>1, <1>2, <1>3

LEMMA DeliveredOneMore ==
  ASSUME TypeOK, NEW p, NEW n \in Nat, DeliveredUpTo(p, n), NEW post \in Post,
         sink' = Append(sink, post), UNCHANGED <<posts, pc, cur>>,
         post.plat = p => post.id <= n
  PROVE  DeliveredUpTo(p, n)'
<1>1. /\ Len(sink') = Len(sink) + 1 /\ sink'[Len(sink) + 1] = post
      /\ \A i \in 1..Len(sink) : sink'[i] = sink[i]
  BY DEF TypeOK
<1>2. \A i \in 1..Len(sink') : i \in 1..Len(sink) \/ i = Len(sink) + 1
  BY <1>1 DEF TypeOK
<1> QED BY <1>1, <1>2 DEF DeliveredUpTo, Copies

LEMMA OrderKept ==
  ASSUME TypeOK, PostsExist, Undisturbed, InOrder, Receive \/ Create \/ Same
  PROVE  InOrder'
<1> USE DEF Idle
<1>1. CASE Receive
  <2>1. /\ Len(sink') = Len(sink) - 1 /\ cur' = sink[1] /\ Copies' = Copies
        /\ \A i \in 1..Len(sink') : sink'[i] = sink[i + 1]
    BY <1>1 DEF Receive, TypeOK, world, Copies
  <2>2. /\ 1 \in 1..Len(sink)
        /\ \A i \in 1..Len(sink') : i + 1 \in 1..Len(sink) /\ 1 < i + 1
    BY <1>1, <2>1 DEF Receive, TypeOK
  <2>3. \A i, j \in 1..Len(sink') : i < j => i + 1 < j + 1
    OBVIOUS
  <2> QED BY <2>1, <2>2, <2>3 DEF InOrder, CopiedInOrder
<1>2. CASE Create
  <2> DEFINE new == [plat |-> Target, id |-> nextId[Target],
                     text |-> Fit[Target][cur.text], parent |-> parent,
                     from |-> cur.plat, fromId |-> cur.id]
  <2>1. /\ sink' = sink /\ cur' = cur /\ pc \notin Idle /\ Copies' \subseteq Copies \cup {new}
    BY <1>2 DEF Create, NewPost, Copies
  <2>2. \A d \in Copies : /\ d.plat = Target => d.id < nextId[Target]
                          /\ d.from = cur.plat => d.fromId <= cur.id
    BY <2>1 DEF PostsExist, InOrder, Copies
  <2>3. \A d \in Copies : d.id \in Nat /\ d.fromId \in Nat
    BY DEF TypeOK, Post, Copies
  <2>4. cur.id \in Nat /\ nextId[Target] \in Nat
    BY <1>2, TargetIsOther DEF Create, Working, TypeOK
  <2>5. /\ new.plat = Target /\ new.id = nextId[Target] /\ new.from = cur.plat
        /\ new.fromId = cur.id
    OBVIOUS
  <2> HIDE DEF new
  <2>6. CopiedInOrder'
    BY <2>1, <2>2, <2>3, <2>4, <2>5 DEF CopiedInOrder, InOrder
  <2> QED BY <2>1, <2>4, <2>5, <2>6 DEF InOrder
<1>3. CASE Same
  BY <1>3 DEF Same, InOrder, CopiedInOrder
<1> QED BY <1>1, <1>2, <1>3

LEMMA OrderOneMore ==
  ASSUME TypeOK, Undisturbed, InOrder, NEW post \in Post, sink' = Append(sink, post),
         UNCHANGED <<posts, pc, cur>>, DeliveredUpTo(post.plat, post.id)
  PROVE  InOrder'
<1>1. /\ Len(sink') = Len(sink) + 1 /\ sink'[Len(sink) + 1] = post
      /\ \A i \in 1..Len(sink) : sink'[i] = sink[i]
  BY DEF TypeOK
<1>2. \A i \in 1..Len(sink') : i \in 1..Len(sink) \/ i = Len(sink) + 1
  BY <1>1 DEF TypeOK
<1>3. \A i, j \in 1..Len(sink') : i < j => i \in 1..Len(sink)
  BY <1>1 DEF TypeOK
<1>4. Copies' = Copies
  BY DEF Copies
<1>5. post.id <= post.id
  BY DEF Post
<1> QED BY <1>1, <1>2, <1>3, <1>4, <1>5 DEF InOrder, CopiedInOrder, DeliveredUpTo

(* What a listener hands over follows all it has handed over.              *)
LEMMA EmittedNext ==
  ASSUME BridgeInv, Undisturbed, PollersAhead, NEW p \in Pollers, Emit(p)
  PROVE  /\ NextOf(batch[p]) \in Post /\ NextOf(batch[p]) \in batch[p]
         /\ NextOf(batch[p]).plat = p /\ NextOf(batch[p]).id <= newest[p]
         /\ \A q \in batch[p] : NextOf(batch[p]).id <= q.id
         /\ DeliveredUpTo(p, NextOf(batch[p]).id)
         /\ sink' = Append(sink, NextOf(batch[p])) /\ UNCHANGED <<posts, pc, cur>>
<1>1. batch[p] \in SUBSET Post /\ batch[p] # {}
  BY DEF Emit, BridgeInv, BridgeTypeOK, PollerTypeOK
<1>2. NextOf(batch[p]) \in batch[p] /\ \A q \in batch[p] : NextOf(batch[p]).id <= q.id
  BY <1>1, NextOfPage
<1> QED BY <1>1, <1>2 DEF PollersAhead, PollerAhead, Emit, Enqueue, world, local

LEMMA EmittedEvent ==
  ASSUME BridgeInv, Undisturbed, StreamsAhead, NEW p \in Streams, EmitEvent(p)
  PROVE  /\ Last(p) <= pos[p] /\ pos[p] \in Nat /\ pos[p] # NoID /\ Last(p) \in Nat
         /\ \E post \in posts : /\ post \in Post /\ post.plat = p /\ post.id = pos[p]
                                /\ sink' = Append(sink, post)
         /\ DeliveredUpTo(p, pos[p]) /\ UNCHANGED <<posts, pc, cur>>
<1>1. PICK post \in posts : post.plat = p /\ post.id = pos[p] /\ sink' = Append(sink, post)
  BY DEF EmitEvent, Event, Enqueue
<1>2. post \in Post /\ pos[p] # NoID
  BY <1>1 DEF BridgeInv, IInv, TypeOK, PostsExist
<1>3. Last(p) <= pos[p] /\ DeliveredUpTo(p, Last(p))
  BY DEF StreamsAhead, StreamAhead, EmitEvent
<1>4. pos[p] \in Nat /\ Last(p) \in Nat
  BY DEF BridgeInv, BridgeTypeOK, StreamTypeOK, Last
<1>5. DeliveredUpTo(p, pos[p])
  BY <1>3, <1>4, DeliveredFurther DEF BridgeInv, IInv
<1> QED BY <1>1, <1>2, <1>3, <1>4, <1>5 DEF EmitEvent, world, local

(* A listener that hands nothing over changes nothing for the engine.      *)
LEMMA ReadingIsSame ==
  ASSUME UNCHANGED vars \/ ListenerTrouble("disconnect")
  PROVE  Same
BY DEF vars, ListenerTrouble, Same, world, local, Copies

LEMMA InOrderKept ==
  ASSUME BridgeInv, InOrder, PollersAhead, StreamsAhead, [BridgeNext]_allVars
  PROVE  InOrder'
<1> SUFFICES ASSUME Undisturbed' PROVE InOrder'
  BY DEF InOrder
<1>1. Undisturbed /\ TypeOK /\ PostsExist
  BY NoFault DEF BridgeInv, IInv
<1>2. CASE Receive \/ Create \/ Same
  BY <1>1, <1>2, OrderKept
<1>3. ASSUME NEW p \in Pollers, QuietPolling(p) PROVE InOrder'
  <2>1. CASE Emit(p)
    BY <1>1, <2>1, EmittedNext, OrderOneMore
  <2>2. CASE Poll(p) \/ PollNothing(p) \/ Saved(p)
    BY <1>2, <2>2, ReadingIsSame DEF Poll, PollNothing, Saved
  <2> QED BY <1>3, <2>1, <2>2 DEF QuietPolling
<1>4. ASSUME NEW p \in Streams, QuietStreaming(p) PROVE InOrder'
  <2>1. CASE EmitEvent(p)
    BY <1>1, <2>1, EmittedEvent, OrderOneMore
  <2>2. CASE Dial(p) \/ Read(p) \/ Flushed(p) \/ Dropped(p)
    BY <1>2, <2>2, ReadingIsSame DEF Dial, Read, Flushed, Dropped
  <2> QED BY <1>4, <2>1, <2>2 DEF QuietStreaming
<1> QED BY <1>2, <1>3, <1>4, QuietStep

(* A listener that does not move stays ahead of what was delivered.        *)
LEMMA PollerUnmoved ==
  ASSUME PollerTypeOK, NEW p \in Pollers, PollerAhead(p),
         /\ lpc'[p] = lpc[p] /\ batch'[p] = batch[p]
         /\ cursor'[p] = cursor[p] /\ newest'[p] = newest[p],
         \A n \in Nat : DeliveredUpTo(p, n) => DeliveredUpTo(p, n)'
  PROVE  PollerAhead(p)'
<1>1. /\ cursor[p] \in Nat /\ newest[p] \in Nat
      /\ \A q \in batch[p] : q.id \in Nat
  BY DEF PollerTypeOK, Post
<1>2. /\ DeliveredUpTo(p, cursor[p]) => DeliveredUpTo(p, cursor[p])'
      /\ DeliveredUpTo(p, newest[p]) => DeliveredUpTo(p, newest[p])'
      /\ \A q \in batch[p] : DeliveredUpTo(p, q.id) => DeliveredUpTo(p, q.id)'
  BY <1>1 DEF DeliveredUpTo
<1> QED BY <1>2 DEF PollerAhead

LEMMA PollerMoved ==
  ASSUME BridgeInv, Undisturbed, PollersAhead, NEW p \in Pollers, QuietPolling(p)
  PROVE  PollerAhead(p)'
<1>1. TypeOK /\ PostsExist /\ PollerTypeOK /\ PollerAhead(p)
  BY DEF BridgeInv, IInv, BridgeTypeOK, PollersAhead
<1>2. /\ cursor[p] \in Nat /\ newest[p] \in Nat /\ batch[p] \in SUBSET Post
      /\ \A q \in batch[p] : q.id \in Nat
  BY <1>1 DEF PollerTypeOK, Post
<1>3. ~Emit(p) => \A n \in Nat : DeliveredUpTo(p, n) => DeliveredUpTo(p, n)'
  BY <1>1, ReadingIsSame, DeliveredKept DEF QuietPolling, Poll, PollNothing, Saved
<1>4. CASE Poll(p)
  <2>1. /\ lpc[p] \in {"start", "idle"} /\ Page(p) # {}
        /\ cursor'[p] = cursor[p] /\ newest'[p] = Newest(Page(p))
        /\ batch'[p] \subseteq Page(p)
        /\ lpc'[p] = IF batch'[p] = {} THEN "save" ELSE "emit"
    BY <1>1, <1>4 DEF Poll, PollerTypeOK
  <2>2. /\ \A q \in Page(p) : q.plat = p /\ q.id > cursor[p] /\ q.id <= newest'[p] /\ q.id \in Nat
        /\ newest'[p] \in Nat /\ cursor[p] < newest'[p]
    <3>1. Page(p) \subseteq Post
      BY <1>1 DEF Page, TypeOK
    <3> QED BY <1>1, <1>2, <2>1, <3>1, PageIsNew DEF Post
  <2>3. DeliveredUpTo(p, cursor[p])
    BY <1>1, <2>1 DEF PollerAhead
  <2>4. \A n \in Nat : cursor[p] <= n => DeliveredUpTo(p, n)'
    <3> SUFFICES ASSUME NEW n \in Nat, cursor[p] <= n PROVE DeliveredUpTo(p, n)'
      OBVIOUS
    <3>1. DeliveredUpTo(p, n)
      BY <1>1, <1>2, <2>3, DeliveredFurther
    <3>2. ~Emit(p)
      BY <2>1 DEF Emit
    <3> QED BY <1>3, <3>1, <3>2
  <2>5. DeliveredUpTo(p, newest[p])'
    BY <1>2, <2>2, <2>4 DEF DeliveredUpTo
  <2>6. \A q \in batch'[p] : DeliveredUpTo(p, q.id)'
    BY <1>2, <2>1, <2>2, <2>4 DEF DeliveredUpTo
  <2> QED BY <1>2, <2>1, <2>2, <2>5, <2>6 DEF PollerAhead
<1>5. CASE PollNothing(p)
  <2>1. UNCHANGED <<cursor, batch, newest>> /\ lpc'[p] = "idle" /\ lpc[p] = "start"
    BY <1>1, <1>5 DEF PollNothing, PollerTypeOK
  <2>2. DeliveredUpTo(p, cursor[p])'
    BY <1>1, <1>2, <1>3, <2>1 DEF PollerAhead, DeliveredUpTo, Emit
  <2> QED BY <1>1, <2>1, <2>2 DEF PollerAhead
<1>6. CASE Emit(p)
  <2> DEFINE post == NextOf(batch[p])
  <2>1. /\ post \in Post /\ post \in batch[p] /\ post.plat = p /\ post.id <= newest[p]
        /\ \A q \in batch[p] : post.id <= q.id
        /\ sink' = Append(sink, post) /\ UNCHANGED <<posts, pc, cur>>
    BY <1>6, EmittedNext
  <2>2. /\ lpc[p] = "emit" /\ batch'[p] = batch[p] \ {post}
        /\ lpc'[p] = IF batch'[p] = {} THEN "save" ELSE "emit"
        /\ cursor' = cursor /\ newest' = newest
    BY <1>1, <1>6 DEF Emit, PollerTypeOK
  <2> HIDE DEF post
  <2>3. \A n \in Nat : DeliveredUpTo(p, n) /\ post.id <= n => DeliveredUpTo(p, n)'
    BY <1>1, <2>1, DeliveredOneMore
  <2>4. DeliveredUpTo(p, newest[p])'
    BY <1>1, <1>2, <2>1, <2>2, <2>3 DEF PollerAhead, DeliveredUpTo
  <2>5. \A q \in batch'[p] : DeliveredUpTo(p, q.id)'
    BY <1>1, <1>2, <2>1, <2>2, <2>3 DEF PollerAhead, DeliveredUpTo
  <2> QED BY <1>1, <2>1, <2>2, <2>4, <2>5 DEF PollerAhead
<1>7. CASE Saved(p)
  <2>1. /\ lpc[p] = "save" /\ lpc'[p] = "idle" /\ batch' = batch /\ cursor'[p] = newest[p]
    BY <1>1, <1>7 DEF Saved, Save, PollerTypeOK
  <2>2. DeliveredUpTo(p, newest[p]) /\ ~Emit(p) /\ batch[p] = {}
    BY <1>1, <2>1 DEF PollerAhead, Emit
  <2>3. DeliveredUpTo(p, cursor[p])'
    BY <1>2, <1>3, <2>1, <2>2 DEF DeliveredUpTo
  <2> QED BY <2>1, <2>2, <2>3 DEF PollerAhead
<1> QED BY <1>4, <1>5, <1>6, <1>7 DEF QuietPolling

LEMMA PollersAheadKept ==
  ASSUME BridgeInv, PollersAhead, StreamsAhead, [BridgeNext]_allVars
  PROVE  PollersAhead'
<1> SUFFICES ASSUME Undisturbed', NEW r \in Pollers PROVE PollerAhead(r)'
  BY DEF PollersAhead
<1>1. Undisturbed /\ TypeOK /\ PollerTypeOK /\ PollerAhead(r)
  BY NoFault DEF BridgeInv, BridgeTypeOK, IInv, PollersAhead
<1>2. CASE UNCHANGED pollerVars /\ (Receive \/ Create \/ Same)
  BY <1>1, <1>2, DeliveredKept, PollerUnmoved DEF pollerVars
<1>3. ASSUME NEW p \in Streams, QuietStreaming(p), UNCHANGED pollerVars
      PROVE  PollerAhead(r)'
  <2>1. CASE EmitEvent(p)
    <3>1. PICK post \in posts : /\ post \in Post /\ post.plat = p
                               /\ sink' = Append(sink, post) /\ UNCHANGED <<posts, pc, cur>>
      BY <1>1, <2>1, EmittedEvent
    <3>2. post.plat # r
      BY <3>1, JetstreamAssumption
    <3> QED BY <1>1, <1>3, <3>1, <3>2, DeliveredOneMore, PollerUnmoved DEF pollerVars
  <2>2. CASE Dial(p) \/ Read(p) \/ Flushed(p) \/ Dropped(p)
    BY <1>2, <1>3, <2>2, ReadingIsSame DEF Dial, Read, Flushed, Dropped
  <2> QED BY <1>3, <2>1, <2>2 DEF QuietStreaming
<1>4. ASSUME NEW p \in Pollers, QuietPolling(p), p # r
      PROVE  PollerAhead(r)'
  <2>1. /\ lpc'[r] = lpc[r] /\ batch'[r] = batch[r]
        /\ cursor'[r] = cursor[r] /\ newest'[r] = newest[r]
    BY <1>1, <1>4 DEF QuietPolling, Poll, PollNothing, Emit, Saved, Save, PollerTypeOK
  <2>2. \A n \in Nat : DeliveredUpTo(r, n) => DeliveredUpTo(r, n)'
    <3>1. CASE Emit(p)
      BY <1>1, <1>4, <3>1, EmittedNext, DeliveredOneMore
    <3>2. CASE Poll(p) \/ PollNothing(p) \/ Saved(p)
      BY <1>1, <3>2, ReadingIsSame, DeliveredKept DEF Poll, PollNothing, Saved
    <3> QED BY <1>4, <3>1, <3>2 DEF QuietPolling
  <2> QED BY <1>1, <2>1, <2>2, PollerUnmoved
<1> QED BY <1>1, <1>2, <1>3, <1>4, PollerMoved, QuietStep DEF listeners

LEMMA StreamUnmoved ==
  ASSUME StreamTypeOK, NEW p \in Streams, StreamAhead(p),
         /\ streamCursor'[p] = streamCursor[p] /\ conn'[p] = conn[p]
         /\ pos'[p] = pos[p] /\ lastCursor'[p] = lastCursor[p],
         \A n \in Nat : DeliveredUpTo(p, n) => DeliveredUpTo(p, n)'
  PROVE  StreamAhead(p)'
<1>1. Last(p) \in Nat /\ Last(p)' = Last(p)
  BY DEF StreamTypeOK, Last
<1>2. DeliveredUpTo(p, Last(p)) => DeliveredUpTo(p, Last(p))'
  BY <1>1 DEF DeliveredUpTo
<1> QED BY <1>1, <1>2 DEF StreamAhead

LEMMA StreamMoved ==
  ASSUME BridgeInv, Undisturbed, StreamsAhead, NEW p \in Streams, QuietStreaming(p)
  PROVE  StreamAhead(p)'
<1>1. TypeOK /\ PostsExist /\ StreamTypeOK /\ StreamAhead(p)
  BY DEF BridgeInv, IInv, BridgeTypeOK, StreamsAhead
<1>2. /\ streamCursor[p] \in Nat /\ pos[p] \in Nat /\ lastCursor[p] \in Nat
      /\ Last(p) \in Nat
  BY <1>1 DEF StreamTypeOK, Last
<1>3. ~EmitEvent(p) => \A n \in Nat : DeliveredUpTo(p, n) => DeliveredUpTo(p, n)'
  BY <1>1, ReadingIsSame, DeliveredKept DEF QuietStreaming, Dial, Read, Flushed, Dropped
<1>4. ASSUME ~EmitEvent(p), Last(p)' = Last(p) PROVE DeliveredUpTo(p, Last(p))'
  BY <1>1, <1>2, <1>3, <1>4 DEF StreamAhead, DeliveredUpTo
<1>5. CASE Dial(p)
  <2>1. /\ conn[p] = "idle" /\ conn'[p] = "reading" /\ pos'[p] \in Resume(p)
        /\ streamCursor' = streamCursor /\ lastCursor' = lastCursor
    BY <1>1, <1>5 DEF Dial, StreamTypeOK
  <2>2. Last(p)' = Last(p) /\ Last(p) = streamCursor[p] /\ ~EmitEvent(p)
    BY <1>1, <2>1 DEF Last, StreamAhead, EmitEvent
  <2>3. Last(p) <= pos'[p] + 1
    <3>1. pos'[p] \in Resume(p) /\ nextId[p] \in Nat
      BY <1>1, <2>1 DEF TypeOK
    <3>2. \A at \in Resume(p) : streamCursor[p] <= at + 1
      BY <1>1, <1>2, <3>1 DEF Resume, TypeOK, NoID
    <3> QED BY <2>2, <3>1, <3>2
  <2> QED BY <1>1, <1>4, <2>1, <2>2, <2>3 DEF StreamAhead
<1>6. CASE Read(p)
  <2>1. /\ conn[p] = "reading" /\ conn'[p] \in {"reading", "emit"} /\ pos'[p] = pos[p] + 1
        /\ streamCursor' = streamCursor /\ lastCursor' = lastCursor
    BY <1>1, <1>6 DEF Read, StreamTypeOK
  <2>2. Last(p)' = Last(p) /\ Last(p) <= pos[p] + 1 /\ ~EmitEvent(p)
    BY <1>1, <2>1 DEF Last, StreamAhead, EmitEvent
  <2> QED BY <1>1, <1>2, <1>4, <2>1, <2>2 DEF StreamAhead
<1>7. CASE EmitEvent(p)
  <2>1. /\ conn[p] = "emit" /\ conn'[p] \in {"reading", "flush"} /\ pos' = pos
        /\ streamCursor' = streamCursor /\ lastCursor'[p] = pos[p]
    BY <1>1, <1>7 DEF EmitEvent, StreamTypeOK
  <2>2. /\ Last(p) <= pos[p] /\ pos[p] # NoID /\ DeliveredUpTo(p, pos[p])
        /\ UNCHANGED <<posts, pc, cur>>
    BY <1>7, EmittedEvent
  <2>3. PICK post \in posts : /\ post \in Post /\ post.plat = p /\ post.id = pos[p]
                             /\ sink' = Append(sink, post)
    BY <1>7, EmittedEvent
  <2>4. Last(p)' = pos[p]
    BY <2>1, <2>2 DEF Last
  <2>5. \A n \in Nat : n = pos[p] => DeliveredUpTo(p, n)'
    <3> SUFFICES ASSUME NEW n \in Nat, n = pos[p] PROVE DeliveredUpTo(p, n)'
      OBVIOUS
    <3>1. DeliveredUpTo(p, n) /\ post.id <= n
      BY <1>2, <2>2, <2>3
    <3> QED BY <1>1, <2>2, <2>3, <3>1, DeliveredOneMore
  <2>6. DeliveredUpTo(p, Last(p))'
    BY <1>2, <2>4, <2>5 DEF DeliveredUpTo
  <2> QED BY <1>1, <1>2, <2>1, <2>2, <2>4, <2>6 DEF StreamAhead
<1>8. CASE Flushed(p)
  <2>1. streamCursor'[p] = Last(p) /\ ~EmitEvent(p)
    BY <1>1, <1>8 DEF Flushed, StreamTypeOK, PeriodicFlush, CloseTail, EmitEvent
  <2>2. CASE PeriodicFlush(p)
    <3>1. conn[p] = "flush" /\ conn'[p] = "reading" /\ pos' = pos /\ lastCursor' = lastCursor
      BY <1>1, <2>2 DEF PeriodicFlush, StreamTypeOK
    <3>2. Last(p)' = Last(p) /\ Last(p) <= pos[p]
      BY <1>1, <1>2, <2>1, <3>1 DEF Last, StreamAhead
    <3> QED BY <1>1, <1>2, <1>4, <2>1, <3>1, <3>2 DEF StreamAhead
  <2>3. CASE CloseTail(p)
    <3>1. conn'[p] = "idle" /\ lastCursor'[p] = NoID
      BY <1>1, <2>3 DEF CloseTail, StreamTypeOK
    <3>2. Last(p)' = Last(p)
      BY <2>1, <3>1 DEF Last
    <3> QED BY <1>2, <1>4, <2>1, <3>1, <3>2 DEF StreamAhead
  <2> QED BY <1>8, <2>2, <2>3 DEF Flushed
<1>9. CASE Dropped(p)
  <2>1. /\ conn'[p] = "closing" /\ streamCursor' = streamCursor /\ lastCursor' = lastCursor
        /\ ~EmitEvent(p)
    BY <1>1, <1>9 DEF Dropped, Disconnect, StreamTypeOK, tailVars, EmitEvent
  <2> QED BY <1>1, <1>4, <2>1 DEF StreamAhead, Last
<1> QED BY <1>5, <1>6, <1>7, <1>8, <1>9 DEF QuietStreaming

LEMMA StreamsAheadKept ==
  ASSUME BridgeInv, PollersAhead, StreamsAhead, [BridgeNext]_allVars
  PROVE  StreamsAhead'
<1> SUFFICES ASSUME Undisturbed', NEW r \in Streams PROVE StreamAhead(r)'
  BY DEF StreamsAhead
<1>1. Undisturbed /\ TypeOK /\ StreamTypeOK /\ StreamAhead(r)
  BY NoFault DEF BridgeInv, BridgeTypeOK, IInv, StreamsAhead
<1>2. CASE UNCHANGED streamVars /\ (Receive \/ Create \/ Same)
  BY <1>1, <1>2, DeliveredKept, StreamUnmoved DEF streamVars, tailVars
<1>3. ASSUME NEW p \in Pollers, QuietPolling(p), UNCHANGED streamVars
      PROVE  StreamAhead(r)'
  <2>1. CASE Emit(p)
    <3>1. p # r
      BY JetstreamAssumption
    <3> QED BY <1>1, <1>3, <2>1, <3>1, EmittedNext, DeliveredOneMore, StreamUnmoved
            DEF streamVars, tailVars
  <2>2. CASE Poll(p) \/ PollNothing(p) \/ Saved(p)
    BY <1>2, <1>3, <2>2, ReadingIsSame DEF Poll, PollNothing, Saved
  <2> QED BY <1>3, <2>1, <2>2 DEF QuietPolling
<1>4. ASSUME NEW p \in Streams, QuietStreaming(p), p # r
      PROVE  StreamAhead(r)'
  <2>1. /\ streamCursor'[r] = streamCursor[r] /\ conn'[r] = conn[r]
        /\ pos'[r] = pos[r] /\ lastCursor'[r] = lastCursor[r]
    BY <1>1, <1>4 DEF QuietStreaming, Dial, Read, EmitEvent, Flushed, PeriodicFlush, CloseTail,
       Dropped, Disconnect, tailVars, StreamTypeOK
  <2>2. \A n \in Nat : DeliveredUpTo(r, n) => DeliveredUpTo(r, n)'
    <3>1. CASE EmitEvent(p)
      BY <1>1, <1>4, <3>1, EmittedEvent, DeliveredOneMore
    <3>2. CASE Dial(p) \/ Read(p) \/ Flushed(p) \/ Dropped(p)
      BY <1>1, <3>2, ReadingIsSame, DeliveredKept DEF Dial, Read, Flushed, Dropped
    <3> QED BY <1>4, <3>1, <3>2 DEF QuietStreaming
  <2> QED BY <1>1, <2>1, <2>2, StreamUnmoved
<1> QED BY <1>1, <1>2, <1>3, <1>4, StreamMoved, QuietStep DEF listeners

OrderInv == BridgeInv /\ InOrder /\ PollersAhead /\ StreamsAhead

LEMMA OrderInvariance == BridgeSpec => []OrderInv
<1>1. BridgeInit => InOrder /\ PollersAhead /\ StreamsAhead
  <2> SUFFICES ASSUME BridgeInit PROVE InOrder /\ PollersAhead /\ StreamsAhead
    OBVIOUS
  <2>1. sink = <<>> /\ Len(sink) = 0 /\ Copies = {} /\ pc \in Idle
    BY DEF BridgeInit, Init, Copies, Idle
  <2>2. \A p, n : DeliveredUpTo(p, n)
    BY <2>1 DEF DeliveredUpTo
  <2> QED BY <2>1, <2>2 DEF BridgeInit, PollerInit, StreamInit, InOrder, CopiedInOrder,
          PollersAhead, PollerAhead, StreamsAhead, StreamAhead, Last, NoID
<1>2. BridgeInv /\ InOrder /\ PollersAhead /\ StreamsAhead /\ [BridgeNext]_allVars
        => InOrder' /\ PollersAhead' /\ StreamsAhead'
  BY InOrderKept, PollersAheadKept, StreamsAheadKept
<1> QED BY <1>1, <1>2, BridgeInvariance, PTL DEF BridgeSpec, OrderInv

(* Without a fault, whatever the listeners read, in whatever pages and     *)
(* connections, the posts of a platform appear on another one in the order *)
(* their author wrote them.                                                *)
THEOREM OldestFirst == BridgeSpec => []CopiedInOrder
<1>1. OrderInv => CopiedInOrder
  BY DEF OrderInv, InOrder, CopiedInOrder
<1> QED BY <1>1, OrderInvariance, PTL

(***************************************************************************)
(* Nothing is forgotten, where no page is cut.                             *)
(***************************************************************************)
PagesHold ==
  \A p \in Pollers :
    Cardinality({q \in posts : q.plat = p /\ q.id > cursor[p]}) <= PageSize[p]

LEMMA TextsDiffered ==
  ASSUME IInv, [Next]_vars, TextsDiffer'
  PROVE  TextsDiffer
<1>1. UserPosts \subseteq UserPosts'
  BY PostsGrow DEF UserPosts, IInv
<1> QED BY <1>1 DEF TextsDiffer

Targets(o) == {Routes[o.plat][i] : i \in 1..Len(Routes[o.plat])}
InTodo(t)  == \E j \in 1..Len(todo) : todo[j] = t
InSink(o)  == \E i \in 1..Len(sink) : sink[i] = o

AllSettled(o) == \A t \in Targets(o) : Settled(o, t)
Handled(o)    == InSink(o) \/ cur = o \/ AllSettled(o)

(* The targets of the post in hand are settled or still to do, and a hash  *)
(* is in the table only if the post it is of was settled everywhere.       *)
InHand == Working \cup {"mark"}

TargetsLeft == /\ \A t \in Targets(cur) : Settled(cur, t) \/ InTodo(t)
               /\ \A t \in Platforms : InTodo(t) => t \in Targets(cur)
               /\ cur.fromId = NoID /\ Hash[cur.text] \notin seen

Progress ==
  Undisturbed =>
    /\ pc \in InHand => TargetsLeft
    /\ NoHash \notin seen
    /\ \A h \in seen : \E r \in UserPosts : Hash[r.text] = h /\ AllSettled(r)
    /\ \A r \in rows : r.originId # NoID

(* A step that is not the consumer's leaves it and the table alone.        *)
Elsewhere == /\ UNCHANGED <<rows, pc, cur, todo, parent, bridged>> /\ seen' \subseteq seen
             /\ posts \subseteq posts' /\ Copies' = Copies

QuietConsumer == \/ Receive \/ CheckOurs \/ CheckSeen \/ Claim \/ ResolveParent
                 \/ BeginAttempt \/ Create \/ Answer \/ Refuse \/ Complete \/ Fail \/ Mark

LEMMA QuietEngine ==
  ASSUME BridgeInv, [BridgeNext]_allVars, Undisturbed'
  PROVE  Elsewhere \/ (QuietConsumer /\ UNCHANGED listeners)
<1> USE DEF store, world, local
<1>1. CASE ConsumerStep
  BY <1>1, NoFault DEF ConsumerStep, Consumer, QuietConsumer, LoseAnswer, PostFails, Return
<1>2. CASE Outside
  <2>1. ASSUME NEW q, NEW txt, NEW par, Publish(q, txt, par) PROVE Elsewhere
    BY <2>1, PublishedIsNoCopy DEF Publish, Elsewhere
  <2>2. ASSUME NEW h, Expire(h) PROVE Elsewhere
    BY <2>2 DEF Expire, Elsewhere, Copies
  <2> QED BY <1>2, <2>1, <2>2, NoFault DEF Outside, Surroundings, Cancel
<1>3. ASSUME NEW p \in Pollers, QuietPolling(p) PROVE Elsewhere
  BY <1>3 DEF QuietPolling, Poll, PollNothing, Emit, Saved, vars, Elsewhere, Copies
<1>4. ASSUME NEW p \in Streams, QuietStreaming(p) PROVE Elsewhere
  BY <1>4 DEF QuietStreaming, Dial, Read, EmitEvent, Flushed, Dropped, ListenerTrouble,
     vars, Elsewhere, Copies
<1>5. CASE UNCHANGED allVars
  BY <1>5 DEF allVars, vars, Elsewhere, Copies
<1>6. CASE \/ \E p \in Pollers : Polling(p)
           \/ \E p \in Streams : Streaming(p)
           \/ BridgeExit \/ BridgeCrash \/ BridgeRestart
  <2>1. CASE \E p \in Pollers : Polling(p)
    BY <1>3, <2>1, NoFault DEF Polling, PollerStep, QuietPolling, Saved, GiveUp, Save,
       StopPolling, ListenerTrouble
  <2>2. ASSUME NEW p \in Streams, Streaming(p) PROVE Elsewhere
    <3>1. FlushCursor(p) => UNCHANGED vars
      BY NoFault DEF FlushCursor, ListenerTrouble
    <3>2. CASE PeriodicFlush(p) \/ CloseTail(p)
      BY <3>1, <3>2 DEF PeriodicFlush, CloseTail, vars, Elsewhere, Copies
    <3> QED BY <1>4, <2>2, <3>2, NoFault DEF Streaming, StreamStep, QuietStreaming, Dropped,
            Disconnect, StopTailing
  <2>3. CASE BridgeExit \/ BridgeCrash \/ BridgeRestart
    BY <2>3, NoFault DEF BridgeExit, BridgeCrash, BridgeRestart, Exit, Crash, Restart
  <2> QED BY <1>6, <2>1, <2>2, <2>3
<1> QED BY <1>1, <1>2, <1>5, <1>6 DEF BridgeNext

LEMMA TodoShrinks ==
  ASSUME TypeOK, pc \in Working, todo' = Tail(todo)
  PROVE  /\ \A t : InTodo(t) => t = Target \/ InTodo(t)'
         /\ \A t : InTodo(t)' => InTodo(t)
<1>1. /\ todo \in Seq(Platforms) /\ todo # <<>>
  BY DEF TypeOK, Working
<1>2. /\ Target = todo[1] /\ Len(todo') = Len(todo) - 1
      /\ \A j \in 1..Len(todo') : todo'[j] = todo[j + 1]
  BY <1>1 DEF Target
<1>3. \A j \in 1..Len(todo) : j = 1 \/ j - 1 \in 1..Len(todo')
  BY <1>1, <1>2
<1>4. \A j \in 1..Len(todo') : j + 1 \in 1..Len(todo)
  BY <1>1, <1>2
<1>5. \A j \in 1..Len(todo) : j # 1 => todo'[j - 1] = todo[j]
  BY <1>1, <1>2, <1>3
<1>6. ASSUME NEW t, InTodo(t), t # Target PROVE InTodo(t)'
  <2>1. PICK j \in 1..Len(todo) : todo[j] = t
    BY <1>6 DEF InTodo
  <2>2. j # 1
    BY <1>2, <1>6, <2>1
  <2> QED BY <1>3, <1>5, <2>1, <2>2 DEF InTodo
<1>7. ASSUME NEW t, InTodo(t)' PROVE InTodo(t)
  <2>1. PICK j \in 1..Len(todo') : todo'[j] = t
    BY <1>7 DEF InTodo
  <2> QED BY <1>2, <1>4, <2>1 DEF InTodo
<1> QED BY <1>6, <1>7

(* A pair that was settled stays settled, unless its post comes again and  *)
(* its failure is cleared for a new attempt.                               *)
LEMMA SettledKept ==
  ASSUME IInv, UniqueIds, [Next]_vars, NEW o \in posts, NEW t, Settled(o, t),
         ~(pc = "claim" /\ o = cur /\ t = Target)
  PROVE  Settled(o, t)'
<1> USE DEF Slot
<1>1. PICK r \in rows : /\ r.origin = o.plat /\ r.originId = o.id /\ r.target = t
                       /\ r.status \in {StatusOK, StatusError}
  BY DEF Settled
<1>2. CASE Granted
  <2>1. cur \in posts
    BY <1>2 DEF Granted, IInv, PostsExist, Idle
  <2>2. r \notin Slot(rows, cur, Target)
    BY <1>1, <1>2, <2>1 DEF Granted, UniqueIds
  <2> QED BY <1>1, <1>2, <2>2, ClaimGranted DEF Granted, Settled
<1>3. CASE Records \/ Reports
  <2>1. rows \subseteq Row(Platforms)
    BY DEF IInv, TypeOK
  <2>2. CASE r \notin Slot(rows, cur, Target)
    BY <1>1, <1>3, <2>2, OtherRowsStay DEF Records, Reports, Settled
  <2>3. CASE r \in Slot(rows, cur, Target)
    <3>1. CASE Records
      <4> DEFINE s == [r EXCEPT !.targetId = made, !.status = StatusOK]
      <4>1. s \in rows'
        BY <2>3, <3>1 DEF Records, CompleteBridge
      <4>2. /\ s.origin = r.origin /\ s.originId = r.originId /\ s.target = r.target
            /\ s.status = StatusOK
        BY <2>1 DEF Row
      <4> HIDE DEF s
      <4> QED BY <1>1, <4>1, <4>2 DEF Settled
    <3>2. CASE Reports
      <4> DEFINE s == [r EXCEPT !.status = StatusError]
      <4>1. s \in rows'
        BY <2>3, <3>2 DEF Reports, FailBridge
      <4>2. /\ s.origin = r.origin /\ s.originId = r.originId /\ s.target = r.target
            /\ s.status = StatusError
        BY <2>1 DEF Row
      <4> HIDE DEF s
      <4> QED BY <1>1, <4>1, <4>2 DEF Settled
    <3> QED BY <1>3, <3>1, <3>2
  <2> QED BY <2>2, <2>3
<1>4. rows' = rows => Settled(o, t)'
  BY <1>1 DEF Settled
<1> QED
  BY <1>2, <1>3, <1>4, Steps DEF IInv, Aside, Receive, PassesGuard, StartsLoop, MovesOn,
     ResolveParent, BeginAttempt, Create, Answer, Refuse, LoseAnswer, PostFails, store

(* The guard never stops a user's post: what the table records is a copy.  *)
LEMMA GuardStopsCopies ==
  ASSUME BridgeInv, Undisturbed, Progress, NEW o \in UserPosts
  PROVE  ~IsBridgedTarget(rows, o)
<1> SUFFICES ASSUME NEW r \in rows, r.target = o.plat, r.targetId = o.id PROVE FALSE
  BY DEF IsBridgedTarget
<1>1. o \in posts /\ o.id # NoID /\ o.fromId = NoID
  BY DEF UserPosts, BridgeInv, IInv, PostsExist
<1>2. r.status = StatusOK
  BY <1>1 DEF BridgeInv, IInv, ClaimHeld
<1>3. PICK c \in posts : /\ c.plat = r.target /\ c.id = r.targetId
                        /\ c.from = r.origin /\ c.fromId = r.originId
  BY <1>2 DEF BridgeInv, IInv, AnswerIsCopy, RecordedCopyExists
<1>4. c = o
  BY <1>1, <1>3 DEF BridgeInv, UniqueIds
<1> QED BY <1>1, <1>3, <1>4 DEF Progress

(* When bridge leaves a target, the pair is settled.                       *)
LEMMA LeftIsSettled ==
  ASSUME BridgeInv, Undisturbed, ~StoreFails, (Claim /\ ~Granted) \/ Complete \/ Fail,
         NEW o, NEW t, o = cur, t = Target
  PROVE  Settled(o, t)'
<1>1. TypeOK /\ ClaimHeld /\ PendingIsBeingWorkedOn /\ rows \subseteq Row(Platforms)
  BY DEF BridgeInv, IInv, TypeOK
<1>2. CASE Claim /\ ~Granted
  <2>1. ~Claims(rows, cur, Target) /\ rows' = rows
    BY <1>2 DEF Claim, Granted, world
  <2>2. PICK r \in Slot(rows, cur, Target) : r.status # StatusError
    BY <2>1 DEF Claims
  <2>3. r \in rows /\ r.status # StatusPending
    BY <1>1, <1>2, <2>2 DEF PendingIsBeingWorkedOn, Claim, Slot
  <2>4. r.status = StatusOK
    BY <1>1, <2>2, <2>3 DEF Row, Status
  <2> QED BY <2>1, <2>2, <2>4 DEF Settled, Slot
<1>3. CASE Complete \/ Fail
  <2>1. PICK r \in Slot(rows, cur, Target) : TRUE
    BY <1>1, <1>3 DEF ClaimHeld, HoldsClaim, Working, Complete, Fail
  <2>2. r \in Row(Platforms) /\ r.origin = o.plat /\ r.originId = o.id /\ r.target = t
    BY <1>1, <2>1 DEF Slot
  <2>3. CASE Complete
    <3> DEFINE s == [r EXCEPT !.targetId = made, !.status = StatusOK]
    <3>1. s \in rows'
      BY <2>1, <2>3 DEF Complete, CompleteBridge, Slot
    <3>2. s.origin = r.origin /\ s.originId = r.originId /\ s.target = r.target /\ s.status = StatusOK
      BY <2>2 DEF Row
    <3> HIDE DEF s
    <3> QED BY <2>2, <3>1, <3>2 DEF Settled, Slot
  <2>4. CASE Fail
    <3> DEFINE s == [r EXCEPT !.status = StatusError]
    <3>1. s \in rows'
      BY <2>1, <2>4 DEF Fail, FailBridge, Slot
    <3>2. /\ s.origin = r.origin /\ s.originId = r.originId /\ s.target = r.target
          /\ s.status = StatusError
      BY <2>2 DEF Row
    <3> HIDE DEF s
    <3> QED BY <2>2, <3>1, <3>2 DEF Settled, Slot
  <2> QED BY <1>3, <2>3, <2>4
<1> QED BY <1>2, <1>3

(* What was settled everywhere stays so, if it is not the post in hand.    *)
LEMMA AllSettledKept ==
  ASSUME BridgeInv, [Next]_vars, NEW o \in posts, AllSettled(o), pc = "claim" => o # cur
  PROVE  AllSettled(o)'
<1>1. IInv /\ UniqueIds
  BY DEF BridgeInv
<1>2. \A t \in Targets(o) : Settled(o, t) => Settled(o, t)'
  BY <1>1, SettledKept
<1> QED BY <1>2 DEF AllSettled, Targets

LEMMA ProgressKept ==
  ASSUME BridgeInv, Progress, TextsDiffer, [BridgeNext]_allVars
  PROVE  Progress'
<1> SUFFICES ASSUME Undisturbed' PROVE Progress'
  BY DEF Progress
<1> USE DEF InHand, Working
<1>1. /\ [Next]_vars /\ Undisturbed /\ ~StoreFails /\ IInv /\ UniqueIds /\ TypeOK
  BY NoFault DEF BridgeInv, IInv
<1>2. /\ pc \in InHand => TargetsLeft
      /\ NoHash \notin seen
      /\ \A h \in seen : \E r \in UserPosts : Hash[r.text] = h /\ AllSettled(r)
      /\ \A r \in rows : r.originId # NoID
  BY <1>1 DEF Progress
<1>3. pc \notin Idle => cur \in posts /\ cur.id # NoID
  BY <1>1 DEF IInv, PostsExist
<1>4. posts \subseteq posts' /\ UserPosts \subseteq UserPosts' /\ UserPosts \subseteq posts
  BY <1>1, PostsGrow DEF UserPosts
(* The table. *)
<1>5. \A r \in rows' : r.originId # NoID
  <2>1. rows \subseteq Row(Platforms)
    BY <1>1 DEF TypeOK
  <2>2. CASE Granted
    BY <1>2, <1>3, <2>2, ClaimGranted DEF Granted, NewRow, Idle
  <2>3. CASE Records \/ Reports
    <3>1. cur.id # NoID
      BY <1>3, <2>3 DEF Records, Reports, Idle
    <3>2. Records => \A r \in rows' : r \in rows \/ r.originId = cur.id
      BY <2>1, CompletedRow DEF Records
    <3>3. Reports => \A r \in rows' : r \in rows \/ r.originId = cur.id
      BY <2>1, FailedRow DEF Reports
    <3> QED BY <1>2, <2>3, <3>1, <3>2, <3>3
  <2> QED
    BY <1>1, <1>2, <2>2, <2>3, Steps DEF Aside, Receive, PassesGuard, StartsLoop, MovesOn,
       ResolveParent, BeginAttempt, Create, Answer, Refuse, LoseAnswer, PostFails, store
(* The table of hashes. *)
<1>6. /\ NoHash \notin seen'
      /\ \A h \in seen' : \E r \in UserPosts' : Hash[r.text] = h /\ AllSettled(r)'
  <2>1. ASSUME NEW h \in seen PROVE \E r \in UserPosts : Hash[r.text] = h /\ AllSettled(r)'
    <3>1. PICK r \in UserPosts : Hash[r.text] = h /\ AllSettled(r)
      BY <1>2
    <3>2. pc = "claim" => r # cur
      BY <1>2, <3>1 DEF TargetsLeft
    <3> QED BY <1>1, <1>4, <3>1, <3>2, AllSettledKept
  <2>2. CASE seen' \subseteq seen
    BY <1>2, <1>4, <2>1, <2>2
  <2>3. CASE Mark
    <3>1. pc = "mark" /\ todo = <<>> /\ rows' = rows /\ cur \in posts
      BY <1>1, <1>3, <2>3 DEF Mark, TypeOK, Idle
    <3>2. PICK o \in UserPosts : o = cur /\ AllSettled(o)
      BY <1>2, <3>1 DEF UserPosts, AllSettled, InTodo, TargetsLeft
    <3>3. AllSettled(o)'
      BY <3>1, <3>2 DEF AllSettled, Targets, Settled
    <3>4. \A h \in seen' : h \in seen \/ (h = Hash[cur.text] /\ h # NoHash)
      BY <2>3 DEF Mark, MarkSeen
    <3>5. \A h \in seen' : h \in seen \/ h = Hash[o.text]
      BY <3>2, <3>4
    <3>6. \A h \in seen' : \E r \in UserPosts : Hash[r.text] = h /\ AllSettled(r)'
      BY <2>1, <3>3, <3>5
    <3> QED BY <1>2, <1>4, <3>4, <3>6
  <2>4. seen' \subseteq seen \/ Mark
    BY QuietEngine DEF Elsewhere, QuietConsumer, Receive, CheckOurs, CheckSeen, Claim,
       ResolveParent, BeginAttempt, Create, Answer, Refuse, PostFails, Complete, Fail, store
  <2> QED BY <2>2, <2>3, <2>4
(* The post in hand. *)
<1>7. pc' \in InHand => TargetsLeft'
  <2>1. ASSUME UNCHANGED <<cur, todo, rows>>, seen' \subseteq seen, pc \in InHand
        PROVE  TargetsLeft'
    <3>1. Targets(cur)' = Targets(cur) /\ \A t : InTodo(t)' = InTodo(t)
      BY <2>1 DEF Targets, InTodo
    <3>2. \A t : Settled(cur, t) => Settled(cur, t)'
      BY <2>1 DEF Settled
    <3> QED BY <1>2, <2>1, <3>1, <3>2 DEF TargetsLeft
  <2>2. CASE Elsewhere
    BY <2>1, <2>2 DEF Elsewhere
  <2>3. CASE ResolveParent \/ BeginAttempt \/ Create \/ Answer \/ Refuse
    BY <2>1, <2>3 DEF ResolveParent, BeginAttempt, Create, Answer, Refuse, PostFails, store, local
  <2>4. CASE Receive \/ CheckOurs \/ Mark
    BY <2>4 DEF Receive, CheckOurs, Mark, Done
  <2>5. CASE CheckSeen
    <3> SUFFICES ASSUME pc' \in InHand PROVE TargetsLeft'
      OBVIOUS
    <3>1. /\ pc = "seen" /\ pc' = "claim" /\ todo' = Routes[cur.plat]
          /\ UNCHANGED <<cur, rows, seen>> /\ Hash[cur.text] \notin seen
      BY <1>1, <1>2, <2>5 DEF CheckSeen, Route, Done, SeenRecently, store
    <3>2. cur'.fromId = NoID /\ Hash[cur'.text] \notin seen'
      BY <1>1, <3>1 DEF IInv, CopiesRecorded
    <3>3. \A t : InTodo(t)' <=> t \in Targets(cur)'
      BY <3>1 DEF InTodo, Targets
    <3> QED BY <3>2, <3>3 DEF TargetsLeft
  <2>6. CASE Claim /\ Granted
    <3>1. UNCHANGED <<cur, todo, seen>> /\ pc = "claim"
      BY <2>6 DEF Claim, Granted
    <3>2. cur \in posts /\ InTodo(Target)
      BY <1>1, <1>3, <3>1 DEF Idle, InTodo, TypeOK, Target
    <3>3. Targets(cur)' = Targets(cur) /\ \A t : InTodo(t)' = InTodo(t)
      BY <3>1 DEF Targets, InTodo
    <3>4. \E o \in posts : o = cur
      BY <3>2
    <3>5. \A t : Settled(cur, t) => t = Target \/ Settled(cur, t)'
      <4> SUFFICES ASSUME NEW o \in posts, o = cur, NEW t, Settled(o, t), t # Target
                   PROVE  Settled(o, t)'
        BY <3>1, <3>4 DEF Settled
      <4> QED BY <1>1, SettledKept
    <3> QED BY <1>2, <3>1, <3>2, <3>3, <3>5 DEF TargetsLeft
  <2>7. CASE (Claim /\ ~Granted) \/ Complete \/ Fail
    <3>1. /\ todo' = Tail(todo) /\ cur' = cur /\ seen' = seen
          /\ pc \in Working /\ cur \in posts /\ ~Granted
      <4>1. CASE Claim /\ ~Granted
        BY <1>1, <1>3, <4>1 DEF Claim, Granted, NextTarget, world, Idle
      <4>2. CASE Complete \/ Fail
        BY <1>3, <4>2 DEF Granted, Complete, Fail, NextTarget, Idle
      <4> QED BY <2>7, <4>1, <4>2
    <3>2. (\A t : InTodo(t) => t = Target \/ InTodo(t)') /\ \A t : InTodo(t)' => InTodo(t)
      BY <1>1, <3>1, TodoShrinks
    <3>3. Targets(cur)' = Targets(cur)
      BY <3>1 DEF Targets
    <3>4. \A t : Settled(cur, t) \/ t = Target => Settled(cur, t)'
      <4> SUFFICES ASSUME NEW o \in posts, o = cur, NEW t, Settled(o, t) \/ t = Target
                   PROVE  Settled(o, t)'
        BY <3>1 DEF Settled
      <4>1. CASE t = Target
        BY <1>1, <2>7, <4>1, LeftIsSettled
      <4>2. CASE t # Target
        BY <1>1, <4>2, SettledKept
      <4> QED BY <4>1, <4>2
    <3> QED BY <1>2, <3>1, <3>2, <3>3, <3>4 DEF TargetsLeft
  <2> QED
    BY <2>2, <2>3, <2>4, <2>5, <2>6, <2>7, QuietEngine DEF QuietConsumer
<1> QED BY <1>5, <1>6, <1>7 DEF Progress

(* A post that waits in the sink waits on, or is picked up.                *)
LEMMA InSinkKept ==
  ASSUME BridgeInv, [BridgeNext]_allVars, Undisturbed', NEW o, InSink(o)
  PROVE  InSink(o)' \/ cur' = o
<1>1. TypeOK
  BY DEF BridgeInv, IInv
<1>2. PICK i \in 1..Len(sink) : sink[i] = o
  BY DEF InSink
<1>3. CASE Receive
  <2>1. /\ Len(sink') = Len(sink) - 1 /\ cur' = sink[1]
        /\ \A j \in 1..Len(sink') : sink'[j] = sink[j + 1]
    BY <1>1, <1>3 DEF Receive, TypeOK
  <2>2. ASSUME i # 1 PROVE i - 1 \in 1..Len(sink') /\ sink'[i - 1] = o
    <3>1. Len(sink) \in Nat /\ i \in 1..Len(sink)
      BY <1>1 DEF TypeOK
    <3>2. i - 1 \in 1..Len(sink') /\ (i - 1) + 1 = i
      BY <2>1, <2>2, <3>1
    <3> QED BY <1>2, <2>1, <3>2
  <2> QED BY <1>2, <2>1, <2>2 DEF InSink
<1>4. ASSUME NEW post, sink' = Append(sink, post) PROVE InSink(o)'
  <2>1. Len(sink') = Len(sink) + 1 /\ sink'[i] = sink[i]
    BY <1>1, <1>2, <1>4 DEF TypeOK
  <2>2. i \in 1..Len(sink')
    BY <1>1, <1>2, <2>1 DEF TypeOK
  <2> QED BY <1>2, <2>1, <2>2 DEF InSink
<1>5. CASE sink' = sink
  BY <1>2, <1>5 DEF InSink
<1> QED
  BY <1>3, <1>4, <1>5, QuietStep DEF Create, Same, QuietPolling, Poll, PollNothing, Emit, Saved,
     QuietStreaming, Dial, Read, EmitEvent, Flushed, Dropped, Enqueue, ListenerTrouble, vars

(* From the sink over the consumer to its targets, a user's post is never  *)
(* dropped.                                                                *)
LEMMA HandledKept ==
  ASSUME BridgeInv, Progress, TextsDiffer, [BridgeNext]_allVars, Undisturbed',
         NEW o \in UserPosts, Handled(o)
  PROVE  Handled(o)'
<1> USE DEF InHand, Working
<1>1. /\ [Next]_vars /\ Undisturbed /\ ~StoreFails /\ IInv /\ UniqueIds /\ TypeOK
      /\ o \in posts /\ o.fromId = NoID
  BY NoFault DEF BridgeInv, IInv, UserPosts
<1>2. CASE InSink(o)
  BY <1>2, InSinkKept DEF Handled
<1>3. CASE AllSettled(o) /\ o # cur
  BY <1>1, <1>3, AllSettledKept DEF Handled
<1>4. CASE cur = o
  <2>1. pc \notin Idle
    BY <1>1, <1>4, NoPostAssumption DEF TypeOK, Idle
  <2>2. AllSettled(o) /\ rows' = rows => AllSettled(o)'
    BY DEF AllSettled, Targets, Settled
  <2>3. CASE cur' = cur
    BY <1>4, <2>3 DEF Handled
  <2>4. CASE CheckOurs /\ cur' # cur
    BY <1>1, <1>4, <2>4, GuardStopsCopies DEF CheckOurs, local
  <2>5. CASE CheckSeen /\ cur' # cur
    <3>1. CASE Hash[cur.text] # NoHash /\ SeenRecently(seen, Hash[cur.text])
      <4>1. PICK r \in UserPosts : Hash[r.text] = Hash[cur.text] /\ AllSettled(r)
        BY <1>1, <3>1 DEF Progress, SeenRecently
      <4>2. r = o
        BY <1>4, <3>1, <4>1 DEF TextsDiffer
      <4> QED BY <2>2, <2>5, <4>1, <4>2 DEF Handled, CheckSeen, store
    <3>2. CASE Routes[cur.plat] = <<>>
      <4>1. Targets(o) = {}
        BY <1>4, <3>2 DEF Targets
      <4> QED BY <2>2, <2>5, <4>1 DEF Handled, CheckSeen, store, AllSettled
    <3> QED BY <1>1, <2>5, <3>1, <3>2 DEF CheckSeen, Route
  <2>6. CASE Mark
    <3>1. pc = "mark" /\ todo = <<>> /\ rows' = rows
      BY <1>1, <2>6 DEF Mark, TypeOK
    <3>2. AllSettled(o)
      BY <1>1, <1>4, <3>1 DEF Progress, TargetsLeft, InTodo, AllSettled
    <3> QED BY <2>2, <3>1, <3>2 DEF Handled
  <2>7. CASE \/ Elsewhere \/ Claim \/ ResolveParent \/ BeginAttempt \/ Create \/ Answer
             \/ Refuse \/ Complete \/ Fail
    BY <2>3, <2>7 DEF Elsewhere, Claim, ResolveParent, BeginAttempt, Create, Answer, Refuse,
       PostFails, Complete, Fail, NextTarget, local
  <2>8. ~Receive
    BY <2>1 DEF Receive, Idle
  <2> QED
    BY <2>3, <2>4, <2>5, <2>6, <2>7, <2>8, QuietEngine DEF QuietConsumer
<1> QED BY <1>2, <1>3, <1>4 DEF Handled

(***************************************************************************)
(* Nobody has read further than the platforms have numbered their posts.   *)
(***************************************************************************)
Numbered ==
  /\ \A p \in Pollers : cursor[p] < nextId[p] /\ newest[p] < nextId[p]
  /\ \A p \in Streams : /\ streamCursor[p] < nextId[p] /\ lastCursor[p] < nextId[p]
                        /\ pos[p] < nextId[p] /\ joined[p] < nextId[p]
  /\ IsFiniteSet(posts)

LEMMA IdsGrow ==
  ASSUME TypeOK, [Next]_vars
  PROVE  \A p \in Platforms : nextId[p] <= nextId'[p]
<1>1. ASSUME NEW p, NEW txt, NEW par, NEW from, NEW fromId,
             NewPost(p, txt, par, from, fromId)
      PROVE  \A q \in Platforms : nextId[q] <= nextId'[q]
  BY <1>1 DEF NewPost, TypeOK
<1>2. nextId' = nextId => \A q \in Platforms : nextId[q] <= nextId'[q]
  BY DEF TypeOK
<1> QED
  BY <1>1, <1>2 DEF Next, Consumer, Surroundings, Create, Publish, Receive, CheckOurs, CheckSeen,
     Claim, ResolveParent, BeginAttempt, Answer, Refuse, LoseAnswer, PostFails, Complete,
     Fail, Mark, Return, Expire, Cancel, Exit, Crash, GoDown, Restart, Deliver,
     ListenerTrouble, world, vars

LEMMA NumberedKept ==
  ASSUME BridgeInv, Numbered, [BridgeNext]_allVars
  PROVE  Numbered'
<1> USE DEF pollerVars, streamVars, tailVars, listeners, NoID
<1>1. TypeOK /\ PostsExist /\ PollerTypeOK /\ StreamTypeOK /\ [Next]_vars /\ TypeOK'
  BY BridgeStep, TypeInductive DEF BridgeInv, IInv, BridgeTypeOK
<1>2. /\ \A p \in Pollers \cup Streams :
           nextId[p] \in Nat \ {0} /\ nextId'[p] \in Nat \ {0} /\ nextId[p] <= nextId'[p]
      /\ \A p \in Pollers : cursor[p] \in Nat /\ newest[p] \in Nat
      /\ \A p \in Streams : /\ streamCursor[p] \in Nat /\ lastCursor[p] \in Nat
                            /\ pos[p] \in Nat /\ joined[p] \in Nat
  BY <1>1, IdsGrow, PollerAssumption, JetstreamAssumption DEF TypeOK, PollerTypeOK, StreamTypeOK
<1>3. IsFiniteSet(posts')
  BY <1>1, PostsAdded, FS_AddElement DEF Numbered
<1>4. CASE UNCHANGED listeners
  BY <1>2, <1>3, <1>4 DEF Numbered
<1>5. ASSUME NEW p \in Pollers, Polling(p) PROVE Numbered'
  <2>1. CASE Poll(p)
    <3>1. Newest(Page(p)) \in Nat /\ Newest(Page(p)) < nextId[p]
      BY <1>1, <2>1, PageIsNew DEF Poll
    <3>2. /\ UNCHANGED <<streamVars, cursor>>
          /\ newest' = [newest EXCEPT ![p] = Newest(Page(p))]
      BY <1>5, <2>1 DEF Polling, Poll
    <3> QED BY <1>1, <1>2, <1>3, <3>1, <3>2 DEF Numbered, PollerTypeOK
  <2>2. CASE PollNothing(p) \/ Emit(p) \/ GiveUp(p) \/ Save(p) \/ StopPolling(p)
    BY <1>1, <1>2, <1>3, <1>5, <2>2 DEF Numbered, Polling, PollNothing, Emit, GiveUp, Save,
       StopPolling, PollerTypeOK
  <2> QED BY <1>5, <2>1, <2>2 DEF Polling, PollerStep
<1>6. ASSUME NEW p \in Streams, Streaming(p) PROVE Numbered'
  <2> USE DEF Streaming
  <2>1. CASE Dial(p)
    <3>1. \A at \in Resume(p) : at \in Nat /\ at < nextId[p]
      BY <1>2 DEF Resume, Numbered
    <3> QED BY <1>1, <1>2, <1>3, <1>6, <2>1, <3>1 DEF Dial, Numbered, StreamTypeOK
  <2>2. CASE Read(p)
    <3>1. pos[p] + 1 < nextId[p]
      BY <1>1, <2>1, <2>2 DEF Read, Event, PostsExist
    <3> QED BY <1>1, <1>2, <1>3, <1>6, <2>2, <3>1 DEF Read, Numbered, StreamTypeOK
  <2>3. CASE EmitEvent(p) \/ Disconnect(p) \/ StopTailing(p)
    BY <1>1, <1>2, <1>3, <1>6, <2>3 DEF EmitEvent, Disconnect, StopTailing, Numbered, StreamTypeOK
  <2>4. CASE PeriodicFlush(p) \/ CloseTail(p)
    BY <1>1, <1>2, <1>3, <1>6, <2>4 DEF PeriodicFlush, CloseTail, FlushCursor, Numbered,
       StreamTypeOK
  <2> QED BY <1>6, <2>1, <2>2, <2>3, <2>4 DEF StreamStep
<1>7. CASE (PollersDown \/ PollersUp) /\ (StreamsDown \/ StreamsUp)
  <2>1. /\ cursor' = cursor /\ streamCursor' = streamCursor /\ joined' = joined
        /\ \A p \in Pollers : newest'[p] \in {NoID, newest[p]}
        /\ \A p \in Streams : lastCursor'[p] \in {NoID, lastCursor[p]} /\ pos'[p] \in {0, pos[p]}
    BY <1>7 DEF PollersDown, PollersUp, StreamsDown, StreamsUp
  <2> QED BY <1>2, <1>3, <2>1 DEF Numbered
<1> QED
  BY <1>4, <1>5, <1>6, <1>7 DEF BridgeNext, ConsumerStep, Outside, BridgeExit, BridgeCrash,
     BridgeRestart, allVars

(***************************************************************************)
(* What a listener has read is handled.                                    *)
(***************************************************************************)
PollerKeeps(p) ==
  \A o \in UserPosts : o.plat = p /\ Owed(o) =>
    /\ o.id <= cursor[p] => Handled(o)
    /\ o.id <= newest[p] => Handled(o) \/ o \in batch[p]

StreamKeeps(p) ==
  \A o \in UserPosts : o.plat = p /\ Owed(o) =>
    /\ o.id <= Last(p) => Handled(o)
    /\ conn[p] = "reading" /\ o.id <= pos[p] => Handled(o)
    /\ conn[p] = "emit" /\ o.id < pos[p] => Handled(o)

NothingForgotten ==
  Undisturbed => /\ \A p \in Pollers : PollerKeeps(p)
                 /\ \A p \in Streams : StreamKeeps(p)

(* What is new on a platform has a number no listener has reached.         *)
LEMMA NewIsUnread ==
  ASSUME BridgeInv, [BridgeNext]_allVars, Undisturbed', NEW o \in UserPosts', o \notin UserPosts
  PROVE  UNCHANGED listeners /\ o.id = nextId[o.plat]
<1>1. o \in posts' /\ o \notin posts
  BY DEF UserPosts
<1>2. o.id = nextId[o.plat]
  BY <1>1, PostsAdded, NoFault DEF BridgeInv, IInv
<1>3. UNCHANGED listeners
  BY <1>1, QuietStep DEF QuietPolling, Poll, PollNothing, Emit, Saved, QuietStreaming, Dial, Read,
     EmitEvent, Flushed, Dropped, ListenerTrouble, vars, world
<1> QED BY <1>2, <1>3

(* The live tail never begins earlier than it did.                         *)
LEMMA OwedBefore ==
  ASSUME BridgeInv, Numbered, [BridgeNext]_allVars, Undisturbed', NEW o \in posts, Owed(o)'
  PROVE  Owed(o)
<1>1. StreamTypeOK /\ TypeOK /\ o.id \in Nat
  BY DEF BridgeInv, IInv, BridgeTypeOK, TypeOK, Post
<1>2. \A p \in Streams : joined[p] <= joined'[p]
  <2>1. ASSUME NEW p \in Streams, Dial(p) PROVE \A r \in Streams : joined[r] <= joined'[r]
    <3>1. streamCursor[p] = NoID => \A at \in Resume(p) : at \in Nat /\ joined[p] <= at
      BY <1>1, JetstreamAssumption DEF Resume, Numbered, StreamTypeOK, TypeOK
    <3> QED BY <1>1, <2>1, <3>1 DEF Dial, StreamTypeOK
  <2>2. joined' = joined => \A r \in Streams : joined[r] <= joined'[r]
    BY <1>1 DEF StreamTypeOK
  <2> QED
    BY <2>1, <2>2, QuietStep DEF listeners, streamVars, QuietStreaming, Read, EmitEvent, Flushed,
       PeriodicFlush, CloseTail, Dropped, Disconnect
<1>3. o.plat \in Streams => joined[o.plat] \in Nat /\ joined'[o.plat] \in Nat
  BY <1>1, ListenerTypesKept DEF StreamTypeOK, BridgeInv, BridgeTypeOK
<1> QED BY <1>1, <1>2, <1>3 DEF Owed

(* A page that is not cut holds everything after the cursor.               *)
LEMMA WholePage ==
  ASSUME TypeOK, PagesHold, IsFiniteSet(posts), PollerTypeOK, NEW p \in Pollers,
         NEW o \in posts, o.plat = p, o.id > cursor[p]
  PROVE  o \in Page(p)
<1> DEFINE after == {q \in posts : q.plat = p /\ q.id > cursor[p]}
           newer == {r \in after : r.id > o.id}
<1>1. IsFiniteSet(after) /\ Cardinality(after) <= PageSize[p]
  BY FS_Subset DEF PagesHold
<1>2. newer \subseteq after /\ o \in after /\ o \notin newer
  BY DEF TypeOK, Post
<1> HIDE DEF after, newer
<1>3. /\ IsFiniteSet(newer) /\ Cardinality(newer) <= Cardinality(after)
      /\ Cardinality(newer) # Cardinality(after)
  BY <1>1, <1>2, FS_Subset
<1>4. Cardinality(newer) \in Nat /\ Cardinality(after) \in Nat /\ PageSize[p] \in Nat
  BY <1>1, <1>3, FS_CardinalityType, PollerAssumption
<1>5. Cardinality(newer) < PageSize[p]
  BY <1>1, <1>3, <1>4
<1> QED BY <1>2, <1>5 DEF Page, after, newer

LEMMA PollerKeepsOn ==
  ASSUME Backfill, BridgeInv, Numbered, Progress, PollersAhead, PagesHold, TextsDiffer,
         [BridgeNext]_allVars, Undisturbed', NEW p \in Pollers, PollerKeeps(p)
  PROVE  PollerKeeps(p)'
<1> SUFFICES ASSUME NEW o \in UserPosts', o.plat = p, Owed(o)'
             PROVE  /\ o.id <= cursor'[p] => Handled(o)'
                    /\ o.id <= newest'[p] => Handled(o)' \/ o \in batch'[p]
  BY DEF PollerKeeps
<1>1. /\ TypeOK /\ PostsExist /\ UniqueIds /\ PollerTypeOK /\ Undisturbed
      /\ PollerAhead(p) /\ p \in Platforms
  BY NoFault, PollerAssumption DEF BridgeInv, IInv, BridgeTypeOK, PollersAhead
<1>2. cursor[p] \in Nat /\ newest[p] \in Nat /\ nextId[p] \in Nat
  BY <1>1 DEF PollerTypeOK, TypeOK
<1>3. CASE o \notin UserPosts
  <2>1. cursor' = cursor /\ newest' = newest /\ o.id = nextId[p]
    BY <1>3, NewIsUnread DEF listeners, pollerVars
  <2> QED BY <1>2, <2>1 DEF Numbered
<1>4. CASE o \in UserPosts
  <2>1. /\ o \in posts /\ o.id \in Nat /\ o.id # NoID /\ Owed(o) /\ Wanted(p, o)
        /\ Handled(o) => Handled(o)'
    BY <1>1, <1>4, OwedBefore, HandledKept DEF UserPosts, TypeOK, Post, PostsExist, Owed
  <2>2. /\ o.id <= cursor[p] => Handled(o)
        /\ o.id <= newest[p] => Handled(o) \/ o \in batch[p]
    BY <1>4, <2>1 DEF PollerKeeps
  <2>3. CASE cursor'[p] = cursor[p] /\ newest'[p] = newest[p] /\ batch'[p] = batch[p]
    BY <2>1, <2>2, <2>3
  <2>4. CASE Poll(p)
    <3>1. /\ cursor' = cursor /\ newest'[p] = Newest(Page(p))
          /\ batch'[p] = {q \in Page(p) : Wanted(p, q)}
      BY <1>1, <2>4 DEF Poll, PollerTypeOK
    <3>2. o.id > cursor[p] => o \in Page(p)
      BY <1>1, <2>1, WholePage DEF Numbered
    <3> QED BY <1>2, <2>1, <2>2, <3>1, <3>2
  <2>5. CASE Emit(p)
    <3>1. /\ cursor' = cursor /\ newest' = newest
          /\ batch'[p] = batch[p] \ {NextOf(batch[p])}
          /\ sink' = Append(sink, NextOf(batch[p]))
      BY <1>1, <2>5 DEF Emit, Enqueue, PollerTypeOK
    <3>2. o = NextOf(batch[p]) => InSink(o)'
      <4>1. /\ Len(sink') = Len(sink) + 1 /\ Len(sink) \in Nat
            /\ sink'[Len(sink) + 1] = NextOf(batch[p])
        BY <1>1, <3>1 DEF TypeOK
      <4> QED BY <4>1 DEF InSink
    <3> QED BY <2>1, <2>2, <3>1, <3>2 DEF Handled
  <2>6. CASE Saved(p)
    <3>1. cursor'[p] = newest[p] /\ newest'[p] = NoID /\ batch[p] = {}
      BY <1>1, <2>6 DEF Saved, Save, PollerTypeOK
    <3> QED BY <2>1, <2>2, <3>1 DEF NoID
  <2>7. CASE PollNothing(p)
    BY <2>3, <2>7 DEF PollNothing
  <2>8. ASSUME NEW r \in Pollers, r # p, QuietPolling(r)
        PROVE  cursor'[p] = cursor[p] /\ newest'[p] = newest[p] /\ batch'[p] = batch[p]
    BY <1>1, <2>8 DEF QuietPolling, Poll, PollNothing, Emit, Saved, Save, PollerTypeOK
  <2> QED BY <2>3, <2>4, <2>5, <2>6, <2>7, <2>8, QuietStep DEF QuietPolling, listeners, pollerVars
<1> QED BY <1>3, <1>4

LEMMA StreamKeepsOn ==
  ASSUME BridgeInv, Numbered, Progress, StreamsAhead, TextsDiffer,
         [BridgeNext]_allVars, Undisturbed', NEW p \in Streams, StreamKeeps(p)
  PROVE  StreamKeeps(p)'
<1> DEFINE Kept(o) == /\ o.id <= Last(p) => Handled(o)
                      /\ conn[p] = "reading" /\ o.id <= pos[p] => Handled(o)
                      /\ conn[p] = "emit" /\ o.id < pos[p] => Handled(o)
<1> SUFFICES ASSUME NEW o \in UserPosts', o.plat = p, Owed(o)' PROVE Kept(o)'
  BY DEF StreamKeeps
<1>1. /\ TypeOK /\ PostsExist /\ UniqueIds /\ StreamTypeOK /\ Undisturbed
      /\ StreamAhead(p) /\ p \in Platforms
  BY NoFault, JetstreamAssumption DEF BridgeInv, IInv, BridgeTypeOK, StreamsAhead
<1>2. /\ streamCursor[p] \in Nat /\ pos[p] \in Nat /\ lastCursor[p] \in Nat
      /\ Last(p) \in Nat /\ nextId[p] \in Nat
  BY <1>1 DEF StreamTypeOK, Last, TypeOK
<1>3. CASE o \notin UserPosts
  <2>1. UNCHANGED <<streamCursor, lastCursor, pos>> /\ o.id = nextId[p]
    BY <1>3, NewIsUnread DEF listeners, streamVars, tailVars
  <2> QED BY <1>2, <2>1 DEF Numbered, Last
<1>4. CASE o \in UserPosts
  <2>1. /\ o \in posts /\ o.id \in Nat /\ o.id # NoID /\ Owed(o)
        /\ Handled(o) => Handled(o)'
    BY <1>1, <1>4, OwedBefore, HandledKept DEF UserPosts, TypeOK, Post, PostsExist
  <2>2. Kept(o)
    BY <1>4, <2>1 DEF StreamKeeps
  <2>3. CASE /\ streamCursor'[p] = streamCursor[p] /\ lastCursor'[p] = lastCursor[p]
             /\ pos'[p] = pos[p] /\ conn'[p] = conn[p]
    BY <2>1, <2>2, <2>3 DEF Last
  <2>4. CASE Dial(p)
    <3>1. /\ conn[p] = "idle" /\ conn'[p] = "reading" /\ pos'[p] \in Resume(p)
          /\ streamCursor' = streamCursor /\ lastCursor' = lastCursor
          /\ streamCursor[p] = NoID => joined'[p] = pos'[p]
      BY <1>1, <2>4 DEF Dial, StreamTypeOK
    <3>2. Last(p)' = Last(p) /\ Last(p) = streamCursor[p]
      BY <1>1, <3>1 DEF Last, StreamAhead
    <3>3. CASE streamCursor[p] = NoID
      <4>1. pos'[p] \in Nat /\ joined'[p] = pos'[p] /\ o.id > joined'[p]
        BY <1>1, <3>1, <3>3 DEF Resume, TypeOK, Owed
      <4> QED BY <2>1, <2>2, <3>1, <3>2, <4>1
    <3>4. CASE streamCursor[p] # NoID
      <4>1. pos'[p] \in Nat /\ pos'[p] <= Last(p)
        BY <1>2, <3>1, <3>2, <3>4 DEF Resume, NoID
      <4> QED BY <1>2, <2>1, <2>2, <3>1, <3>2, <4>1
    <3> QED BY <3>3, <3>4
  <2>5. CASE Read(p)
    <3>1. PICK post \in posts : /\ post.plat = p /\ post.id = pos[p] + 1
                               /\ conn'[p] = IF Wanted(p, post) THEN "emit" ELSE "reading"
      BY <1>1, <2>5 DEF Read, Event, StreamTypeOK
    <3>2. /\ conn[p] = "reading" /\ pos'[p] = pos[p] + 1
          /\ streamCursor' = streamCursor /\ lastCursor' = lastCursor
      BY <1>1, <2>5 DEF Read, StreamTypeOK
    <3>3. Last(p)' = Last(p)
      BY <3>2 DEF Last
    <3>4. o.id = pos[p] + 1 => conn'[p] = "emit"
      BY <1>1, <2>1, <3>1 DEF UniqueIds, Owed
    <3> QED BY <1>2, <2>1, <2>2, <3>1, <3>2, <3>3, <3>4
  <2>6. CASE EmitEvent(p)
    <3>1. PICK post \in posts : post.plat = p /\ post.id = pos[p] /\ sink' = Append(sink, post)
      BY <1>1, <2>6, EmittedEvent DEF StreamsAhead, BridgeInv
    <3>2. /\ conn[p] = "emit" /\ pos'[p] = pos[p] /\ lastCursor'[p] = pos[p] /\ conn'[p] # "emit"
      BY <1>1, <2>6 DEF EmitEvent, StreamTypeOK
    <3>3. Last(p)' = pos[p]
      BY <2>6, <3>2, EmittedEvent, <1>1 DEF Last
    <3>4. o.id = pos[p] => InSink(o)'
      <4>1. /\ Len(sink') = Len(sink) + 1 /\ Len(sink) \in Nat
            /\ sink'[Len(sink) + 1] = post
        BY <1>1, <3>1 DEF TypeOK
      <4>2. o.id = pos[p] => o = post
        BY <1>1, <2>1, <3>1 DEF UniqueIds
      <4> QED BY <4>1, <4>2 DEF InSink
    <3> QED BY <1>2, <2>1, <2>2, <3>2, <3>3, <3>4 DEF Handled
  <2>7. CASE Flushed(p) \/ Dropped(p)
    <3>1. Last(p)' = Last(p) /\ (conn'[p] = "reading" => pos'[p] <= Last(p)) /\ conn'[p] # "emit"
      <4>1. CASE Flushed(p)
        BY <1>1, <1>2, <4>1 DEF Flushed, PeriodicFlush, CloseTail, StreamTypeOK, Last, StreamAhead
      <4>2. CASE Dropped(p)
        BY <1>1, <4>2 DEF Dropped, Disconnect, StreamTypeOK, tailVars, Last
      <4> QED BY <2>7, <4>1, <4>2
    <3>2. pos'[p] \in Nat
      BY <1>1, ListenerTypesKept DEF StreamTypeOK, BridgeInv, BridgeTypeOK
    <3> QED BY <1>2, <2>1, <2>2, <3>1, <3>2
  <2>8. ASSUME NEW r \in Streams, r # p, QuietStreaming(r)
        PROVE  /\ streamCursor'[p] = streamCursor[p] /\ lastCursor'[p] = lastCursor[p]
               /\ pos'[p] = pos[p] /\ conn'[p] = conn[p]
    BY <1>1, <2>8 DEF QuietStreaming, Dial, Read, EmitEvent, Flushed, PeriodicFlush, CloseTail,
       Dropped, Disconnect, tailVars, StreamTypeOK
  <2> QED
    BY <2>3, <2>4, <2>5, <2>6, <2>7, <2>8, QuietStep DEF QuietStreaming, listeners, streamVars,
       tailVars
<1> QED BY <1>3, <1>4

DeliveryInv == OrderInv /\ Numbered /\ Progress /\ NothingForgotten

LEMMA DeliveryInductive ==
  ASSUME Backfill, DeliveryInv, OrderInv', PagesHold, TextsDiffer, [BridgeNext]_allVars
  PROVE  DeliveryInv'
<1>1. NothingForgotten'
  BY NoFault, PollerKeepsOn, StreamKeepsOn DEF NothingForgotten, DeliveryInv, OrderInv
<1> QED BY <1>1, NumberedKept, ProgressKept DEF DeliveryInv, OrderInv

LEMMA DeliveryInit == BridgeInit => Numbered /\ Progress /\ NothingForgotten
<1> SUFFICES ASSUME BridgeInit PROVE Numbered /\ Progress /\ NothingForgotten
  OBVIOUS
<1>1. /\ posts = {} /\ rows = {} /\ seen = {} /\ pc = "consume" /\ UserPosts = {}
      /\ nextId = [p \in Platforms |-> 1]
  BY DEF BridgeInit, Init, UserPosts
<1>2. Numbered
  BY <1>1, FS_EmptySet, PollerAssumption, JetstreamAssumption
     DEF BridgeInit, PollerInit, StreamInit, Numbered, NoID
<1>3. Progress
  BY <1>1 DEF Progress, InHand, Working
<1>4. NothingForgotten
  BY <1>1 DEF NothingForgotten, PollerKeeps, StreamKeeps
<1> QED BY <1>2, <1>3, <1>4

(* What is behind a cursor waits in the sink, is in hand, or is settled.   *)
LEMMA ReadIsHandled ==
  ASSUME TextsDiffer => DeliveryInv
  PROVE  ReadMeansHandled
<1> SUFFICES ASSUME Undisturbed, DeliveryInv, NEW o \in UserPosts, Owed(o),
                    o.id <= ReadUpTo(o.plat)
             PROVE  Handled(o)
  BY DEF ReadMeansHandled, AllReadHandled, Handled, InSink, AllSettled, Targets
<1>1. o.id \in Nat /\ o.id # NoID
  BY DEF DeliveryInv, OrderInv, BridgeInv, IInv, TypeOK, PostsExist, UserPosts, Post
<1>2. CASE o.plat \in Pollers
  BY <1>2, JetstreamAssumption DEF DeliveryInv, NothingForgotten, PollerKeeps, ReadUpTo
<1>3. CASE o.plat \in Streams
  <2>1. ReadUpTo(o.plat) = streamCursor[o.plat]
    BY <1>3, JetstreamAssumption DEF ReadUpTo
  <2>2. /\ streamCursor[o.plat] <= Last(o.plat)
        /\ streamCursor[o.plat] \in Nat /\ Last(o.plat) \in Nat
    BY <1>3 DEF DeliveryInv, OrderInv, StreamsAhead, StreamAhead, BridgeInv, BridgeTypeOK,
       StreamTypeOK, Last
  <2>3. o.id <= Last(o.plat)
    BY <1>1, <2>1, <2>2
  <2> QED BY <1>3, <2>3 DEF DeliveryInv, NothingForgotten, StreamKeeps
<1>4. CASE o.plat \notin Pollers \cup Streams
  BY <1>1, <1>4 DEF ReadUpTo, NoID
<1> QED BY <1>2, <1>3, <1>4

(* The cursors, the pages, the relay, the sink and the consumer together   *)
(* lose nothing: without a fault, where no page is cut, and as long as no  *)
(* text repeats, what is behind a cursor waits in the sink, is being       *)
(* worked on, or is settled for every target.                              *)
THEOREM NothingLost ==
  ASSUME Backfill
  PROVE  BridgeSpec /\ []PagesHold => []ReadMeansHandled
<1>1. OrderInv /\ OrderInv' /\ (TextsDiffer => DeliveryInv) /\ PagesHold /\ [BridgeNext]_allVars
        => (TextsDiffer => DeliveryInv)'
  <2> SUFFICES ASSUME OrderInv, OrderInv', TextsDiffer => DeliveryInv, PagesHold,
                      [BridgeNext]_allVars, TextsDiffer'
               PROVE  DeliveryInv'
    OBVIOUS
  <2>1. IInv /\ [Next]_vars
    BY BridgeStep DEF OrderInv, BridgeInv, IInv
  <2>2. TextsDiffer
    BY <2>1, TextsDiffered
  <2> QED BY <2>2, DeliveryInductive
<1>2. OrderInv /\ Numbered /\ Progress /\ NothingForgotten => DeliveryInv
  BY DEF DeliveryInv
<1>3. (TextsDiffer => DeliveryInv) => ReadMeansHandled
  BY ReadIsHandled
<1> QED BY <1>1, <1>2, <1>3, DeliveryInit, OrderInvariance, PTL DEF BridgeSpec

(***************************************************************************)
(* Threads.                                                                *)
(***************************************************************************)
ParentsOlder == \A q \in posts : q.parent < q.id

Origins ==
  Undisturbed => /\ \A i \in 1..Len(sink) : sink[i].plat \in Pollers \cup Streams
                 /\ pc \notin Idle => cur.plat \in Pollers \cup Streams

(* While no platform refused a post, the parent of a reply to a post that  *)
(* was read is found.                                                      *)
ParentFound ==
  (Undisturbed /\ happened["refuse"] = 0) =>
    /\ \A r \in rows : r.status # StatusError
    /\ pc # "fail"
    /\ pc \in {"attempt", "posting"} =>
         \A q \in UserPosts :
           q.plat = cur.plat /\ q.id = cur.parent /\ Owed(q) => parent # NoID
    /\ ThreadsStayThreads

LEMMA ParentsOlderKept ==
  ASSUME IInv, ParentsOlder, [Next]_vars
  PROVE  ParentsOlder'
<1>1. TypeOK /\ PostsExist /\ ParentIsCopy
  BY DEF IInv
<1>2. ASSUME NEW p \in Platforms, NEW txt, NEW par, NEW from, NEW fromId,
             NewPost(p, txt, par, from, fromId), par < nextId[p]
      PROVE  ParentsOlder'
  BY <1>2 DEF NewPost, ParentsOlder
<1>3. \A p \in Platforms : nextId[p] \in Nat \ {0}
  BY <1>1 DEF TypeOK
<1>4. CASE Create
  <2>1. Target \in Platforms
    BY <1>1, <1>4, TargetIsOther DEF Create, Working
  <2>2. parent < nextId[Target]
    BY <1>1, <1>3, <1>4, <2>1 DEF Create, ParentIsCopy, PostsExist, Working, NoID
  <2> QED BY <1>2, <1>4, <2>1, <2>2 DEF Create
<1>5. ASSUME NEW p \in Platforms, NEW txt, NEW par \in {NoID} \cup IdsOf(p), Publish(p, txt, par)
      PROVE  ParentsOlder'
  <2>1. par < nextId[p]
    BY <1>1, <1>3 DEF IdsOf, PostsExist, NoID
  <2> QED BY <1>2, <1>5, <2>1 DEF Publish
<1>6. posts' = posts => ParentsOlder'
  BY DEF ParentsOlder
<1> QED
  BY <1>4, <1>5, <1>6 DEF Next, Consumer, Surroundings, Receive, CheckOurs, CheckSeen,
     Claim, ResolveParent, BeginAttempt, Answer, Refuse, LoseAnswer, PostFails, Complete,
     Fail, Mark, Return, Expire, Cancel, Exit, Crash, GoDown, Restart, Deliver,
     ListenerTrouble, world, vars

LEMMA OriginsKept ==
  ASSUME OrderInv, Origins, [BridgeNext]_allVars
  PROVE  Origins'
<1> SUFFICES ASSUME Undisturbed' PROVE Origins'
  BY DEF Origins
<1> USE DEF Idle
<1>1. Undisturbed /\ TypeOK /\ BridgeInv
  BY NoFault DEF OrderInv, BridgeInv, IInv
<1>2. CASE Receive
  <2>1. /\ Len(sink') = Len(sink) - 1 /\ cur' = sink[1] /\ 1 \in 1..Len(sink)
        /\ \A i \in 1..Len(sink') : sink'[i] = sink[i + 1] /\ i + 1 \in 1..Len(sink)
    BY <1>1, <1>2 DEF Receive, TypeOK
  <2> QED BY <1>1, <2>1 DEF Origins
<1>3. CASE Create \/ Same
  BY <1>1, <1>3 DEF Create, Same, Origins
<1>4. ASSUME NEW post, sink' = Append(sink, post), UNCHANGED <<pc, cur>>,
             post.plat \in Pollers \cup Streams
      PROVE  Origins'
  <2>1. /\ Len(sink') = Len(sink) + 1 /\ sink'[Len(sink) + 1] = post
        /\ \A i \in 1..Len(sink) : sink'[i] = sink[i]
        /\ \A i \in 1..Len(sink') : i \in 1..Len(sink) \/ i = Len(sink) + 1
    BY <1>1, <1>4 DEF TypeOK
  <2> QED BY <1>1, <1>4, <2>1 DEF Origins
<1>5. ASSUME NEW p \in Pollers, QuietPolling(p) PROVE Origins'
  <2>1. CASE Emit(p)
    BY <1>1, <1>4, <2>1, EmittedNext DEF OrderInv
  <2>2. CASE Poll(p) \/ PollNothing(p) \/ Saved(p)
    BY <1>3, <2>2, ReadingIsSame DEF Poll, PollNothing, Saved
  <2> QED BY <1>5, <2>1, <2>2 DEF QuietPolling
<1>6. ASSUME NEW p \in Streams, QuietStreaming(p) PROVE Origins'
  <2>1. CASE EmitEvent(p)
    BY <1>1, <1>4, <2>1, EmittedEvent DEF OrderInv
  <2>2. CASE Dial(p) \/ Read(p) \/ Flushed(p) \/ Dropped(p)
    BY <1>3, <2>2, ReadingIsSame DEF Dial, Read, Flushed, Dropped
  <2> QED BY <1>6, <2>1, <2>2 DEF QuietStreaming
<1> QED BY <1>1, <1>2, <1>3, <1>5, <1>6, QuietStep

(* An earlier post of the same author was settled before the later one is  *)
(* taken up.                                                               *)
LEMMA EarlierIsSettled ==
  ASSUME DeliveryInv, Origins, Undisturbed, pc \notin Idle,
         NEW q \in UserPosts, q.plat = cur.plat, q.id < cur.id, Owed(q)
  PROVE  AllSettled(q)
<1> DEFINE p == cur.plat
<1>1. /\ TypeOK /\ InOrder /\ PollersAhead /\ StreamsAhead /\ NothingForgotten
      /\ PollerTypeOK /\ StreamTypeOK
  BY DEF DeliveryInv, OrderInv, BridgeInv, IInv, BridgeTypeOK
<1>2. q \in Post /\ cur \in Post /\ q.id \in Nat /\ cur.id \in Nat
  BY <1>1 DEF UserPosts, TypeOK, Post, Idle
<1>3. ~InSink(q) /\ cur # q
  BY <1>1, <1>2 DEF InOrder, InSink
<1>4. CASE p \in Pollers
  <2>1. /\ PollerAhead(p) /\ PollerKeeps(p) /\ cursor[p] \in Nat /\ newest[p] \in Nat
        /\ \A r \in batch[p] : r.id \in Nat
    BY <1>1, <1>4 DEF PollersAhead, NothingForgotten, PollerTypeOK, Post
  <2>2. q \notin batch[p]
    BY <1>2, <2>1 DEF PollerAhead, DeliveredUpTo
  <2>3. cur.id <= cursor[p] \/ cur.id <= newest[p]
    BY <2>1 DEF PollerAhead, DeliveredUpTo
  <2>4. q.id <= cursor[p] \/ q.id <= newest[p]
    BY <1>2, <2>1, <2>3
  <2> QED BY <1>3, <2>1, <2>2, <2>4 DEF PollerKeeps, Handled
<1>5. CASE p \in Streams
  <2>1. StreamAhead(p) /\ StreamKeeps(p) /\ Last(p) \in Nat
    BY <1>1, <1>5 DEF StreamsAhead, NothingForgotten, StreamTypeOK, Last
  <2>2. q.id <= Last(p)
    BY <1>2, <2>1 DEF StreamAhead, DeliveredUpTo
  <2> QED BY <1>3, <2>1, <2>2 DEF StreamKeeps, Handled
<1> QED BY <1>4, <1>5 DEF Origins

(* The parent of an older post is no new post, and was owed before.        *)
LEMMA ParentIsOld ==
  ASSUME DeliveryInv, ParentsOlder, [BridgeNext]_allVars, Undisturbed',
         NEW o \in posts, NEW q \in UserPosts', q.plat = o.plat, q.id = o.parent, Owed(q)'
  PROVE  q \in UserPosts /\ Owed(q) /\ q.id < o.id
<1>1. /\ TypeOK /\ PostsExist /\ BridgeInv /\ Numbered
      /\ o \in Post /\ o.id < nextId[o.plat] /\ o.parent < o.id
  BY DEF DeliveryInv, OrderInv, BridgeInv, IInv, TypeOK, PostsExist, ParentsOlder
<1>2. /\ o.id \in Nat /\ o.parent \in Nat /\ nextId[o.plat] \in Nat
  BY <1>1 DEF TypeOK, Post
<1>3. q \in UserPosts
  BY <1>1, <1>2, NewIsUnread
<1>4. Owed(q)
  BY <1>1, <1>3, OwedBefore DEF UserPosts
<1> QED BY <1>1, <1>3, <1>4

LEMMA ParentFoundKept ==
  ASSUME DeliveryInv, Origins, ParentsOlder, ParentFound, TextsDiffer, [BridgeNext]_allVars
  PROVE  ParentFound'
<1> USE DEF Working, Idle, store, world, local
<1> SUFFICES ASSUME Undisturbed', happened'["refuse"] = 0 PROVE ParentFound'
  BY DEF ParentFound
<1>1. /\ BridgeInv /\ IInv /\ TypeOK /\ PostsExist /\ UniqueIds /\ [Next]_vars /\ Undisturbed
      /\ proc = "running" /\ ~StoreFails /\ Progress
  BY NoFault DEF DeliveryInv, OrderInv, BridgeInv, IInv
<1>2. happened["refuse"] = 0 /\ ~Happens("refuse")
  BY <1>1, Counted DEF TypeOK, Kinds, Happens
<1>3. /\ \A r \in rows : r.status # StatusError
      /\ pc # "fail"
      /\ pc \in {"attempt", "posting"} =>
           \A q \in UserPosts :
             q.plat = cur.plat /\ q.id = cur.parent /\ Owed(q) => parent # NoID
      /\ ThreadsStayThreads
  BY <1>1, <1>2 DEF ParentFound
<1>4. \A o \in posts, q \in UserPosts' :
        q.plat = o.plat /\ q.id = o.parent /\ Owed(q)' =>
          q \in UserPosts /\ Owed(q) /\ q.id < o.id
  BY <1>1, ParentIsOld
<1>5. pc \notin Idle => cur \in posts
  BY <1>1 DEF PostsExist
<1>6. /\ \A r \in rows' : r.status # StatusError
      /\ pc' # "fail"
  <2>1. rows \subseteq Row(Platforms)
    BY <1>1 DEF TypeOK
  <2>2. CASE Granted
    BY <1>3, <2>2, ClaimGranted DEF Granted, NewRow, StatusPending, StatusError
  <2>3. CASE Records
    BY <1>3, <2>1, <2>3, CompletedRow DEF Records, NextTarget, StatusOK, StatusError
  <2>4. CASE ~Granted /\ ~Records
    <3>1. rows' = rows
      BY <1>1, <1>3, <2>4, Steps DEF Aside, Receive, PassesGuard, StartsLoop, MovesOn, Reports,
         ResolveParent, BeginAttempt, Create, Answer, Refuse, LoseAnswer, PostFails
    <3>2. pc' # "fail"
      BY <1>1, <1>2, <1>3, QuietEngine DEF Elsewhere, QuietConsumer, Receive, CheckOurs, CheckSeen,
         Route, Done, Claim, NextTarget, ResolveParent, BeginAttempt, Create, Answer, Refuse,
         PostFails, Complete, Fail, Mark
    <3> QED BY <1>3, <3>1, <3>2
  <2> QED BY <2>2, <2>3, <2>4
<1>7. pc' \in {"attempt", "posting"} =>
        \A q \in UserPosts' :
          q.plat = cur'.plat /\ q.id = cur'.parent /\ Owed(q)' => parent' # NoID
  <2> SUFFICES ASSUME pc' \in {"attempt", "posting"}, NEW q \in UserPosts',
                      q.plat = cur'.plat, q.id = cur'.parent, Owed(q)'
               PROVE  parent' # NoID
    OBVIOUS
  <2>1. CASE Elsewhere \/ BeginAttempt
    <3>1. cur' = cur /\ parent' = parent /\ pc \in {"attempt", "posting"}
      BY <2>1 DEF Elsewhere, BeginAttempt
    <3> QED BY <1>3, <1>4, <1>5, <3>1
  <2>2. CASE Claim
    <3>1. cur.parent = NoID /\ cur' = cur
      BY <1>1, <2>2 DEF Claim, NextTarget
    <3>2. q.id # NoID
      <4>1. IInv'
        BY <1>1, IInvInductive
      <4> QED BY <4>1 DEF IInv, PostsExist, UserPosts
    <3> QED BY <3>1, <3>2
  <2>3. CASE ResolveParent
    <3>1. cur' = cur /\ pc = "parent" /\ parent' \in TargetID(rows, cur, Target)
      BY <1>1, <2>3 DEF ResolveParent
    <3>2. q \in UserPosts /\ Owed(q) /\ q.id < cur.id /\ cur.plat = q.plat /\ cur.parent = q.id
      BY <1>4, <1>5, <3>1
    <3>3. AllSettled(q)
      BY <1>1, <3>1, <3>2, EarlierIsSettled
    <3>4. Target \in Targets(cur)
      <4>1. Target \in Platforms /\ InTodo(Target)
        BY <1>1, <3>1 DEF TypeOK, Target, InTodo
      <4> QED BY <1>1, <3>1, <4>1 DEF Progress, InHand, TargetsLeft
    <3>5. Settled(q, Target)
      BY <3>2, <3>3, <3>4 DEF AllSettled, Targets
    <3>6. PICK r \in rows : /\ r.origin = cur.plat /\ r.originId = cur.parent
                           /\ r.target = Target /\ r.status = StatusOK
      BY <1>3, <3>2, <3>5 DEF Settled, Slot
    <3>7. \E s \in rows : s.status = StatusOK /\ parent' = s.targetId
      BY <3>1, <3>6 DEF TargetID
    <3> QED BY <1>1, <3>7 DEF IInv, AnswerIsCopy, RecordedCopyExists, PostsExist
  <2> QED
    BY <1>1, <1>2, <2>1, <2>2, <2>3, QuietEngine DEF QuietConsumer, Receive, CheckOurs, CheckSeen,
       Route, Done, Create, Answer, Refuse, PostFails, Complete, Fail, Mark, NextTarget
<1>8. ThreadsStayThreads'
  <2> SUFFICES ASSUME NEW c \in Copies', NEW o \in UserPosts', NEW q \in UserPosts',
                      o.plat = c.from, o.id = c.fromId,
                      q.plat = o.plat, q.id = o.parent, Owed(q)'
               PROVE  c.parent # NoID
    BY DEF ThreadsStayThreads
  <2>1. CASE c \in Copies
    <3>1. o \in posts /\ o \in UserPosts
      BY <1>1, <2>1, SourcesAreOld DEF IsSource, UserPosts
    <3>2. q \in UserPosts /\ Owed(q)
      BY <1>4, <3>1
    <3> QED BY <1>1, <1>2, <1>3, <2>1, <3>1, <3>2 DEF ThreadsStayThreads
  <2>2. CASE c \notin Copies
    <3>1. /\ Create /\ c.from = cur.plat /\ c.fromId = cur.id /\ c.parent = parent
      BY <1>1, <2>2, PostsGrow DEF Create, NewPost, Copies
    <3>2. cur \in posts /\ cur \in posts' /\ UniqueIds' /\ pc = "posting"
      BY <1>1, <1>5, <3>1, PostsGrow, UniqueIdsKept DEF Create
    <3>3. o = cur
      BY <3>1, <3>2 DEF UniqueIds, UserPosts
    <3>4. q \in UserPosts /\ Owed(q)
      BY <1>4, <3>2, <3>3
    <3> QED BY <1>3, <3>1, <3>2, <3>3, <3>4
  <2> QED BY <2>1, <2>2
<1> QED BY <1>6, <1>7, <1>8 DEF ParentFound

(* A thread that is read as a whole is mirrored as a thread: without a     *)
(* fault, where no page is cut, as long as no text repeats and no platform *)
(* refused a post, the copy of a reply to a post that was owed is a reply. *)
THEOREM ThreadsMirrored ==
  ASSUME Backfill
  PROVE  BridgeSpec /\ []PagesHold => []ThreadsStayThreads
<1> DEFINE Threaded == DeliveryInv /\ ParentFound
<1>1. BridgeInit => ParentsOlder /\ Origins /\ ParentFound
  <2> SUFFICES ASSUME BridgeInit PROVE ParentsOlder /\ Origins /\ ParentFound
    OBVIOUS
  <2>1. /\ posts = {} /\ rows = {} /\ sink = <<>> /\ Len(sink) = 0 /\ pc = "consume"
        /\ Copies = {}
    BY DEF BridgeInit, Init, Copies
  <2> QED BY <2>1 DEF ParentsOlder, Origins, ParentFound, ThreadsStayThreads, Idle
<1>2. OrderInv /\ ParentsOlder /\ Origins /\ [BridgeNext]_allVars
        => ParentsOlder' /\ Origins'
  <2> SUFFICES ASSUME OrderInv, ParentsOlder, Origins, [BridgeNext]_allVars
               PROVE  ParentsOlder' /\ Origins'
    OBVIOUS
  <2>1. IInv /\ [Next]_vars
    BY BridgeStep DEF OrderInv, BridgeInv, IInv
  <2> QED BY <2>1, ParentsOlderKept, OriginsKept
<1>3. OrderInv /\ OrderInv' /\ ParentsOlder /\ Origins /\ (TextsDiffer => Threaded)
        /\ PagesHold /\ [BridgeNext]_allVars => (TextsDiffer => Threaded)'
  <2> SUFFICES ASSUME OrderInv, OrderInv', ParentsOlder, Origins, TextsDiffer => Threaded,
                      PagesHold, [BridgeNext]_allVars, TextsDiffer'
               PROVE  Threaded'
    OBVIOUS
  <2>1. IInv /\ [Next]_vars
    BY BridgeStep DEF OrderInv, BridgeInv, IInv
  <2>2. TextsDiffer
    BY <2>1, TextsDiffered
  <2> QED BY <2>2, DeliveryInductive, ParentFoundKept
<1>4. OrderInv /\ Numbered /\ Progress /\ NothingForgotten /\ ParentFound => Threaded
  BY DEF DeliveryInv
<1>5. (TextsDiffer => Threaded) => ThreadsStayThreads
  BY DEF ParentFound, ThreadsStayThreads
<1> HIDE DEF Threaded
<1> QED BY <1>1, <1>2, <1>3, <1>4, <1>5, DeliveryInit, OrderInvariance, PTL DEF BridgeSpec

(***************************************************************************)
(* The promise of module Mirror.                                           *)
(***************************************************************************)
(* The targets in hand are among those the post is routed to.              *)
OnRoute ==
  pc \in Working =>
    \A j \in 1..Len(todo) :
      \E i \in 1..Len(Routes[cur.plat]) : Routes[cur.plat][i] = todo[j]

(* Only the copy of a reply is one, and without a fault it is one whenever *)
(* there is a copy to reply to.                                            *)
ParentCopied ==
  \E c \in Copies : c.plat = Target /\ c.from = cur.plat /\ c.fromId = cur.parent

ParentKnown ==
  /\ pc \in Working /\ (pc = "parent" \/ parent # NoID) => cur.parent # NoID
  /\ (Undisturbed /\ pc \in {"attempt", "posting"} /\ cur.parent # NoID /\ ParentCopied) =>
       parent # NoID

LEMMA OnRouteKept ==
  ASSUME TypeOK, OnRoute, [Next]_vars
  PROVE  OnRoute'
<1> USE DEF Working, Idle
<1>1. CASE StartsLoop
  BY <1>1 DEF StartsLoop, OnRoute
<1>2. CASE MovesOn \/ Records \/ Reports
  <2>1. pc \in Working /\ cur' = cur /\ todo' = Tail(todo) /\ todo # <<>> /\ todo \in Seq(Platforms)
    BY <1>2 DEF MovesOn, Records, Reports, NextTarget, TypeOK
  <2>2. \A j \in 1..Len(todo') : j + 1 \in 1..Len(todo) /\ todo'[j] = todo[j + 1]
    BY <2>1
  <2> QED BY <2>1, <2>2 DEF OnRoute
<1>3. CASE \/ Granted \/ ResolveParent \/ BeginAttempt \/ Create \/ Answer \/ Refuse
           \/ LoseAnswer
  BY <1>3 DEF Granted, ResolveParent, BeginAttempt, Create, Answer, Refuse, LoseAnswer,
     PostFails, local, OnRoute
<1>4. CASE Receive \/ PassesGuard \/ Aside
  BY <1>4 DEF Receive, PassesGuard, Aside, OnRoute
<1> QED BY Steps, <1>1, <1>2, <1>3, <1>4

(* What the lookup finds while everything that was copied is recorded.     *)
LEMMA ParentLookup ==
  ASSUME IInv, UniqueIds, Undisturbed, pc = "parent", ParentCopied,
         NEW n \in TargetID(rows, cur, Target)
  PROVE  n # NoID
<1>1. PICK c \in Copies : c.plat = Target /\ c.from = cur.plat /\ c.fromId = cur.parent
  BY DEF ParentCopied
<1>2. PICK r \in rows : r.target = c.plat /\ r.targetId = c.id
  BY <1>1 DEF IInv, CopiesRecorded, IsBridgedTarget, HasCopy
<1>3. c \in posts /\ c.id # NoID
  BY DEF IInv, PostsExist, Copies
<1>4. r.status = StatusOK
  BY <1>2, <1>3 DEF IInv, ClaimHeld
<1>5. PICK d \in posts : /\ d.plat = r.target /\ d.id = r.targetId
                         /\ d.from = r.origin /\ d.fromId = r.originId
  BY <1>4 DEF IInv, AnswerIsCopy, RecordedCopyExists
<1>6. d = c
  BY <1>2, <1>3, <1>5 DEF UniqueIds
<1>7. /\ r.origin = cur.plat /\ r.originId = cur.parent /\ r.target = Target
  BY <1>1, <1>2, <1>5, <1>6
<1>8. PICK s \in rows : s.status = StatusOK /\ n = s.targetId
  BY <1>4, <1>7 DEF TargetID
<1> QED BY <1>8 DEF IInv, AnswerIsCopy, RecordedCopyExists, PostsExist

LEMMA ParentKnownKept ==
  ASSUME IInv, UniqueIds, ParentKnown, [Next]_vars
  PROVE  ParentKnown'
<1> USE DEF Working, Idle
<1>1. TypeOK /\ ParentIsCopy
  BY DEF IInv
<1>2. Undisturbed' => Undisturbed
  BY <1>1, Counted DEF Undisturbed, TypeOK, Kinds
<1>3. CASE ResolveParent
  <2>1. /\ pc = "parent" /\ pc' = "attempt" /\ cur' = cur /\ todo' = todo /\ Copies' = Copies
        /\ cur.parent # NoID
    BY <1>3 DEF ResolveParent, ParentKnown, Copies, world
  <2>2. ParentCopied' <=> ParentCopied
    BY <2>1 DEF ParentCopied, Target
  <2>3. Undisturbed' => parent' \in TargetID(rows, cur, Target)
    <3>1. Undisturbed' => ~StoreFails
      BY <1>1, <1>2 DEF IInv, CopiesRecorded, StoreFails, Happens, Undisturbed, TypeOK, Kinds
    <3> QED BY <1>3, <3>1 DEF ResolveParent
  <2> QED BY <1>2, <2>1, <2>2, <2>3, ParentLookup DEF ParentKnown
<1>4. CASE Granted
  <2>1. parent' = NoID /\ cur' = cur /\ pc' = IF cur.parent = NoID THEN "attempt" ELSE "parent"
    BY <1>1, <1>4 DEF Granted, ParentIsCopy
  <2> QED BY <2>1 DEF ParentKnown
<1>5. CASE BeginAttempt \/ Refuse
  <2>1. /\ pc \in {"attempt", "posting"} /\ pc' \in Working \ {"parent"} /\ cur' = cur
        /\ todo' = todo /\ parent' = parent /\ Copies' = Copies
    BY <1>5 DEF BeginAttempt, Refuse, PostFails, Copies, world, local
  <2>2. ParentCopied' <=> ParentCopied
    BY <2>1 DEF ParentCopied, Target
  <2> QED BY <1>2, <2>1, <2>2 DEF ParentKnown
<1>6. CASE LoseAnswer
  <2>1. /\ pc = "answering" /\ pc' \in Working \ {"parent"} /\ cur' = cur /\ parent' = parent
        /\ Undisturbed' => pc' = "fail"
    BY <1>1, <1>6 DEF LoseAnswer, PostFails, Happens, Undisturbed, TypeOK, Kinds
  <2> QED BY <2>1 DEF ParentKnown
<1>7. CASE Create \/ Answer
  BY <1>7 DEF Create, Answer, ParentKnown, local
<1>8. CASE MovesOn \/ Records \/ Reports
  BY <1>8 DEF MovesOn, Records, Reports, NextTarget, ParentKnown, NoID
<1>9. CASE Receive \/ PassesGuard \/ StartsLoop
  BY <1>1, <1>9 DEF Receive, PassesGuard, StartsLoop, ParentIsCopy, ParentKnown
<1>10. CASE Aside
  <2>1. Copies' = Copies
    BY <1>10 DEF Aside
  <2>2. UNCHANGED <<cur, todo>> => (ParentCopied' <=> ParentCopied)
    BY <2>1 DEF ParentCopied, Target
  <2> QED BY <1>2, <1>10, <2>2 DEF Aside, ParentKnown
<1> QED BY <1>1, Steps, <1>3, <1>4, <1>5, <1>6, <1>7, <1>8, <1>9, <1>10

(* What has happened, as the promise sees it.                              *)
Seen == {k \in {"lost", "dbError", "cancel", "crash", "expire"} : happened[k] > 0}

LEMMA SeenOnce ==
  ASSUME TypeOK
  PROVE  /\ (Seen \cap Mirrored!Faults = {}) <=> Undisturbed
         /\ "lost" \notin Seen <=> happened["lost"] = 0
         /\ "expire" \notin Seen <=> happened["expire"] = 0
<1>1. \A k \in {"lost", "dbError", "cancel", "crash", "expire"} : happened[k] \in Nat
  BY DEF TypeOK, Kinds
<1>2. \A k \in {"lost", "dbError", "cancel", "crash", "expire"} : k \in Seen <=> happened[k] # 0
  BY <1>1 DEF Seen
<1>3. Undisturbed <=> \A k \in Mirrored!Faults : k \notin Seen
  BY <1>2 DEF Undisturbed, Mirrored!Faults
<1>4. Seen \cap Mirrored!Faults = {} <=> \A k \in Mirrored!Faults : k \notin Seen
  OBVIOUS
<1> QED BY <1>2, <1>3, <1>4

(* An outside event is one of the troubles, or none of the reader's.       *)
LEMMA TroubleHappens ==
  ASSUME TypeOK, [Next]_vars
  PROVE  Seen' = Seen \/ \E k \in Mirrored!Troubles : Seen' = Seen \cup {k}
<1>1. happened' = happened => Seen' = Seen
  BY DEF Seen
<1>2. ASSUME NEW j \in Kinds, Happens(j)
      PROVE  Seen' = Seen \/ \E k \in Mirrored!Troubles : Seen' = Seen \cup {k}
  <2>1. /\ happened[j] \in Nat /\ happened'[j] = happened[j] + 1
        /\ \A k \in Kinds : k # j => happened'[k] = happened[k]
    BY <1>2 DEF Happens, TypeOK
  <2>2. CASE j \in Mirrored!Troubles
    <3>1. \A k \in Mirrored!Troubles : k \in Seen' <=> k \in Seen \/ k = j
      BY <2>1, <2>2 DEF Seen, Mirrored!Troubles, Mirrored!Faults, Kinds
    <3>2. Seen \subseteq Mirrored!Troubles /\ Seen' \subseteq Mirrored!Troubles
      BY DEF Seen, Mirrored!Troubles, Mirrored!Faults
    <3>3. Seen' = Seen \cup {j}
      BY <2>2, <3>1, <3>2
    <3> QED BY <2>2, <3>3
  <2>3. CASE j \notin Mirrored!Troubles
    <3>1. \A k \in Mirrored!Troubles : happened'[k] = happened[k]
      BY <2>1, <2>3 DEF Mirrored!Troubles, Mirrored!Faults, Kinds
    <3> QED BY <3>1 DEF Seen, Mirrored!Troubles, Mirrored!Faults
  <2> QED BY <2>2, <2>3
<1>3. happened' = happened \/ \E j \in Kinds : Happens(j)
  BY DEF Next, vars, Consumer, Surroundings, Receive, CheckOurs, CheckSeen, Claim,
         ResolveParent, BeginAttempt, Create, Answer, Refuse, LoseAnswer,
         PostFails, Complete, Fail, Mark, Return, Publish, Expire, Cancel,
         Exit, Crash, Restart, Deliver, ListenerTrouble, StoreWorks,
         StoreFails, Kinds
<1> QED BY <1>1, <1>2, <1>3

(* Where posts come from.                                                  *)
LEMMA PostsAppear ==
  ASSUME [Next]_vars
  PROVE  \/ posts' = posts \/ Create
         \/ \E p \in Platforms, x \in Texts : \E par \in {NoID} \cup IdsOf(p) : Publish(p, x, par)
BY DEF Next, Consumer, Surroundings, Receive, CheckOurs, CheckSeen,
   Claim, ResolveParent, BeginAttempt, Answer, Refuse, LoseAnswer, PostFails, Complete,
   Fail, Mark, Return, Expire, Cancel, Exit, Crash, GoDown, Restart, Deliver,
   ListenerTrouble, world, vars

MirrorInv == /\ OrderInv /\ OnRoute /\ ParentKnown /\ NoSecondCopy /\ SameTextCopiedOnce

(* The copy that target.Post creates is one the promise allows.            *)
LEMMA CreateMirrors ==
  ASSUME MirrorInv, MirrorInv', Create
  PROVE  Mirrored!Appear
<1> USE DEF Working, Idle
<1> DEFINE new == [plat |-> Target, id |-> nextId[Target],
                   text |-> Fit[Target][cur.text], parent |-> parent,
                   from |-> cur.plat, fromId |-> cur.id]
<1>1. /\ TypeOK /\ PostsExist /\ UniqueIds /\ InOrder /\ IInv
      /\ pc = "posting" /\ cur \in posts
  BY DEF MirrorInv, OrderInv, BridgeInv, IInv, PostsExist, Create
<1>2. /\ posts' = posts \cup {new} /\ happened' = happened /\ cur' = cur /\ todo' = todo
  BY DEF Create, NewPost
<1>3. /\ Target \in Platforms /\ Target # cur.plat /\ cur.plat \in Platforms /\ cur.id \in Nat
      /\ cur.id # NoID /\ nextId[Target] \in Nat \ {0}
      /\ todo # <<>> /\ 1 \in 1..Len(todo) /\ Target = todo[1]
  BY <1>1, TargetIsOther DEF TypeOK, Target, PostsExist
<1>4. /\ new.plat = Target /\ new.id = nextId[Target] /\ new.text = Fit[Target][cur.text]
      /\ new.parent = parent /\ new.from = cur.plat /\ new.fromId = cur.id
  OBVIOUS
<1> HIDE DEF new
<1>5. Mirrored!IsNext(new) /\ new \notin posts /\ new \in posts'
  BY <1>1, <1>2, <1>3, <1>4 DEF Mirrored!IsNext, Mirrored!NoID, NoID, PostsExist, TypeOK, Post
<1>6. \A p, id, t : Mirrored!CopiesOf(p, id, t) =
        {c \in Copies : c.plat = t /\ c.from = p /\ c.fromId = id}
  BY DEF Mirrored!CopiesOf, Mirrored!NoID, NoID, Copies
<1>7. new \in Copies' /\ Copies \subseteq Copies'
  BY <1>2, <1>3, <1>4 DEF Copies
<1>8. Mirrored!IsCopy(cur, new)
  <2>1. \E i \in 1..Len(Routes[cur.plat]) : Routes[cur.plat][i] = Target
    BY <1>1, <1>3 DEF MirrorInv, OnRoute
  <2> QED BY <1>4, <2>1 DEF Mirrored!IsCopy
<1>9. /\ Mirrored!Calm <=> Undisturbed
      /\ Mirrored!Answered <=> happened["lost"] = 0
      /\ Mirrored!Windowed <=> Undisturbed /\ happened["expire"] = 0
  BY <1>1, SeenOnce DEF Seen, Mirrored!Calm, Mirrored!Answered, Mirrored!Windowed
<1>10. Mirrored!InThread(cur, new)
  <2> DEFINE above == Mirrored!CopiesOf(cur.plat, cur.parent, new.plat)
  <2>1. ASSUME parent # NoID
        PROVE  cur.parent # NoID /\ \E q \in above : q.id = parent
    <3>1. cur.parent # NoID
      BY <1>1, <2>1 DEF MirrorInv, ParentKnown
    <3>2. PICK q \in posts : /\ q.plat = Target /\ q.id = parent
                             /\ q.from = cur.plat /\ q.fromId = cur.parent
      BY <1>1, <2>1 DEF IInv, ParentIsCopy
    <3>3. q \in above
      BY <1>4, <1>6, <3>1, <3>2 DEF Copies
    <3> QED BY <3>1, <3>2, <3>3
  <2>2. ASSUME Undisturbed, cur.parent # NoID, above # {}
        PROVE  parent # NoID
    <3>1. ParentCopied
      BY <1>4, <1>6, <2>2 DEF ParentCopied
    <3> QED BY <1>1, <2>2, <3>1 DEF MirrorInv, ParentKnown
  <2> HIDE DEF above
  <2>3. Mirrored!NoID = NoID
    BY DEF Mirrored!NoID, NoID
  <2> QED BY <1>4, <1>9, <2>1, <2>2, <2>3 DEF Mirrored!InThread, above
<1>11. Mirrored!FirstOfItsKind(cur, new)
  <2>1. ASSUME happened["lost"] = 0
        PROVE  Mirrored!CopiesOf(cur.plat, cur.id, new.plat) = {}
    <3> SUFFICES ASSUME NEW c \in Copies, c.plat = new.plat, c.from = cur.plat, c.fromId = cur.id
                 PROVE  FALSE
      BY <1>6
    <3>1. Source(c) = Source(new)
      BY <1>4 DEF Source
    <3>2. c = new
      <4> DEFINE both == CopiesOf(Source(c), c.plat)'
      <4>1. c \in Copies' /\ new \in Copies' /\ c \in both /\ new \in both
        BY <1>7, <3>1 DEF CopiesOf
      <4>2. both \in SUBSET posts'
        BY DEF CopiesOf, Copies
      <4>3. IsFiniteSet(both)
        BY <4>2, FS_Subset DEF MirrorInv, OrderInv, BridgeInv, IInv, PairsClosed
      <4>4. Cardinality(both) <= 1
        BY <1>2, <2>1, <4>1 DEF MirrorInv, NoSecondCopy
      <4> HIDE DEF both
      <4> QED BY <4>1, <4>3, <4>4, OneElement
    <3> QED BY <1>5, <3>2 DEF Copies
  <2>2. ASSUME Undisturbed, happened["expire"] = 0, Hash[cur.text] # NoHash,
               NEW q \in posts, Hash[q.text] = Hash[cur.text]
        PROVE  Mirrored!CopiesOf(q.plat, q.id, new.plat) = {}
    <3> SUFFICES ASSUME NEW c \in Copies, c.plat = new.plat, c.from = q.plat, c.fromId = q.id
                 PROVE  FALSE
      BY <1>6
    <3>1. SameTextCopiedOnce' /\ Undisturbed' /\ happened'["expire"] = 0
      BY <1>2, <2>2 DEF MirrorInv, Undisturbed
    <3>2. q \in posts' /\ cur \in posts' /\ c \in Copies'
      BY <1>1, <1>2, <1>7
    <3>3. new = c
      BY <1>4, <1>7, <2>2, <3>1, <3>2 DEF SameTextCopiedOnce
    <3> QED BY <1>5, <3>3 DEF Copies
  <2> QED BY <1>9, <2>1, <2>2 DEF Mirrored!FirstOfItsKind
<1>12. Mirrored!InTurn(cur, new)
  <2> SUFFICES ASSUME Undisturbed
               PROVE  /\ cur.fromId = NoID
                      /\ \A c \in Copies :
                           c.plat = Target /\ c.from = cur.plat => c.fromId < cur.id
    BY <1>4, <1>9 DEF Mirrored!InTurn, Mirrored!NoID, NoID, Copies
  <2>1. cur.fromId = NoID
    BY <1>1 DEF IInv, CopiesRecorded
  <2>2. ASSUME NEW c \in Copies, c.plat = Target, c.from = cur.plat
        PROVE  c.fromId < cur.id
    <3>1. c.fromId <= cur.id /\ c.fromId \in Nat
      BY <1>1, <2>2 DEF InOrder, TypeOK, Post, Copies
    <3>2. c.fromId # cur.id
      <4>1. happened["lost"] = 0
        BY DEF Undisturbed
      <4>2. Mirrored!CopiesOf(cur.plat, cur.id, Target) = {}
        BY <1>4, <1>9, <1>11, <4>1 DEF Mirrored!FirstOfItsKind
      <4> QED BY <1>6, <2>2, <4>2
    <3> QED BY <1>3, <3>1, <3>2
  <2> QED BY <2>1, <2>2
<1>13. Mirrored!Mirrors(new)
  BY <1>1, <1>8, <1>10, <1>11, <1>12 DEF Mirrored!Mirrors
<1> QED BY <1>2, <1>5, <1>13 DEF Mirrored!Appear

LEMMA PublishIsWritten ==
  ASSUME MirrorInv, NEW p \in Platforms, NEW x \in Texts, NEW par \in {NoID} \cup IdsOf(p),
         Publish(p, x, par)
  PROVE  Mirrored!Appear
<1> DEFINE new == [plat |-> p, id |-> nextId[p], text |-> x, parent |-> par,
                   from |-> p, fromId |-> NoID]
<1>1. TypeOK /\ PostsExist
  BY DEF MirrorInv, OrderInv, BridgeInv, IInv
<1>2. posts' = posts \cup {new}
  BY DEF Publish, NewPost
<1>3. nextId[p] \in Nat \ {0}
  BY <1>1 DEF TypeOK
<1>4. /\ new.plat = p /\ new.id = nextId[p] /\ new.text = x
      /\ new.parent = par /\ new.fromId = NoID
  OBVIOUS
<1> HIDE DEF new
<1>5. Mirrored!IsNext(new) /\ new \notin posts
  BY <1>1, <1>3, <1>4 DEF Mirrored!IsNext, Mirrored!NoID, PostsExist, TypeOK, Post
<1>6. Mirrored!Written(new)
  BY <1>4 DEF Mirrored!Written, Mirrored!NoID, NoID, IdsOf
<1>7. Seen' = Seen
  BY <1>1 DEF Publish, Happens, TypeOK, Kinds, Seen
<1> QED BY <1>2, <1>5, <1>6, <1>7 DEF Mirrored!Appear, Seen

LEMMA MirrorStep ==
  ASSUME MirrorInv, MirrorInv', [Next]_vars
  PROVE  [Mirrored!Appear \/ Mirrored!Happen]_<<posts, Seen>>
<1>1. TypeOK
  BY DEF MirrorInv, OrderInv, BridgeInv, IInv
<1>2. CASE posts' = posts
  <2>1. Seen' = Seen \/ \E k \in Mirrored!Troubles : Seen' = Seen \cup {k}
    BY <1>1, TroubleHappens
  <2> QED BY <1>2, <2>1 DEF Mirrored!Happen, Seen
<1> QED BY <1>2, PostsAppear, PublishIsWritten, CreateMirrors

LEMMA MirrorInvariance == BridgeSpec => []MirrorInv
<1>1. BridgeInit => OnRoute /\ ParentKnown
  BY DEF BridgeInit, Init, OnRoute, ParentKnown, Working
<1>2. OrderInv /\ OnRoute /\ ParentKnown /\ [BridgeNext]_allVars => OnRoute' /\ ParentKnown'
  <2> SUFFICES ASSUME OrderInv, OnRoute, ParentKnown, [BridgeNext]_allVars
               PROVE  OnRoute' /\ ParentKnown'
    OBVIOUS
  <2>1. IInv /\ UniqueIds /\ TypeOK /\ [Next]_vars
    BY BridgeStep DEF OrderInv, BridgeInv, IInv
  <2> QED BY <2>1, OnRouteKept, ParentKnownKept
<1>3. OrderInv /\ OnRoute /\ ParentKnown /\ NoSecondCopy /\ SameTextCopiedOnce => MirrorInv
  BY DEF MirrorInv
<1> QED BY <1>1, <1>2, <1>3, OrderInvariance, BridgeImplementsEngine, OneCopyPerPost,
        SameWordsOnce, PTL DEF BridgeSpec

(* The bridge keeps its promise: whatever its listeners read, however the  *)
(* platforms, the store and the process behave, and for any platforms,     *)
(* routes, texts, page sizes and bounds, all that it does to what people   *)
(* see is a step of Mirror.                                                *)
THEOREM BridgeMirrors == BridgeSpec => MirrorsPosts
<1>1. BridgeInit => Mirrored!MirrorInit
  BY DEF BridgeInit, Init, Mirrored!MirrorInit, Kinds
<1>2. MirrorInv /\ MirrorInv' /\ [BridgeNext]_allVars
        => [Mirrored!Appear \/ Mirrored!Happen]_<<posts, Seen>>
  <2> SUFFICES ASSUME MirrorInv, MirrorInv', [BridgeNext]_allVars
               PROVE  [Mirrored!Appear \/ Mirrored!Happen]_<<posts, Seen>>
    OBVIOUS
  <2>1. [Next]_vars
    BY BridgeStep DEF MirrorInv, OrderInv, BridgeInv, IInv
  <2> QED BY <2>1, MirrorStep
<1> QED BY <1>1, <1>2, MirrorInvariance, PTL
        DEF BridgeSpec, MirrorsPosts, Mirrored!MirrorSpec, Seen
=============================================================================
