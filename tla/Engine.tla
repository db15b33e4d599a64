------------------------------- MODULE Engine -------------------------------
(***************************************************************************)
(* internal/feed/engine.go over the store: the one goroutine that takes    *)
(* posts from the sink, applies the two guards and copies each post to its *)
(* targets, in a process that is stopped, killed and restarted, against    *)
(* platforms that refuse a post or lose the answer to one they accepted.   *)
(* The listeners appear as Deliver: any post of any platform, in any order *)
(* and any number of times.  Modules Poller and Jetstream say which.       *)
(*                                                                         *)
(* Left out: attachments, which with the requests of one call of           *)
(* target.Post are in module Posting, and the wait between two attempts.   *)
(***************************************************************************)
EXTENDS BridgeStore, Sequences, FiniteSets

CONSTANTS
  Platforms,   \* model.AllPlatforms
  Routes,      \* e.routes, over the platforms that have a target
  Texts,       \* what a post may say
  Hash,        \* text.Hash, from Texts to hashes or NoHash
  NoHash,      \* the "" text.Hash gives an empty post
  Fit,         \* Fit[p][x]: what text.Truncate leaves of x on platform p
  Attempts,    \* e.attempts
  SinkBuffer,  \* capacity of the sink channel
  Budgets,     \* bounds on how often each kind of outside event happens
  NoPost       \* no post in hand

(* Outside events: a user post, a platform refusing a post, a hash leaving *)
(* the dedup window, an answer lost after the platform created the post, a *)
(* store error, a cancellation (SIGTERM, a listener that failed), a crash, *)
(* a listener losing its connection.                                       *)
Kinds == {"publish", "refuse", "expire", "lost", "dbError", "cancel", "crash",
          "disconnect"}

ASSUME RoutesAssumption ==
  /\ DOMAIN Routes = Platforms
  /\ \A p \in Platforms : Routes[p] \in Seq(Platforms \ {p})
ASSUME BoundsAssumption ==
  /\ Attempts \in Nat \ {0}
  /\ SinkBuffer \in Nat \ {0}
  /\ Budgets \subseteq [Kinds -> Nat]
ASSUME TextAssumption == Fit \in [Platforms -> [Texts -> Texts]]

VARIABLES
  rows, seen,               \* the store: tables "bridged" and "seen"
  posts, nextId,            \* the platforms: all posts, next id of each
  proc,                     \* "running", "stopping" (ctx cancelled), "down"
  sink,                     \* the channel between listeners and engine
  pc,                       \* where the consumer is in consume/handle/bridge
  cur,                      \* the post handle works on
  todo,                     \* targets left in its loop, the current one first
  parent, attempt, made,    \* of bridge: ParentTargetID, Retry's attempt, createdID
  bridged,                  \* handle's counter, as "is it positive"
  happened                  \* how often each outside event happened

store == <<rows, seen>>
world == <<posts, nextId>>
local == <<cur, todo, parent, attempt, made, bridged>>
vars  == <<rows, seen, posts, nextId, proc, sink, pc, local, happened>>

PCs == {"consume", "ours", "seen", "claim", "parent", "attempt", "posting",
        "answering", "complete", "fail", "mark", "returned", "off"}

(* A post on a platform: parent is the id it replies to on that platform,  *)
(* from/fromId the post it is a copy of (fromId = NoID: the user wrote it).*)
Post == [plat : Platforms, id : Nat, text : Texts, parent : Nat,
         from : Platforms, fromId : Nat]

ASSUME NoPostAssumption == NoPost \notin Post

Target == Head(todo)

(***************************************************************************)
(* Shared steps.                                                           *)
(***************************************************************************)
Happens(k) == /\ happened' = [happened EXCEPT ![k] = @ + 1]
              /\ \E limit \in Budgets : \A j \in Kinds : happened'[j] <= limit[j]

(* The engine passes its own context to the store: once it is cancelled    *)
(* every call fails and changes nothing.                                   *)
StoreWorks == proc = "running" /\ UNCHANGED happened
StoreFails == \/ proc = "stopping" /\ UNCHANGED happened
              \/ proc = "running" /\ Happens("dbError")

(* A platform creates a post and gives it the next identifier.             *)
NewPost(p, text, par, from, fromId) ==
  /\ posts' = posts \cup {[plat |-> p, id |-> nextId[p], text |-> text,
                           parent |-> par, from |-> from, fromId |-> fromId]}
  /\ nextId' = [nextId EXCEPT ![p] = @ + 1]

ResetLocal == /\ cur' = NoPost /\ todo' = <<>> /\ parent' = NoID
              /\ attempt' = 0 /\ made' = NoID /\ bridged' = FALSE

(* handle returns.                                                         *)
Done == pc' = "consume" /\ ResetLocal

(* bridge returns b: handle's loop goes on, or to its last step.           *)
NextTarget(b) ==
  /\ todo' = Tail(todo)
  /\ pc' = IF Tail(todo) = <<>> THEN "mark" ELSE "claim"
  /\ bridged' = (bridged \/ b)
  /\ parent' = NoID /\ attempt' = 0 /\ made' = NoID
  /\ UNCHANGED cur

(***************************************************************************)
(* The consumer.                                                           *)
(***************************************************************************)
(* select may pick the sink even when the context is already cancelled.    *)
Receive ==
  /\ pc = "consume" /\ sink # <<>>
  /\ cur' = Head(sink) /\ sink' = Tail(sink) /\ pc' = "ours"
  /\ UNCHANGED <<store, world, proc, todo, parent, attempt, made, bridged, happened>>

(* Mutated form: guard one is not consulted.                               *)
CheckOursSkipped ==
  /\ pc = "ours" /\ pc' = "seen"
  /\ UNCHANGED <<store, world, proc, sink, local, happened>>

(* Guard one.                                                              *)
CheckOurs ==
  /\ pc = "ours"
  /\ \/ StoreFails /\ Done
     \/ StoreWorks /\ IsBridgedTarget(rows, cur) /\ Done
     \/ /\ StoreWorks /\ ~IsBridgedTarget(rows, cur)
        /\ pc' = "seen" /\ UNCHANGED local
  /\ UNCHANGED <<store, world, proc, sink>>

Route ==
  IF Routes[cur.plat] = <<>>
  THEN Done
  ELSE /\ todo' = Routes[cur.plat] /\ pc' = "claim"
       /\ UNCHANGED <<cur, parent, attempt, made, bridged>>

(* Mutated form: guard two is not consulted.                               *)
CheckSeenSkipped ==
  pc = "seen" /\ Route /\ UNCHANGED <<store, world, proc, sink, happened>>

(* Guard two: a failing lookup lets the post through.                      *)
CheckSeen ==
  /\ pc = "seen"
  /\ \/ Hash[cur.text] = NoHash /\ Route /\ UNCHANGED happened
     \/ Hash[cur.text] # NoHash /\ StoreFails /\ Route
     \/ /\ Hash[cur.text] # NoHash /\ StoreWorks
        /\ SeenRecently(seen, Hash[cur.text]) /\ Done
     \/ /\ Hash[cur.text] # NoHash /\ StoreWorks
        /\ ~SeenRecently(seen, Hash[cur.text]) /\ Route
  /\ UNCHANGED <<store, world, proc, sink>>

Claim ==
  /\ pc = "claim"
  /\ \/ StoreFails /\ NextTarget(FALSE) /\ UNCHANGED rows
     \/ /\ StoreWorks /\ ~Claims(rows, cur, Target)
        /\ NextTarget(TRUE) /\ UNCHANGED rows
     \/ /\ StoreWorks /\ Claims(rows, cur, Target)
        /\ rows' = ClaimBridge(rows, cur, Target)
        /\ pc' = IF cur.parent = NoID THEN "attempt" ELSE "parent"
        /\ attempt' = 1
        /\ UNCHANGED <<cur, todo, parent, made, bridged>>
  /\ UNCHANGED <<seen, world, proc, sink>>

ResolveParent ==
  /\ pc = "parent"
  /\ \/ StoreWorks /\ parent' \in TargetID(rows, cur, Target)
     \/ StoreFails /\ parent' = NoID
  /\ pc' = "attempt"
  /\ UNCHANGED <<store, world, proc, sink, cur, todo, attempt, made, bridged>>

(* Retry looks at the context before every call of target.Post.            *)
BeginAttempt ==
  /\ pc = "attempt"
  /\ pc' = IF proc = "stopping" THEN "fail" ELSE "posting"
  /\ UNCHANGED <<store, world, proc, sink, local, happened>>

(* target.Post reaches the platform and the platform creates the post.     *)
Create ==
  /\ pc = "posting"
  /\ NewPost(Target, Fit[Target][cur.text], parent, cur.plat, cur.id)
  /\ made' = nextId[Target] /\ pc' = "answering"
  /\ UNCHANGED <<store, proc, sink, cur, todo, parent, attempt, bridged, happened>>

Answer ==
  /\ pc = "answering" /\ pc' = "complete"
  /\ UNCHANGED <<store, world, proc, sink, local, happened>>

(* Mutated form: the next attempt forgets what the post replies to.        *)
PostFailsForgetting(kind) ==
  /\ made' = NoID /\ parent' = NoID
  /\ \/ /\ proc = "stopping" /\ pc' = "fail" /\ UNCHANGED <<attempt, happened>>
     \/ /\ proc = "running" /\ Happens(kind) /\ attempt < Attempts
        /\ attempt' = attempt + 1 /\ pc' = "attempt"
     \/ /\ proc = "running" /\ Happens(kind) /\ attempt >= Attempts
        /\ pc' = "fail" /\ UNCHANGED attempt
  /\ UNCHANGED <<store, world, proc, sink, cur, todo, bridged>>

(* target.Post returns an error: Retry tries again after a wait, unless    *)
(* this was the last attempt or the wait is cut short by cancellation.     *)
PostFails(kind) ==
  /\ made' = NoID
  /\ \/ /\ proc = "stopping" /\ pc' = "fail" /\ UNCHANGED <<attempt, happened>>
     \/ /\ proc = "running" /\ Happens(kind) /\ attempt < Attempts
        /\ attempt' = attempt + 1 /\ pc' = "attempt"
     \/ /\ proc = "running" /\ Happens(kind) /\ attempt >= Attempts
        /\ pc' = "fail" /\ UNCHANGED attempt
  /\ UNCHANGED <<store, world, proc, sink, cur, todo, parent, bridged>>

Refuse     == pc = "posting" /\ PostFails("refuse")
LoseAnswer == pc = "answering" /\ PostFails("lost")

(* bridge returns true even when its result could not be recorded.         *)
Complete ==
  /\ pc = "complete" /\ NextTarget(TRUE)
  /\ \/ StoreWorks /\ rows' = CompleteBridge(rows, cur, Target, made)
     \/ StoreFails /\ UNCHANGED rows
  /\ UNCHANGED <<seen, world, proc, sink>>

(* Mutated form: a failed attempt leaves its claim behind.                 *)
FailKeepsClaim ==
  /\ pc = "fail" /\ NextTarget(FALSE)
  /\ StoreWorks \/ StoreFails
  /\ UNCHANGED <<store, world, proc, sink>>

Fail ==
  /\ pc = "fail" /\ NextTarget(FALSE)
  /\ \/ StoreWorks /\ rows' = FailBridge(rows, cur, Target)
     \/ StoreFails /\ UNCHANGED rows
  /\ UNCHANGED <<seen, world, proc, sink>>

Mark ==
  /\ pc = "mark" /\ Done
  /\ IF bridged /\ Hash[cur.text] # NoHash
     THEN \/ StoreWorks /\ seen' = MarkSeen(seen, Hash[cur.text])
          \/ StoreFails /\ UNCHANGED seen
     ELSE UNCHANGED <<seen, happened>>
  /\ UNCHANGED <<rows, world, proc, sink>>

(* consume sees the cancelled context.                                     *)
Return ==
  /\ pc = "consume" /\ proc = "stopping" /\ pc' = "returned"
  /\ UNCHANGED <<store, world, proc, sink, local, happened>>

(***************************************************************************)
(* The process.                                                            *)
(***************************************************************************)
(* Whatever ends the process takes the sink and the locals with it.        *)
GoDown == /\ proc' = "down" /\ pc' = "off" /\ sink' = <<>> /\ ResetLocal
          /\ UNCHANGED <<store, world>>

Cancel == /\ proc = "running" /\ Happens("cancel") /\ proc' = "stopping"
          /\ UNCHANGED <<store, world, sink, pc, local>>
Exit == proc = "stopping" /\ pc = "returned" /\ GoDown /\ UNCHANGED happened
Crash == proc # "down" /\ Happens("crash") /\ GoDown
Restart == /\ proc = "down" /\ proc' = "running" /\ pc' = "consume"
           /\ UNCHANGED <<store, world, sink, local, happened>>

(***************************************************************************)
(* The surroundings: users, time, and the listeners.                       *)
(***************************************************************************)
Publish(p, text, par) ==
  /\ Happens("publish") /\ NewPost(p, text, par, p, NoID)
  /\ UNCHANGED <<store, proc, sink, pc, local>>

Expire(h) == /\ h \in seen /\ Happens("expire") /\ seen' = seen \ {h}
             /\ UNCHANGED <<rows, world, proc, sink, pc, local>>

(* Mutated form: the capacity of the channel is ignored.                   *)
EnqueueUnbounded(post) == proc # "down" /\ Len(sink) <= SinkBuffer
                          /\ sink' = Append(sink, post)

(* platform.Emit succeeds: there is room, whatever the context says.       *)
Enqueue(post) == /\ proc # "down" /\ Len(sink) < SinkBuffer
                 /\ sink' = Append(sink, post)

Deliver(post) == /\ Enqueue(post)
                 /\ UNCHANGED <<store, world, proc, pc, local, happened>>

(* An error that meets a listener and not the engine.                      *)
ListenerTrouble(k) ==
  Happens(k) /\ UNCHANGED <<store, world, proc, sink, pc, local>>

IdsOf(p) == {q.id : q \in {r \in posts : r.plat = p}}

Init ==
  /\ rows = {} /\ seen = {} /\ posts = {}
  /\ nextId = [p \in Platforms |-> 1]
  /\ proc = "running" /\ sink = <<>> /\ pc = "consume"
  /\ cur = NoPost /\ todo = <<>> /\ parent = NoID
  /\ attempt = 0 /\ made = NoID /\ bridged = FALSE
  /\ happened = [k \in Kinds |-> 0]

Consumer == \/ Receive \/ CheckOurs \/ CheckSeen \/ Claim \/ ResolveParent
            \/ BeginAttempt \/ Create \/ Answer \/ Refuse \/ LoseAnswer
            \/ Complete \/ Fail \/ Mark \/ Return

Surroundings == \/ \E p \in Platforms, x \in Texts :
                     \E par \in {NoID} \cup IdsOf(p) : Publish(p, x, par)
                \/ \E h \in seen : Expire(h)

Next == \/ Consumer \/ Surroundings
        \/ Cancel \/ Exit \/ Crash \/ Restart
        \/ \E post \in posts : Deliver(post)
        \/ \E k \in {"dbError", "disconnect"} : ListenerTrouble(k)

Spec == Init /\ [][Next]_vars

(***************************************************************************)
(* What must hold.                                                         *)
(***************************************************************************)
Copies == {c \in posts : c.fromId # NoID}
Source(c) == [plat |-> c.from, id |-> c.fromId]

(* No fault so far: no lost answer, store error, cancellation or crash.    *)
Undisturbed ==
  \A k \in {"lost", "dbError", "cancel", "crash"} : happened[k] = 0

TypeOK ==
  /\ rows \subseteq Row(Platforms) /\ posts \subseteq Post
  /\ nextId \in [Platforms -> Nat \ {0}]
  /\ proc \in {"running", "stopping", "down"}
  /\ sink \in Seq(Post) /\ Len(sink) <= SinkBuffer
  /\ pc \in PCs /\ (proc = "down" <=> pc = "off")
  /\ pc \in {"consume", "returned", "off"} => cur = NoPost
  /\ pc \notin {"consume", "returned", "off"} => cur \in Post
  /\ pc \in {"consume", "ours", "seen", "mark", "returned", "off"} =>
        todo = <<>>
  /\ pc \in {"claim", "parent", "attempt", "posting", "answering",
             "complete", "fail"} =>
        todo # <<>> /\ todo \in Seq(Platforms \ {cur.plat})
  /\ parent \in Nat /\ attempt \in Nat /\ made \in Nat /\ bridged \in BOOLEAN
  /\ happened \in [Kinds -> Nat]

CopiesOf(o, t) == {c \in Copies : c.plat = t /\ Source(c).plat = o.plat /\ Source(c).id = o.id}

(* The claim in front of target.Post: however often a post is detected,    *)
(* and whatever fails, is cancelled or crashes, a platform gets one copy   *)
(* of it, and one more at most for every answer to a successful post that  *)
(* was lost.                                                               *)
NoSecondCopy ==
  \A c \in Copies : Cardinality(CopiesOf(Source(c), c.plat)) <= 1 + happened["lost"]

(* The loop guard, in every run, faults included: what the table records   *)
(* as the bridge's own post is never the source of a copy.                 *)
OwnPostNeverCopied == \A c \in Copies : ~IsBridgedTarget(rows, Source(c))

(* Without a fault the guard is complete: only what users wrote is copied. *)
OnlyUserPostsCopied ==
  Undisturbed =>
    \A c \in Copies : \E o \in posts : /\ o.plat = c.from /\ o.id = c.fromId
                                       /\ o.fromId = NoID

(* A copy that is a reply replies to the copy, on its own platform, of the *)
(* post that the original replies to.                                      *)
RepliesThreadedRight ==
  \A c \in Copies : c.parent # NoID =>
    \E o, q \in posts :
      /\ o.plat = c.from /\ o.id = c.fromId
      /\ q.plat = c.plat /\ q.id = c.parent
      /\ q.from = o.plat /\ q.fromId = o.parent

(* Guard two: posts that say the same inside the dedup window, wherever    *)
(* they were published, reach a platform as a copy at most once.           *)
SameTextCopiedOnce ==
  Undisturbed /\ happened["expire"] = 0 =>
    \A c, d \in Copies : \A o, q \in posts :
      /\ o.plat = c.from /\ o.id = c.fromId
      /\ q.plat = d.from /\ q.id = d.fromId
      /\ Hash[o.text] # NoHash /\ Hash[o.text] = Hash[q.text]
      /\ c.plat = d.plat
      => c = d

(* Without a fault every claim is resolved before the engine moves on: a   *)
(* pending row belongs to the pair that bridge is working on.              *)
PendingIsBeingWorkedOn ==
  Undisturbed =>
    \A r \in rows : r.status = StatusPending =>
      /\ pc \in {"parent", "attempt", "posting", "answering", "complete", "fail"}
      /\ r.origin = cur.plat /\ r.originId = cur.id /\ r.target = Target

(* What the table says was copied exists, on that platform, as a copy of   *)
(* that post.                                                              *)
RecordedCopyExists ==
  \A r \in rows : r.status = StatusOK =>
    \E c \in posts : /\ c.plat = r.target /\ c.id = r.targetId
                     /\ c.from = r.origin /\ c.fromId = r.originId

(* A finished row is never changed or removed by any step.                 *)
FinishedRowsKept ==
  [][\A r \in rows : r.status = StatusOK => r \in rows']_vars
=============================================================================
