------------------------------- MODULE Poller -------------------------------
(***************************************************************************)
(* The polling listeners, internal/platform/mastodon/inbound.go and        *)
(* internal/platform/twitter/inbound.go under platform.PollLoop: each      *)
(* fetches the newest page of its account after its cursor, hands the      *)
(* posts to the sink oldest first and then saves the cursor.               *)
(*                                                                         *)
(* A poll that fails before anything is emitted, and one that finds        *)
(* nothing, change nothing but the wait: no step here.  A boost is dropped *)
(* like a reply that is not wanted: it moves the cursor and is not emitted.*)
(***************************************************************************)
EXTENDS Engine

CONSTANTS
  Pollers,         \* the polled platforms
  PageSize,        \* pageSize, maxResults
  Backfill,        \* the option backfill
  IncludeReplies   \* include_replies of each platform

ASSUME PollerAssumption ==
  /\ Pollers \subseteq Platforms
  /\ PageSize \in [Pollers -> Nat \ {0}]
  /\ Backfill \in BOOLEAN
  /\ IncludeReplies \in [Platforms -> BOOLEAN]

VARIABLES
  cursor,     \* the store: table "cursors"; NoID is the "" of a first run
  lpc,        \* where each listener is: "start" before its first poll, "idle"
              \* between polls, "emit", "save", "stopped", "off"
  batch,      \* the posts of the page that are still to be emitted
  newest      \* the cursor to save after them

pollerVars == <<cursor, lpc, batch, newest>>

PollerTypeOK ==
  /\ cursor \in [Pollers -> Nat] /\ newest \in [Pollers -> Nat]
  /\ lpc \in [Pollers -> {"start", "idle", "emit", "save", "stopped", "off"}]
  /\ batch \in [Pollers -> SUBSET Post]
  /\ \A p \in Pollers : lpc[p] = "emit" <=> batch[p] # {}

PollerInit ==
  /\ cursor = [p \in Pollers |-> NoID]
  /\ lpc    = [p \in Pollers |-> "start"]
  /\ batch  = [p \in Pollers |-> {}]
  /\ newest = [p \in Pollers |-> NoID]

PollerIdle == UNCHANGED pollerVars

Wanted(p, post) == post.parent = NoID \/ IncludeReplies[p]

(* since_id: the platform answers with the newest posts after the cursor,  *)
(* at most a page of them.                                                 *)
Page(p) ==
  LET after == {q \in posts : q.plat = p /\ q.id > cursor[p]}
  IN  {q \in after : Cardinality({r \in after : r.id > q.id}) < PageSize[p]}

(* The cursor a page leads to.                                             *)
Newest(page) == CHOOSE n \in {q.id : q \in page} : \A q \in page : q.id <= n

Poll(p) ==
  /\ lpc[p] \in {"start", "idle"} /\ proc = "running" /\ Page(p) # {}
  /\ newest' = [newest EXCEPT ![p] = Newest(Page(p))]
  /\ LET first == cursor[p] = NoID /\ ~Backfill
         new   == IF first THEN {} ELSE {q \in Page(p) : Wanted(p, q)}
     IN  /\ batch' = [batch EXCEPT ![p] = new]
         /\ lpc' = [lpc EXCEPT ![p] = IF new = {} THEN "save" ELSE "emit"]
  /\ UNCHANGED <<vars, cursor>>

PollNothing(p) ==
  /\ lpc[p] = "start" /\ proc = "running" /\ Page(p) = {}
  /\ lpc' = [lpc EXCEPT ![p] = "idle"]
  /\ UNCHANGED <<vars, cursor, batch, newest>>

(* Mutated form: the page is emitted in the order the platform sends it.   *)
NextOfNewestFirst(page) == CHOOSE q \in page : \A r \in page : q.id >= r.id

NextOf(page) == CHOOSE q \in page : \A r \in page : q.id <= r.id

(* Mutated form: the cursor moves on with every post that is emitted.      *)
EmitAndSave(p) ==
  /\ lpc[p] = "emit" /\ Enqueue(NextOf(batch[p]))
  /\ cursor' = [cursor EXCEPT ![p] = newest[p]]
  /\ batch' = [batch EXCEPT ![p] = @ \ {NextOf(@)}]
  /\ lpc' = [lpc EXCEPT ![p] = IF batch'[p] = {} THEN "save" ELSE "emit"]
  /\ UNCHANGED <<store, world, proc, pc, local, happened, newest>>

(* Mutated form: when the sink is full its oldest post makes room.         *)
EmitDroppingOldest(p) ==
  /\ lpc[p] = "emit" /\ proc # "down"
  /\ sink' = Append(IF Len(sink) < SinkBuffer THEN sink ELSE Tail(sink),
                    NextOf(batch[p]))
  /\ batch' = [batch EXCEPT ![p] = @ \ {NextOf(@)}]
  /\ lpc' = [lpc EXCEPT ![p] = IF batch'[p] = {} THEN "save" ELSE "emit"]
  /\ UNCHANGED <<store, world, proc, pc, local, happened, cursor, newest>>

Emit(p) ==
  /\ lpc[p] = "emit" /\ Enqueue(NextOf(batch[p]))
  /\ batch' = [batch EXCEPT ![p] = @ \ {NextOf(@)}]
  /\ lpc' = [lpc EXCEPT ![p] = IF batch'[p] = {} THEN "save" ELSE "emit"]
  /\ UNCHANGED <<store, world, proc, pc, local, happened, cursor, newest>>

(* Mutated form: a listener waits for room in the sink for ever.           *)
GiveUpNever(p) == FALSE

(* Emit gives up when the context is cancelled: poll and PollLoop return,  *)
(* the cursor stays where it was.                                          *)
GiveUp(p) ==
  /\ lpc[p] = "emit" /\ proc = "stopping"
  /\ batch' = [batch EXCEPT ![p] = {}]
  /\ newest' = [newest EXCEPT ![p] = NoID]
  /\ lpc' = [lpc EXCEPT ![p] = "stopped"]
  /\ UNCHANGED <<vars, cursor>>

(* saveCursor uses a context of its own, so it works while stopping too.   *)
Save(p) ==
  /\ lpc[p] = "save" /\ lpc' = [lpc EXCEPT ![p] = "idle"]
  /\ newest' = [newest EXCEPT ![p] = NoID]
  /\ \/ cursor' = [cursor EXCEPT ![p] = newest[p]] /\ UNCHANGED vars
     \/ UNCHANGED cursor /\ ListenerTrouble("dbError")
  /\ UNCHANGED batch

(* PollLoop sees the cancelled context in its wait.                        *)
StopPolling(p) ==
  /\ lpc[p] \in {"start", "idle"} /\ proc = "stopping"
  /\ lpc' = [lpc EXCEPT ![p] = "stopped"]
  /\ UNCHANGED <<vars, cursor, batch, newest>>

PollerStep(p) == \/ Poll(p) \/ PollNothing(p) \/ Emit(p) \/ GiveUp(p)
                 \/ Save(p) \/ StopPolling(p)

(* The process went down; the process starts.                              *)
PollersDown == /\ lpc' = [p \in Pollers |-> "off"]
               /\ batch' = [p \in Pollers |-> {}]
               /\ newest' = [p \in Pollers |-> NoID]
               /\ UNCHANGED cursor
PollersUp == lpc' = [p \in Pollers |-> "start"] /\ UNCHANGED <<cursor, batch, newest>>
=============================================================================
