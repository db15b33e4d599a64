----------------------------- MODULE Jetstream ------------------------------
(***************************************************************************)
(* The Bluesky listener, internal/platform/bluesky/inbound.go: it follows  *)
(* a Jetstream relay over one connection at a time and saves the cursor of *)
(* the stream every FlushInterval events and when the connection ends.     *)
(*                                                                         *)
(* The identifier of a post stands for its position in the stream.  Frames *)
(* that are not this account's new posts are skipped and are not modelled; *)
(* the wait before a reconnection is left out.                             *)
(***************************************************************************)
EXTENDS Poller

CONSTANTS
  Streams,        \* the platforms that are followed through a relay
  FlushInterval   \* cursorFlushInterval

ASSUME JetstreamAssumption ==
  Streams \subseteq Platforms \ Pollers /\ FlushInterval \in Nat \ {0}

VARIABLES
  streamCursor,   \* the store: table "cursors"; NoID is the "" of a first run
  conn,           \* "idle", "reading", "emit", "flush", "closing", "stopped", "off"
  pos,            \* the last event the relay sent on this connection
  lastCursor,     \* of tailOnce, NoID before the first event
  sinceFlush,     \* of tailOnce
  joined          \* where the live tail began; only properties read it

tailVars == <<pos, lastCursor, sinceFlush>>
streamVars == <<streamCursor, conn, tailVars, joined>>

StreamTypeOK ==
  /\ streamCursor \in [Streams -> Nat] /\ pos \in [Streams -> Nat]
  /\ conn \in [Streams -> {"idle", "reading", "emit", "flush", "closing",
                           "stopped", "off"}]
  /\ lastCursor \in [Streams -> Nat]
  /\ sinceFlush \in [Streams -> 0..FlushInterval]
  /\ joined \in [Streams -> Nat]

StreamInit ==
  /\ streamCursor = [p \in Streams |-> NoID]
  /\ conn = [p \in Streams |-> "idle"]
  /\ pos = [p \in Streams |-> 0]
  /\ lastCursor = [p \in Streams |-> NoID]
  /\ sinceFlush = [p \in Streams |-> 0]
  /\ joined = [p \in Streams |-> 0]

(* Mutated form: every connection starts with what comes next.             *)
ResumeLive(p) == {nextId[p] - 1}

(* Without a cursor the relay starts with what comes next.  With one it    *)
(* resumes after that event, or sends it once more.                        *)
Resume(p) == IF streamCursor[p] = NoID
             THEN {nextId[p] - 1}
             ELSE {streamCursor[p], streamCursor[p] - 1}

Dial(p) ==
  /\ conn[p] = "idle" /\ proc = "running"
  /\ conn' = [conn EXCEPT ![p] = "reading"]
  /\ \E at \in Resume(p) :
       /\ pos' = [pos EXCEPT ![p] = at]
       /\ joined' = IF streamCursor[p] = NoID
                    THEN [joined EXCEPT ![p] = at] ELSE joined
  /\ UNCHANGED <<vars, streamCursor, lastCursor, sinceFlush>>

Event(p, n) == {q \in posts : q.plat = p /\ q.id = n}

(* ReadMessage; a reply that is not wanted moves nothing but the stream.   *)
Read(p) ==
  /\ conn[p] = "reading"
  /\ \E post \in Event(p, pos[p] + 1) :
       conn' = [conn EXCEPT ![p] = IF Wanted(p, post) THEN "emit" ELSE @]
  /\ pos' = [pos EXCEPT ![p] = @ + 1]
  /\ UNCHANGED <<vars, streamCursor, lastCursor, sinceFlush, joined>>

EmitEvent(p) ==
  /\ conn[p] = "emit"
  /\ \E post \in Event(p, pos[p]) : Enqueue(post)
  /\ lastCursor' = [lastCursor EXCEPT ![p] = pos[p]]
  /\ sinceFlush' = [sinceFlush EXCEPT ![p] = @ + 1]
  /\ conn' = [conn EXCEPT ![p] =
       IF sinceFlush[p] + 1 >= FlushInterval THEN "flush" ELSE "reading"]
  /\ UNCHANGED <<store, world, proc, pc, local, happened, streamCursor, pos, joined>>

(* flush(lastCursor): an error is logged and the listener goes on.  saved  *)
(* is what the table holds, since nothing else writes this row.            *)
FlushCursor(p) ==
  IF lastCursor[p] \in {NoID, streamCursor[p]}
  THEN UNCHANGED <<vars, streamCursor>>
  ELSE \/ /\ streamCursor' = [streamCursor EXCEPT ![p] = lastCursor[p]]
          /\ UNCHANGED vars
       \/ ListenerTrouble("dbError") /\ UNCHANGED streamCursor

PeriodicFlush(p) ==
  /\ conn[p] = "flush" /\ FlushCursor(p)
  /\ conn' = [conn EXCEPT ![p] = "reading"]
  /\ sinceFlush' = [sinceFlush EXCEPT ![p] = 0]
  /\ UNCHANGED <<pos, lastCursor, joined>>

(* The connection breaks, or cancellation closes it or ends a wait of Emit.*)
Disconnect(p) ==
  /\ \/ conn[p] = "reading" /\ proc = "running" /\ ListenerTrouble("disconnect")
     \/ conn[p] \in {"reading", "emit"} /\ proc = "stopping" /\ UNCHANGED vars
  /\ conn' = [conn EXCEPT ![p] = "closing"]
  /\ UNCHANGED <<streamCursor, tailVars, joined>>

(* tailOnce returns: its deferred flush, and the locals are gone.          *)
CloseTail(p) ==
  /\ conn[p] = "closing" /\ FlushCursor(p)
  /\ conn' = [conn EXCEPT ![p] = "idle"]
  /\ pos' = [pos EXCEPT ![p] = 0]
  /\ lastCursor' = [lastCursor EXCEPT ![p] = NoID]
  /\ sinceFlush' = [sinceFlush EXCEPT ![p] = 0]
  /\ UNCHANGED joined

(* Run sees the cancelled context before it connects again.                *)
StopTailing(p) ==
  /\ conn[p] = "idle" /\ proc = "stopping"
  /\ conn' = [conn EXCEPT ![p] = "stopped"]
  /\ UNCHANGED <<vars, streamCursor, tailVars, joined>>

StreamStep(p) == \/ Dial(p) \/ Read(p) \/ EmitEvent(p) \/ PeriodicFlush(p)
                 \/ Disconnect(p) \/ CloseTail(p) \/ StopTailing(p)

StreamsDown == /\ conn' = [p \in Streams |-> "off"]
               /\ pos' = [p \in Streams |-> 0]
               /\ lastCursor' = [p \in Streams |-> NoID]
               /\ sinceFlush' = [p \in Streams |-> 0]
               /\ UNCHANGED <<streamCursor, joined>>
StreamsUp == /\ conn' = [p \in Streams |-> "idle"]
             /\ UNCHANGED <<streamCursor, tailVars, joined>>
=============================================================================
