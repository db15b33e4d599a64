---------------------------- MODULE EngineProofs -----------------------------
(***************************************************************************)
(* Theorems about Engine, for any platforms, routes, texts and bounds.     *)
(***************************************************************************)
EXTENDS Engine, FiniteSetTheorems, TLAPS

(* Where bridge is working on a pair.                                      *)
Working == {"claim", "parent", "attempt", "posting", "answering", "complete", "fail"}

(***************************************************************************)
(* The store.                                                              *)
(***************************************************************************)
(* The row a claim writes.                                                 *)
NewRow(q, t) == [origin |-> q.plat, originId |-> q.id, target |-> t,
                 targetId |-> NoID, status |-> StatusPending]

(* A claim that is granted empties the slot and puts one pending row there.*)
LEMMA ClaimGranted ==
  ASSUME NEW R, NEW q, NEW t, Claims(R, q, t)
  PROVE  ClaimBridge(R, q, t) = (R \ Slot(R, q, t)) \cup {NewRow(q, t)}
<1> DEFINE cleared == {r \in R : r \notin Slot(R, q, t) \/ r.status # StatusError}
<1>1. cleared = R \ Slot(R, q, t)
  BY DEF Claims, Slot
<1>2. Slot(cleared, q, t) = {}
  BY <1>1 DEF Slot
<1>3. ClaimBridge(R, q, t) = cleared \cup {NewRow(q, t)}
  BY <1>2 DEF ClaimBridge, NewRow
<1> QED BY <1>1, <1>3

(* What the three writes leave in the table has the type of its rows.      *)
LEMMA StoreTypes ==
  ASSUME NEW R \in SUBSET Row(Platforms), NEW q, q.plat \in Platforms,
         q.id \in Nat, NEW t \in Platforms, NEW id \in Nat
  PROVE  /\ Claims(R, q, t) => ClaimBridge(R, q, t) \subseteq Row(Platforms)
         /\ CompleteBridge(R, q, t, id) \subseteq Row(Platforms)
         /\ FailBridge(R, q, t) \subseteq Row(Platforms)
<1> USE DEF Row, Status, StatusPending, StatusOK, StatusError, NoID
<1>1. ASSUME Claims(R, q, t) PROVE ClaimBridge(R, q, t) \subseteq Row(Platforms)
  <2>1. NewRow(q, t) \in Row(Platforms)
    BY DEF NewRow
  <2> QED BY <1>1, <2>1, ClaimGranted
<1>2. ASSUME NEW r \in R
      PROVE  /\ [r EXCEPT !.targetId = id, !.status = StatusOK] \in Row(Platforms)
             /\ [r EXCEPT !.status = StatusError] \in Row(Platforms)
  OBVIOUS
<1>3. CompleteBridge(R, q, t, id) \subseteq Row(Platforms)
  BY <1>2 DEF CompleteBridge
<1>4. FailBridge(R, q, t) \subseteq Row(Platforms)
  BY <1>2 DEF FailBridge
<1> QED BY <1>1, <1>3, <1>4

(* TargetID returns NoID, or what a finished row of the parent's slot says.*)
LEMMA TargetIDFound ==
  ASSUME NEW R, NEW q, NEW t, NEW n \in TargetID(R, q, t)
  PROVE  \/ n = NoID
         \/ \E r \in R : /\ r.origin = q.plat /\ r.originId = q.parent
                        /\ r.target = t /\ r.status = StatusOK
                        /\ n = r.targetId
BY DEF TargetID

(* Which posts the table records as the bridge's own after each write.     *)
LEMMA RecordedAfter ==
  ASSUME NEW R \in SUBSET Row(Platforms), NEW q, NEW t, NEW id, NEW p
  PROVE  /\ Claims(R, q, t) /\ p.id # NoID
              /\ IsBridgedTarget(ClaimBridge(R, q, t), p) => IsBridgedTarget(R, p)
         /\ IsBridgedTarget(CompleteBridge(R, q, t, id), p) =>
              IsBridgedTarget(R, p) \/ (p.plat = t /\ p.id = id)
         /\ IsBridgedTarget(FailBridge(R, q, t), p) => IsBridgedTarget(R, p)
<1>1. Claims(R, q, t) /\ p.id # NoID /\ IsBridgedTarget(ClaimBridge(R, q, t), p)
        => IsBridgedTarget(R, p)
  BY ClaimGranted DEF IsBridgedTarget, NewRow
<1>2. ASSUME NEW s \in CompleteBridge(R, q, t, id)
      PROVE  \E r \in R : /\ s.target = r.target
                           /\ \/ s.targetId = r.targetId
                              \/ s.targetId = id /\ s.target = t
  BY DEF CompleteBridge, Slot, Row
<1>3. ASSUME NEW s \in FailBridge(R, q, t)
      PROVE  \E r \in R : s.target = r.target /\ s.targetId = r.targetId
  BY DEF FailBridge, Slot, Row
<1> QED BY <1>1, <1>2, <1>3 DEF IsBridgedTarget

(* Which pairs are still closed to a claim after each write.               *)
LEMMA ClosedAfter ==
  ASSUME NEW R \in SUBSET Row(Platforms), NEW q, NEW t, NEW id, NEW p, NEW u
  PROVE  /\ Claims(R, q, t) => ~Claims(ClaimBridge(R, q, t), q, t)
         /\ Claims(R, q, t) /\ ~Claims(R, p, u) => ~Claims(ClaimBridge(R, q, t), p, u)
         /\ ~Claims(R, p, u) => ~Claims(CompleteBridge(R, q, t, id), p, u)
         /\ ~Claims(R, p, u) /\ ~(p.plat = q.plat /\ p.id = q.id /\ u = t) =>
              ~Claims(FailBridge(R, q, t), p, u)
<1> USE DEF Claims, Slot
<1>1. Claims(R, q, t) => ~Claims(ClaimBridge(R, q, t), q, t)
  <2>1. /\ NewRow(q, t).status # StatusError /\ NewRow(q, t).target = t
        /\ NewRow(q, t).origin = q.plat /\ NewRow(q, t).originId = q.id
    BY DEF NewRow, StatusPending, StatusError
  <2>2. Claims(R, q, t) => NewRow(q, t) \in ClaimBridge(R, q, t)
    BY ClaimGranted
  <2> QED BY <2>1, <2>2
<1>2. Claims(R, q, t) /\ ~Claims(R, p, u) => ~Claims(ClaimBridge(R, q, t), p, u)
  BY ClaimGranted
<1>3. ASSUME NEW r \in R, r.status # StatusError
      PROVE  \E s \in CompleteBridge(R, q, t, id) :
               /\ s.origin = r.origin /\ s.originId = r.originId
               /\ s.target = r.target /\ s.status # StatusError
  <2>1. CASE r \in Slot(R, q, t)
    <3>1. [r EXCEPT !.targetId = id, !.status = StatusOK] \in CompleteBridge(R, q, t, id)
      BY <2>1 DEF CompleteBridge
    <3> QED BY <3>1 DEF Row, StatusOK, StatusError
  <2>2. CASE r \notin Slot(R, q, t)
    BY <1>3, <2>2 DEF CompleteBridge
  <2> QED BY <2>1, <2>2
<1>4. ~Claims(R, p, u) => ~Claims(CompleteBridge(R, q, t, id), p, u)
  BY <1>3
<1>5. ASSUME NEW r \in R, r \notin Slot(R, q, t)
      PROVE  r \in FailBridge(R, q, t)
  BY <1>5 DEF FailBridge
<1>6. ~Claims(R, p, u) /\ ~(p.plat = q.plat /\ p.id = q.id /\ u = t) =>
        ~Claims(FailBridge(R, q, t), p, u)
  BY <1>5
<1> QED BY <1>1, <1>2, <1>4, <1>6

(* Where the rows come from after a result is written, and what stays.     *)
LEMMA CompletedRow ==
  ASSUME NEW R \in SUBSET Row(Platforms), NEW q, NEW t, NEW id,
         NEW r \in CompleteBridge(R, q, t, id)
  PROVE  \/ r \in R /\ r \notin Slot(R, q, t)
         \/ /\ r.origin = q.plat /\ r.originId = q.id /\ r.target = t
            /\ r.targetId = id /\ r.status = StatusOK
BY DEF CompleteBridge, Row, Slot

LEMMA FailedRow ==
  ASSUME NEW R \in SUBSET Row(Platforms), NEW q, NEW t, NEW r \in FailBridge(R, q, t)
  PROVE  \/ r \in R /\ r \notin Slot(R, q, t)
         \/ /\ r.origin = q.plat /\ r.originId = q.id /\ r.target = t
            /\ r.status = StatusError /\ \E s \in Slot(R, q, t) : r.targetId = s.targetId
BY DEF FailBridge, Row, Slot

LEMMA OtherRowsStay ==
  ASSUME NEW R, NEW q, NEW t, NEW id, NEW r \in R, r \notin Slot(R, q, t)
  PROVE  r \in CompleteBridge(R, q, t, id) /\ r \in FailBridge(R, q, t)
BY DEF CompleteBridge, FailBridge

(***************************************************************************)
(* Type correctness.                                                       *)
(***************************************************************************)
USE RoutesAssumption, BoundsAssumption, TextAssumption

(* An outside event is counted.                                            *)
LEMMA HappensType ==
  ASSUME TypeOK, NEW k \in Kinds, Happens(k)
  PROVE  happened' \in [Kinds -> Nat]
BY DEF TypeOK, Happens

LEMMA StoreCallType ==
  ASSUME TypeOK, StoreWorks \/ StoreFails
  PROVE  happened' \in [Kinds -> Nat]
BY HappensType DEF TypeOK, StoreWorks, StoreFails, Kinds

(* A platform that creates a post keeps the world well typed.              *)
LEMMA NewPostType ==
  ASSUME TypeOK, NEW p \in Platforms, NEW txt \in Texts, NEW par \in Nat,
         NEW from \in Platforms, NEW fromId \in Nat,
         NewPost(p, txt, par, from, fromId)
  PROVE  posts' \subseteq Post /\ nextId' \in [Platforms -> Nat \ {0}]
BY DEF TypeOK, NewPost, Post

(* The steps that end handle, or one turn of its loop.                     *)
LEMMA DoneType ==
  ASSUME TypeOK, Done, pc \in PCs, happened' \in [Kinds -> Nat],
         rows' \subseteq Row(Platforms), UNCHANGED <<world, proc, sink>>, proc # "down"
  PROVE  TypeOK'
BY DEF TypeOK, Done, ResetLocal, world, PCs, NoID

LEMMA NextTargetType ==
  ASSUME TypeOK, NEW flag \in BOOLEAN, NextTarget(flag), pc \in Working,
         happened' \in [Kinds -> Nat], rows' \subseteq Row(Platforms),
         UNCHANGED <<world, proc, sink>>
  PROVE  TypeOK'
<1>1. /\ todo \in Seq(Platforms \ {cur.plat}) /\ todo # <<>> /\ cur \in Post
      /\ proc # "down"
  BY DEF TypeOK, Working
<1>2. Tail(todo) \in Seq(Platforms \ {cur.plat})
  BY <1>1
<1>3. CASE Tail(todo) = <<>>
  BY <1>1, <1>2, <1>3 DEF TypeOK, NextTarget, world, PCs, NoID
<1>4. CASE Tail(todo) # <<>>
  <2>1. pc' = "claim" /\ todo' = Tail(todo) /\ cur' = cur
    BY <1>4 DEF NextTarget
  <2>2. todo' # <<>> /\ todo' \in Seq(Platforms \ {cur'.plat})
    BY <1>2, <1>4, <2>1
  <2> QED BY <1>1, <2>1, <2>2 DEF TypeOK, NextTarget, world, PCs, NoID
<1> QED BY <1>3, <1>4

LEMMA GoDownType ==
  ASSUME TypeOK, GoDown, happened' \in [Kinds -> Nat]
  PROVE  TypeOK'
<1>1. sink' \in Seq(Post) /\ Len(sink') = 0 /\ 0 <= SinkBuffer
  BY DEF GoDown
<1> QED BY <1>1 DEF TypeOK, GoDown, ResetLocal, store, world, PCs, NoID

LEMMA TypeInductive == TypeOK /\ [Next]_vars => TypeOK'
<1> SUFFICES ASSUME TypeOK, [Next]_vars PROVE TypeOK'
  OBVIOUS
<1> USE DEF store, world, local, PCs, NoID
<1>1. CASE Receive
  <2>1. /\ Head(sink) \in Post /\ Tail(sink) \in Seq(Post)
        /\ Len(Tail(sink)) <= SinkBuffer
    BY <1>1 DEF Receive, TypeOK
  <2> QED BY <1>1, <2>1 DEF Receive, TypeOK
<1>2. CASE CheckOurs
  <2>1. happened' \in [Kinds -> Nat]
    BY <1>2, StoreCallType DEF CheckOurs
  <2>2. CASE Done
    BY <1>2, <2>1, <2>2, DoneType DEF CheckOurs, TypeOK
  <2>3. CASE pc' = "seen" /\ UNCHANGED local
    BY <1>2, <2>1, <2>3 DEF CheckOurs, TypeOK
  <2> QED BY <1>2, <2>2, <2>3 DEF CheckOurs
<1>3. CASE CheckSeen
  <2>1. happened' \in [Kinds -> Nat]
    BY <1>3, StoreCallType DEF CheckSeen, TypeOK
  <2>2. CASE Done
    BY <1>3, <2>1, <2>2, DoneType DEF CheckSeen, TypeOK
  <2>3. CASE Route
    <3>1. CASE Routes[cur.plat] = <<>>
      BY <1>3, <2>1, <2>3, <3>1, DoneType DEF CheckSeen, TypeOK, Route
    <3>2. CASE Routes[cur.plat] # <<>>
      <4>1. cur \in Post /\ cur.plat \in Platforms
        BY <1>3 DEF CheckSeen, TypeOK, Post
      <4>2. Routes[cur.plat] \in Seq(Platforms \ {cur.plat})
        BY <4>1
      <4> QED BY <1>3, <2>1, <2>3, <3>2, <4>1, <4>2 DEF CheckSeen, TypeOK, Route
    <3> QED BY <3>1, <3>2
  <2> QED BY <1>3, <2>2, <2>3 DEF CheckSeen
<1>4. CASE Claim
  <2>1. happened' \in [Kinds -> Nat]
    BY <1>4, StoreCallType DEF Claim
  <2>2. /\ cur \in Post /\ cur.plat \in Platforms /\ cur.id \in Nat
        /\ Target \in Platforms
    BY <1>4 DEF Claim, TypeOK, Post, Target
  <2>3. rows' \subseteq Row(Platforms)
    BY <1>4, <2>2, StoreTypes DEF Claim, TypeOK
  <2>4. CASE NextTarget(FALSE) \/ NextTarget(TRUE)
    BY <1>4, <2>1, <2>3, <2>4, NextTargetType DEF Claim, Working
  <2>5. CASE /\ pc' = IF cur.parent = NoID THEN "attempt" ELSE "parent"
             /\ attempt' = 1
             /\ UNCHANGED <<cur, todo, parent, made, bridged>>
    BY <1>4, <2>1, <2>3, <2>5 DEF Claim, TypeOK
  <2> QED BY <1>4, <2>4, <2>5 DEF Claim
<1>5. CASE ResolveParent
  <2>1. happened' \in [Kinds -> Nat]
    BY <1>5, StoreCallType DEF ResolveParent
  <2>2. parent' \in Nat
    <3>1. ASSUME parent' \in TargetID(rows, cur, Target) PROVE parent' \in Nat
      BY <3>1, TargetIDFound DEF TypeOK, Row
    <3> QED BY <1>5, <3>1 DEF ResolveParent
  <2> QED BY <1>5, <2>1, <2>2 DEF ResolveParent, TypeOK
<1>6. CASE BeginAttempt
  BY <1>6 DEF BeginAttempt, TypeOK
<1>7. CASE Create
  <2>1. /\ cur \in Post /\ cur.plat \in Platforms /\ cur.id \in Nat
        /\ cur.text \in Texts /\ Target \in Platforms /\ parent \in Nat
    BY <1>7 DEF Create, TypeOK, Post, Target
  <2>2. Fit[Target][cur.text] \in Texts
    BY <2>1
  <2>3. posts' \subseteq Post /\ nextId' \in [Platforms -> Nat \ {0}]
    BY <1>7, <2>1, <2>2, NewPostType DEF Create
  <2>4. made' \in Nat
    BY <1>7, <2>1 DEF Create, TypeOK
  <2> QED BY <1>7, <2>3, <2>4 DEF Create, TypeOK
<1>8. CASE Answer
  BY <1>8 DEF Answer, TypeOK
<1>9. CASE Refuse
  <2>1. happened' \in [Kinds -> Nat]
    BY <1>9, HappensType DEF Refuse, PostFails, TypeOK, Kinds
  <2> QED BY <1>9, <2>1 DEF Refuse, PostFails, TypeOK
<1>10. CASE LoseAnswer
  <2>1. happened' \in [Kinds -> Nat]
    BY <1>10, HappensType DEF LoseAnswer, PostFails, TypeOK, Kinds
  <2> QED BY <1>10, <2>1 DEF LoseAnswer, PostFails, TypeOK
<1>11. CASE Complete
  <2>1. happened' \in [Kinds -> Nat]
    BY <1>11, StoreCallType DEF Complete
  <2>2. /\ cur \in Post /\ cur.plat \in Platforms /\ cur.id \in Nat
        /\ Target \in Platforms /\ made \in Nat
    BY <1>11 DEF Complete, TypeOK, Post, Target
  <2>3. rows' \subseteq Row(Platforms)
    BY <1>11, <2>2, StoreTypes DEF Complete, TypeOK
  <2> QED BY <1>11, <2>1, <2>3, NextTargetType DEF Complete, Working
<1>12. CASE Fail
  <2>1. happened' \in [Kinds -> Nat]
    BY <1>12, StoreCallType DEF Fail
  <2>2. /\ cur \in Post /\ cur.plat \in Platforms /\ cur.id \in Nat
        /\ Target \in Platforms
    BY <1>12 DEF Fail, TypeOK, Post, Target
  <2>3. rows' \subseteq Row(Platforms)
    BY <1>12, <2>2, StoreTypes DEF Fail, TypeOK
  <2> QED BY <1>12, <2>1, <2>3, NextTargetType DEF Fail, Working
<1>13. CASE Mark
  <2>1. happened' \in [Kinds -> Nat]
    BY <1>13, StoreCallType DEF Mark, TypeOK
  <2> QED BY <1>13, <2>1, DoneType DEF Mark, TypeOK
<1>14. CASE Return
  BY <1>14 DEF Return, TypeOK
<1>15. ASSUME NEW p \in Platforms, NEW txt \in Texts,
              NEW par \in {NoID} \cup IdsOf(p), Publish(p, txt, par)
       PROVE  TypeOK'
  <2>1. par \in Nat
    BY <1>15 DEF IdsOf, TypeOK, Post
  <2>2. posts' \subseteq Post /\ nextId' \in [Platforms -> Nat \ {0}]
    BY <1>15, <2>1, NewPostType DEF Publish
  <2>3. happened' \in [Kinds -> Nat]
    BY <1>15, HappensType DEF Publish, Kinds
  <2> QED BY <1>15, <2>2, <2>3 DEF Publish, TypeOK
<1>16. ASSUME NEW h \in seen, Expire(h) PROVE TypeOK'
  <2>1. happened' \in [Kinds -> Nat]
    BY <1>16, HappensType DEF Expire, Kinds
  <2> QED BY <1>16, <2>1 DEF Expire, TypeOK
<1>17. CASE Cancel
  <2>1. happened' \in [Kinds -> Nat]
    BY <1>17, HappensType DEF Cancel, Kinds
  <2> QED BY <1>17, <2>1 DEF Cancel, TypeOK
<1>18. CASE Exit
  BY <1>18, GoDownType DEF Exit, TypeOK
<1>19. CASE Crash
  BY <1>19, GoDownType, HappensType DEF Crash, Kinds
<1>20. CASE Restart
  BY <1>20 DEF Restart, TypeOK
<1>21. ASSUME NEW post \in posts, Deliver(post) PROVE TypeOK'
  <2>1. sink' \in Seq(Post) /\ Len(sink') <= SinkBuffer
    BY <1>21 DEF Deliver, Enqueue, TypeOK
  <2> QED BY <1>21, <2>1 DEF Deliver, Enqueue, TypeOK
<1>22. ASSUME NEW k \in {"dbError", "disconnect"}, ListenerTrouble(k) PROVE TypeOK'
  <2>1. happened' \in [Kinds -> Nat]
    BY <1>22, HappensType DEF ListenerTrouble, Kinds
  <2> QED BY <1>22, <2>1 DEF ListenerTrouble, TypeOK
<1>23. CASE UNCHANGED vars
  BY <1>23 DEF vars, TypeOK
<1> QED
  BY <1>1, <1>2, <1>3, <1>4, <1>5, <1>6, <1>7, <1>8, <1>9, <1>10, <1>11,
     <1>12, <1>13, <1>14, <1>15, <1>16, <1>17, <1>18, <1>19, <1>20, <1>21,
     <1>22, <1>23 DEF Next, Consumer, Surroundings

LEMMA InitTypeOK == Init => TypeOK
<1> SUFFICES ASSUME Init PROVE TypeOK
  OBVIOUS
<1>1. sink \in Seq(Post) /\ Len(sink) = 0 /\ 0 <= SinkBuffer
  BY DEF Init
<1>2. happened \in [Kinds -> Nat] /\ nextId \in [Platforms -> Nat \ {0}]
  BY DEF Init
<1> QED BY <1>1, <1>2 DEF Init, TypeOK, PCs, NoID

(* The variables of Engine keep their types, the sink its capacity, and    *)
(* the consumer's locals exist exactly while it works on a post.           *)
THEOREM TypeCorrect == Spec => []TypeOK
BY InitTypeOK, TypeInductive, PTL DEF Spec
(***************************************************************************)
(* The inductive invariant.  Type correctness does not say why the safety  *)
(* properties survive a step: that depends on what the consumer knows      *)
(* about the post and the pair in its hands at each program counter.  Each *)
(* part below is one such piece of knowledge, with the property it serves. *)
(***************************************************************************)
Idle       == {"consume", "returned", "off"}
HoldsClaim == Working \ {"claim"}
HasCopy    == {"answering", "complete"}

(* Platforms number their posts upwards, and only existing posts travel.   *)
PostsExist ==
  /\ \A q \in posts : q.id # NoID /\ q.id < nextId[q.plat]
  /\ \A c \in Copies : c.fromId < nextId[c.from]
  /\ sink \in Seq(posts)
  /\ pc \notin Idle => cur \in posts

(* Guard one has been passed, and a post just made is nobody's source yet. *)
GuardPassed ==
  /\ pc \in {"seen"} \cup Working => ~IsBridgedTarget(rows, cur)
  /\ pc \in HasCopy =>
       made # NoID /\ \A c \in Copies : ~(c.from = Target /\ c.fromId = made)
  /\ OwnPostNeverCopied

(* The claim is in the table, and only a finished row has an identifier.   *)
ClaimHeld ==
  /\ pc \in HoldsClaim => /\ Slot(rows, cur, Target) # {}
                          /\ \A r \in Slot(rows, cur, Target) : r.status = StatusPending
  /\ \A r \in rows : r.status # StatusOK => r.targetId = NoID

(* What the platform answered is the copy that is about to be recorded.    *)
AnswerIsCopy ==
  /\ pc \in HasCopy =>
       \E c \in posts : c.id = made /\ c.plat = Target
                         /\ c.from = cur.plat /\ c.fromId = cur.id
  /\ RecordedCopyExists

(* The parent that was resolved is the copy of the original's parent.      *)
ParentIsCopy ==
  /\ pc \in Idle \cup {"ours", "seen", "claim"} => parent = NoID
  /\ pc \in Working /\ parent # NoID =>
       \E q \in posts : q.plat = Target /\ q.id = parent
                         /\ q.from = cur.plat /\ q.fromId = cur.parent
  /\ RepliesThreadedRight

(* A pair that may be claimed, or that a claim is held for while no post   *)
(* is under way, has no copy but those whose answers were lost.            *)
PairsClosed ==
  /\ IsFiniteSet(posts)
  /\ \A c \in Copies : Claims(rows, Source(c), c.plat) =>
       Cardinality(CopiesOf(Source(c), c.plat)) <= happened["lost"]
  /\ \/ pc \in {"parent", "attempt", "posting"}
     \/ pc = "fail" /\ proc = "running"
     => Cardinality(CopiesOf(cur, Target)) <= happened["lost"]
  /\ NoSecondCopy

(* Without a fault every copy is recorded or about to be, so guard one     *)
(* stops every one of them.                                                *)
CopiesRecorded ==
  Undisturbed =>
    /\ proc = "running"
    /\ \A c \in Copies :
         \/ IsBridgedTarget(rows, c)
         \/ pc \in HasCopy /\ c.plat = Target /\ c.id = made
    /\ pc \in {"seen"} \cup Working => cur.fromId = NoID
    /\ OnlyUserPostsCopied

IInv == /\ TypeOK /\ PostsExist /\ GuardPassed /\ ClaimHeld
        /\ AnswerIsCopy /\ ParentIsCopy /\ PairsClosed /\ CopiesRecorded
        /\ PendingIsBeingWorkedOn
(***************************************************************************)
(* The steps, by what they do to the table, the copies and the consumer.   *)
(***************************************************************************)
(* The consumer goes on undisturbed, or is done with its post.             *)
Aside ==
  /\ UNCHANGED rows /\ posts \subseteq posts' /\ Copies' = Copies
  /\ \/ /\ UNCHANGED <<pc, cur, todo, parent, made>>
        /\ proc' = "running" /\ pc \notin Idle => proc = "running"
     \/ /\ pc' \in Idle
        /\ pc \in Idle \cup {"ours", "seen", "mark"} \/ proc' = "down"
        /\ parent' = NoID \/ (pc \in Idle /\ parent' = parent)
  /\ Undisturbed' /\ proc = "running" => proc' = "running"

PassesGuard ==
  /\ pc = "ours" /\ ~IsBridgedTarget(rows, cur) /\ pc' = "seen"
  /\ UNCHANGED <<rows, posts, proc, cur, todo, parent, made>>

StartsLoop == /\ pc = "seen" /\ pc' = "claim" /\ todo' = Routes[cur.plat]
              /\ UNCHANGED <<rows, posts, proc, cur, parent, made>>

MovesOn == /\ pc \in {"claim", "complete", "fail"} /\ UNCHANGED <<rows, posts, proc>>
           /\ \E b \in BOOLEAN : NextTarget(b)
           /\ pc \in {"complete", "fail"} => StoreFails

Granted == /\ pc = "claim" /\ Claims(rows, cur, Target)
           /\ rows' = ClaimBridge(rows, cur, Target)
           /\ pc' = IF cur.parent = NoID THEN "attempt" ELSE "parent"
           /\ UNCHANGED <<posts, proc, cur, todo, parent, made>>

Records == /\ pc = "complete" /\ NextTarget(TRUE)
           /\ rows' = CompleteBridge(rows, cur, Target, made)
           /\ UNCHANGED <<posts, proc>>

Reports == /\ pc = "fail" /\ NextTarget(FALSE) /\ proc = "running"
           /\ rows' = FailBridge(rows, cur, Target)
           /\ UNCHANGED <<posts, proc>>

(* Outside events are only ever added to.                                  *)
LEMMA Counted ==
  ASSUME TypeOK, [Next]_vars
  PROVE  \A k \in Kinds : happened'[k] >= happened[k]
<1>1. ASSUME NEW j \in Kinds, Happens(j)
      PROVE  \A k \in Kinds : happened'[k] >= happened[k]
  BY <1>1 DEF Happens, TypeOK
<1>2. happened' = happened \/ \E j \in Kinds : Happens(j)
  BY DEF Next, vars, Consumer, Surroundings, Receive, CheckOurs, CheckSeen, Claim,
         ResolveParent, BeginAttempt, Create, Answer, Refuse, LoseAnswer,
         PostFails, Complete, Fail, Mark, Return, Publish, Expire, Cancel,
         Exit, Crash, Restart, Deliver, ListenerTrouble, StoreWorks,
         StoreFails, Kinds
<1> QED BY <1>1, <1>2 DEF TypeOK

(* A user's post is no copy.                                               *)
LEMMA PublishedIsNoCopy ==
  ASSUME NEW p, NEW txt, NEW par, Publish(p, txt, par)
  PROVE  Copies' = Copies /\ posts \subseteq posts'
BY DEF Publish, NewPost, Copies, NoID

LEMMA Steps ==
  ASSUME TypeOK, [Next]_vars
  PROVE  \/ Aside \/ Receive \/ PassesGuard \/ StartsLoop \/ MovesOn \/ Granted
         \/ ResolveParent \/ BeginAttempt \/ Create \/ Answer \/ Refuse
         \/ LoseAnswer \/ Records \/ Reports
<1> USE DEF store, world, local, Idle
<1>1. CASE CheckOurs
  BY <1>1 DEF CheckOurs, Aside, PassesGuard, Done, ResetLocal, Copies
<1>2. CASE CheckSeen
  BY <1>2 DEF CheckSeen, Route, Aside, StartsLoop, Done, ResetLocal, Copies
<1>3. CASE Claim
  BY <1>3 DEF Claim, Granted, MovesOn
<1>4. CASE Complete
  BY <1>4 DEF Complete, Records, MovesOn
<1>5. CASE Fail
  BY <1>5 DEF Fail, Reports, MovesOn, StoreWorks
<1>6. CASE Mark
  BY <1>6 DEF Mark, Aside, Done, ResetLocal, Copies
<1>7. CASE Return
  BY <1>7 DEF Return, Aside, Copies
<1>8. ASSUME NEW p \in Platforms, NEW txt \in Texts,
             NEW par \in {NoID} \cup IdsOf(p), Publish(p, txt, par)
      PROVE  Aside
  BY <1>8, PublishedIsNoCopy DEF Publish, Aside
<1>9. ASSUME NEW h \in seen, Expire(h) PROVE Aside
  BY <1>9 DEF Expire, Aside, Copies
<1>10. CASE Cancel
  <2>1. ~Undisturbed'
    BY <1>10 DEF Cancel, Happens, Undisturbed, TypeOK, Kinds
  <2> QED BY <1>10, <2>1 DEF Cancel, Aside, Copies
<1>11. CASE Exit
  BY <1>11 DEF Exit, GoDown, ResetLocal, Aside, Copies
<1>12. CASE Crash
  <2>1. ~Undisturbed'
    BY <1>12 DEF Crash, Happens, Undisturbed, TypeOK, Kinds
  <2> QED BY <1>12, <2>1 DEF Crash, GoDown, ResetLocal, Aside, Copies
<1>13. CASE Restart
  BY <1>13 DEF Restart, Aside, Copies, TypeOK
<1>14. ASSUME NEW post \in posts, Deliver(post) PROVE Aside
  BY <1>14 DEF Deliver, Aside, Copies
<1>15. ASSUME NEW k \in {"dbError", "disconnect"}, ListenerTrouble(k) PROVE Aside
  BY <1>15 DEF ListenerTrouble, Aside, Copies
<1>16. CASE UNCHANGED vars
  BY <1>16 DEF vars, Aside, Copies
<1> QED
  BY <1>1, <1>2, <1>3, <1>4, <1>5, <1>6, <1>7, <1>8, <1>9, <1>10, <1>11, <1>12,
     <1>13, <1>14, <1>15, <1>16 DEF Next, Consumer, Surroundings
(* In bridge there is a target, on another platform than the post.         *)
LEMMA TargetIsOther ==
  ASSUME TypeOK, pc \in Working
  PROVE  /\ Target \in Platforms /\ Target # cur.plat
         /\ cur \in Post /\ cur.plat \in Platforms /\ cur.id \in Nat
BY DEF TypeOK, Working, Target, Post

(***************************************************************************)
(* Each part of the invariant, after any step.                             *)
(***************************************************************************)
LEMMA PostsExistKept ==
  ASSUME TypeOK, PostsExist, [Next]_vars
  PROVE  PostsExist'
<1> USE DEF store, world, local, NoID, Idle
<1>1. UNCHANGED world => posts' = posts /\ nextId' = nextId
  OBVIOUS
<1>2. ASSUME NEW p \in Platforms, NEW txt, NEW par, NEW from \in Platforms,
             NEW fromId \in Nat, NewPost(p, txt, par, from, fromId),
             fromId # NoID => fromId < nextId[from]
      PROVE  /\ \A q \in posts' : q.id # NoID /\ q.id < nextId'[q.plat]
             /\ \A c \in Copies' : c.fromId < nextId'[c.from]
             /\ posts \subseteq posts'
  <2>1. \A q \in posts : q.plat \in Platforms /\ q.from \in Platforms
                          /\ q.id \in Nat /\ q.fromId \in Nat
    BY DEF TypeOK, Post
  <2>2. \A f \in Platforms : nextId[f] \in Nat \ {0} /\ nextId'[f] \in Nat
                              /\ nextId[f] <= nextId'[f]
    BY <1>2 DEF NewPost, TypeOK
  <2>3. nextId'[p] = nextId[p] + 1
    BY <1>2 DEF NewPost, TypeOK
  <2> DEFINE new == [plat |-> p, id |-> nextId[p], text |-> txt, parent |-> par,
                     from |-> from, fromId |-> fromId]
  <2>4. posts' = posts \cup {new}
    BY <1>2 DEF NewPost
  <2>5. ASSUME NEW q \in posts
        PROVE  /\ q.id # NoID /\ q.id < nextId'[q.plat]
               /\ q.fromId # NoID => q.fromId < nextId'[q.from]
    <3>1. q.id # NoID /\ q.id < nextId[q.plat]
      BY DEF PostsExist
    <3>2. q.fromId # NoID => q.fromId < nextId[q.from]
      BY DEF PostsExist, Copies
    <3>3. nextId[q.plat] <= nextId'[q.plat] /\ nextId[q.from] <= nextId'[q.from]
      BY <2>1, <2>2
    <3> QED BY <2>1, <2>2, <3>1, <3>2, <3>3
  <2>6. /\ new.id # NoID /\ new.id < nextId'[new.plat]
        /\ new.fromId # NoID => new.fromId < nextId'[new.from]
    <3>1. nextId[p] \in Nat \ {0} /\ nextId[p] < nextId'[p]
      BY <2>2, <2>3
    <3>2. nextId[from] \in Nat /\ nextId'[from] \in Nat /\ nextId[from] <= nextId'[from]
      BY <2>2
    <3> QED BY <1>2, <3>1, <3>2
  <2> QED BY <2>4, <2>5, <2>6 DEF Copies
<1>3. CASE Create
  <2>1. /\ cur \in Post /\ cur \in posts /\ Target \in Platforms
        /\ cur.plat \in Platforms /\ cur.id \in Nat
    BY <1>3, TargetIsOther DEF Create, Working, PostsExist
  <2>2. /\ \A q \in posts' : q.id # NoID /\ q.id < nextId'[q.plat]
        /\ \A c \in Copies' : c.fromId < nextId'[c.from]
        /\ posts \subseteq posts'
    BY <1>2, <1>3, <2>1 DEF Create, PostsExist
  <2>3. sink' \in Seq(posts')
    BY <1>3, <2>2 DEF Create, PostsExist
  <2> QED BY <1>3, <2>1, <2>2, <2>3 DEF Create, PostsExist
<1>4. ASSUME NEW p \in Platforms, NEW txt \in Texts,
             NEW par \in {NoID} \cup IdsOf(p), Publish(p, txt, par)
      PROVE  PostsExist'
  <2>1. /\ \A q \in posts' : q.id # NoID /\ q.id < nextId'[q.plat]
        /\ \A c \in Copies' : c.fromId < nextId'[c.from]
        /\ posts \subseteq posts'
    BY <1>2, <1>4 DEF Publish
  <2>2. sink' \in Seq(posts')
    BY <1>4, <2>1 DEF Publish, PostsExist
  <2> QED BY <1>4, <2>1, <2>2 DEF Publish, PostsExist
<1>5. CASE Receive
  BY <1>5 DEF Receive, PostsExist, Copies
<1>6. ASSUME NEW post \in posts, Deliver(post) PROVE PostsExist'
  BY <1>6 DEF Deliver, Enqueue, PostsExist, Copies
<1>7. CASE GoDown
  BY <1>7 DEF GoDown, PostsExist, Copies
<1>8. ASSUME UNCHANGED <<world, sink>>,
             pc' \notin Idle => cur' = cur /\ pc \notin Idle
      PROVE  PostsExist'
  BY <1>8 DEF PostsExist, Copies
<1>9. CASE CheckOurs \/ CheckSeen \/ Claim \/ ResolveParent \/ BeginAttempt
           \/ Answer \/ Refuse \/ LoseAnswer \/ Complete \/ Fail \/ Mark \/ Return
  BY <1>8, <1>9 DEF CheckOurs, CheckSeen, Route, Claim, ResolveParent, BeginAttempt,
       Answer, Refuse, LoseAnswer, PostFails, Complete, Fail, Mark, Return,
       Done, ResetLocal, NextTarget
<1>10. CASE Cancel \/ Restart \/ UNCHANGED vars
  BY <1>8, <1>10 DEF Cancel, Restart, vars
<1>11. ASSUME NEW h, Expire(h) PROVE PostsExist'
  BY <1>8, <1>11 DEF Expire
<1>12. ASSUME NEW k, ListenerTrouble(k) PROVE PostsExist'
  BY <1>8, <1>12 DEF ListenerTrouble
<1> QED
  BY <1>3, <1>4, <1>5, <1>6, <1>7, <1>9, <1>10, <1>11, <1>12
     DEF Next, Consumer, Surroundings, Exit, Crash
LEMMA GuardPassedKept ==
  ASSUME TypeOK, PostsExist, ClaimHeld, GuardPassed, [Next]_vars
  PROVE  GuardPassed'
<1> USE DEF Working, HasCopy, Idle
<1>1. \A c \in Copies : Source(c).plat = c.from /\ Source(c).id = c.fromId
                        /\ Source(c).id # NoID
  BY DEF Source, Copies
<1>2. CASE Aside
  BY <1>2 DEF Aside, GuardPassed, OwnPostNeverCopied, Source, IsBridgedTarget, Target
<1>3. CASE Receive \/ PassesGuard \/ StartsLoop \/ MovesOn \/ ResolveParent
           \/ BeginAttempt \/ Answer \/ Refuse \/ LoseAnswer
  <2>1. rows' = rows /\ posts' = posts
    BY <1>3 DEF Receive, PassesGuard, StartsLoop, MovesOn, ResolveParent,
         BeginAttempt, Answer, Refuse, LoseAnswer, PostFails, store, world
  <2>2. OwnPostNeverCopied'
    BY <2>1 DEF GuardPassed, OwnPostNeverCopied, Source, Copies, IsBridgedTarget
  <2>3. pc' \in {"seen"} \cup Working => ~IsBridgedTarget(rows, cur) /\ cur' = cur
    BY <1>3 DEF Receive, PassesGuard, StartsLoop, MovesOn, ResolveParent, NextTarget,
         BeginAttempt, Answer, Refuse, LoseAnswer, PostFails, GuardPassed, local
  <2>4. pc' \in HasCopy => pc \in HasCopy /\ made' = made /\ todo' = todo
    BY <1>3 DEF Receive, PassesGuard, StartsLoop, MovesOn, ResolveParent, NextTarget,
         BeginAttempt, Answer, Refuse, LoseAnswer, PostFails, local
  <2> QED BY <2>1, <2>2, <2>3, <2>4 DEF GuardPassed, Copies, Target, IsBridgedTarget
<1>4. CASE Granted
  <2>1. cur.id # NoID
    BY <1>4 DEF Granted, PostsExist
  <2>2. ~IsBridgedTarget(rows', cur)
    BY <1>4, <2>1, RecordedAfter DEF Granted, GuardPassed, TypeOK
  <2>3. OwnPostNeverCopied'
    BY <1>1, <1>4, RecordedAfter
       DEF Granted, GuardPassed, OwnPostNeverCopied, TypeOK, Copies, Source
  <2> QED BY <1>4, <2>2, <2>3 DEF Granted, GuardPassed, IsBridgedTarget
<1>5. CASE Create
  <2> DEFINE new == [plat |-> Target, id |-> nextId[Target],
                     text |-> Fit[Target][cur.text], parent |-> parent,
                     from |-> cur.plat, fromId |-> cur.id]
  <2>1. posts' = posts \cup {new} /\ Copies' \subseteq Copies \cup {new}
    BY <1>5 DEF Create, NewPost, Copies
  <2>2. Target # cur.plat /\ ~IsBridgedTarget(rows, cur)
    BY <1>5, TargetIsOther DEF Create, GuardPassed
  <2>3. OwnPostNeverCopied'
    BY <1>5, <2>1, <2>2
       DEF Create, GuardPassed, OwnPostNeverCopied, Source, IsBridgedTarget, store
  <2>4. \A c \in Copies' : ~(c.from = Target /\ c.fromId = nextId[Target])
    <3>1. \A c \in Copies : c.from = Target => c.fromId < nextId[Target]
      BY DEF PostsExist
    <3>2. nextId[Target] \in Nat \ {0} /\ \A c \in Copies : c.fromId \in Nat
      BY <1>5, TargetIsOther DEF Create, TypeOK, Copies, Post
    <3> QED BY <2>1, <2>2, <3>1, <3>2
  <2>5. nextId[Target] # NoID
    BY <1>5, TargetIsOther DEF Create, TypeOK, NoID
  <2> QED BY <1>5, <2>2, <2>3, <2>4, <2>5 DEF Create, GuardPassed, IsBridgedTarget, Target, store
<1>6. CASE Records
  <2>1. Target # cur.plat /\ cur' = cur /\ pc' \in {"claim", "mark"}
    BY <1>6, TargetIsOther DEF Records, NextTarget
  <2>2. rows \subseteq Row(Platforms)
    BY DEF TypeOK
  <2>3. \A p : IsBridgedTarget(rows', p) =>
               IsBridgedTarget(rows, p) \/ (p.plat = Target /\ p.id = made)
    BY <1>6, <2>2, RecordedAfter DEF Records
  <2>4. ~IsBridgedTarget(rows', cur)
    BY <1>6, <2>1, <2>3 DEF Records, GuardPassed
  <2>5. ASSUME NEW c \in Copies PROVE ~IsBridgedTarget(rows', Source(c))
    <3>1. ~IsBridgedTarget(rows, Source(c)) /\ ~(c.from = Target /\ c.fromId = made)
      BY <1>6 DEF Records, GuardPassed, OwnPostNeverCopied
    <3> QED BY <1>1, <2>3, <3>1
  <2>6. Copies' = Copies
    BY <1>6 DEF Records, Copies
  <2>7. OwnPostNeverCopied'
    BY <2>5, <2>6 DEF OwnPostNeverCopied, Source, IsBridgedTarget
  <2> QED BY <2>1, <2>4, <2>7 DEF GuardPassed, IsBridgedTarget
<1>7. CASE Reports
  <2>1. cur' = cur /\ pc' \in {"claim", "mark"}
    BY <1>7 DEF Reports, NextTarget
  <2>2. ~IsBridgedTarget(rows', cur)
    BY <1>7, RecordedAfter DEF Reports, GuardPassed, TypeOK
  <2>3. OwnPostNeverCopied'
    <3>1. rows \subseteq Row(Platforms) /\ Copies' = Copies
      BY <1>7 DEF TypeOK, Reports, Copies
    <3>2. \A p : IsBridgedTarget(rows', p) => IsBridgedTarget(rows, p)
      BY <1>7, <3>1, RecordedAfter DEF Reports
    <3> QED BY <3>1, <3>2 DEF GuardPassed, OwnPostNeverCopied, Source, IsBridgedTarget
  <2> QED BY <2>1, <2>2, <2>3 DEF GuardPassed, IsBridgedTarget
<1> QED BY Steps, <1>2, <1>3, <1>4, <1>5, <1>6, <1>7

LEMMA ClaimHeldKept ==
  ASSUME TypeOK, ClaimHeld, [Next]_vars
  PROVE  ClaimHeld'
<1> USE DEF Working, HoldsClaim, Idle
<1>1. CASE Aside
  BY <1>1 DEF Aside, ClaimHeld, Slot, Target
<1>2. CASE \/ Receive \/ PassesGuard \/ StartsLoop \/ MovesOn \/ ResolveParent
           \/ BeginAttempt \/ Create \/ Answer \/ Refuse \/ LoseAnswer
  <2>1. rows' = rows
    BY <1>2 DEF Receive, PassesGuard, StartsLoop, MovesOn, ResolveParent,
         BeginAttempt, Create, Answer, Refuse, LoseAnswer, PostFails, store
  <2>2. pc' \in HoldsClaim => pc \in HoldsClaim /\ cur' = cur /\ todo' = todo
    BY <1>2 DEF Receive, PassesGuard, StartsLoop, MovesOn, ResolveParent, NextTarget,
         BeginAttempt, Create, Answer, Refuse, LoseAnswer, PostFails, local
  <2> QED BY <2>1, <2>2 DEF ClaimHeld, Slot, Target
<1>3. CASE Granted
  <2>1. rows' = (rows \ Slot(rows, cur, Target)) \cup {NewRow(cur, Target)}
    BY <1>3, ClaimGranted DEF Granted
  <2>2. NewRow(cur, Target) \in Slot(rows', cur, Target)
    BY <2>1 DEF Slot, NewRow
  <2>3. /\ \A r \in Slot(rows', cur, Target) : r.status = StatusPending
        /\ \A r \in rows' : r.status # StatusOK => r.targetId = NoID
    BY <2>1 DEF ClaimHeld, Slot, NewRow
  <2>4. cur' = cur /\ Target' = Target
    BY <1>3 DEF Granted, Target
  <2> QED BY <2>2, <2>3, <2>4 DEF ClaimHeld, Slot
<1>4. CASE Records
  <2>1. pc' \in {"claim", "mark"} /\ rows \subseteq Row(Platforms)
    BY <1>4 DEF Records, NextTarget, TypeOK
  <2>2. \A r \in CompleteBridge(rows, cur, Target, made) :
            r \in rows \/ r.status = StatusOK
    BY <2>1, CompletedRow
  <2>3. \A r \in rows' : r \in rows \/ r.status = StatusOK
    BY <1>4, <2>2 DEF Records
  <2> QED BY <2>1, <2>3 DEF ClaimHeld
<1>5. CASE Reports
  <2>1. pc' \in {"claim", "mark"} /\ rows \subseteq Row(Platforms)
    BY <1>5 DEF Reports, NextTarget, TypeOK
  <2>2. \A r \in rows' : r.status # StatusOK => r.targetId = NoID
    <3>1. \A r \in FailBridge(rows, cur, Target) :
            r \in rows \/ \E s \in Slot(rows, cur, Target) : r.targetId = s.targetId
      BY <2>1, FailedRow
    <3>2. \A s \in Slot(rows, cur, Target) : s \in rows /\ s.status = StatusPending
      BY <1>5 DEF Reports, ClaimHeld, Slot
    <3> QED BY <1>5, <3>1, <3>2 DEF Reports, ClaimHeld, StatusPending, StatusOK
  <2> QED BY <2>1, <2>2 DEF ClaimHeld
<1> QED BY Steps, <1>1, <1>2, <1>3, <1>4, <1>5
(* Other than in Create, no step makes a copy; in all, posts only grow.    *)
LEMMA PostsGrow ==
  ASSUME TypeOK, [Next]_vars
  PROVE  posts \subseteq posts' /\ (Copies' = Copies \/ Create)
<1>1. CASE Aside
  BY <1>1 DEF Aside
<1>2. CASE Create
  BY <1>2 DEF Create, NewPost
<1>3. CASE \/ Receive \/ PassesGuard \/ StartsLoop \/ MovesOn \/ Granted \/ ResolveParent
           \/ BeginAttempt \/ Answer \/ Refuse \/ LoseAnswer \/ Records \/ Reports
  BY <1>3 DEF Receive, PassesGuard, StartsLoop, MovesOn, Granted, ResolveParent, Copies,
       BeginAttempt, Answer, Refuse, LoseAnswer, PostFails, Records, Reports, world
<1> QED BY Steps, <1>1, <1>2, <1>3

LEMMA AnswerIsCopyKept ==
  ASSUME TypeOK, AnswerIsCopy, [Next]_vars
  PROVE  AnswerIsCopy'
<1> USE DEF Working, HasCopy, Idle
<1>1. posts \subseteq posts'
  BY PostsGrow
<1>2. rows' = rows => RecordedCopyExists'
  BY <1>1 DEF AnswerIsCopy, RecordedCopyExists
<1>3. CASE Aside
  BY <1>1, <1>2, <1>3 DEF Aside, AnswerIsCopy, Target
<1>4. CASE \/ Receive \/ PassesGuard \/ StartsLoop \/ MovesOn \/ ResolveParent
           \/ BeginAttempt \/ Refuse \/ LoseAnswer
  <2>1. rows' = rows /\ pc' \notin HasCopy
    BY <1>4 DEF Receive, PassesGuard, StartsLoop, MovesOn, ResolveParent, NextTarget,
         BeginAttempt, Refuse, LoseAnswer, PostFails, store
  <2> QED BY <1>2, <2>1 DEF AnswerIsCopy
<1>5. CASE Answer
  BY <1>1, <1>2, <1>5 DEF Answer, AnswerIsCopy, Target, store, local
<1>6. CASE Create
  <2>1. /\ rows' = rows /\ cur' = cur /\ todo' = todo /\ made' = nextId[Target]
        /\ [plat |-> Target, id |-> nextId[Target], text |-> Fit[Target][cur.text],
            parent |-> parent, from |-> cur.plat, fromId |-> cur.id] \in posts'
    BY <1>6 DEF Create, NewPost, store
  <2> QED BY <1>2, <2>1 DEF AnswerIsCopy, Target
<1>7. CASE Granted
  <2>1. rows' \subseteq rows \cup {NewRow(cur, Target)} /\ pc' \notin HasCopy
    BY <1>7, ClaimGranted DEF Granted
  <2>2. NewRow(cur, Target).status # StatusOK
    BY DEF NewRow, StatusPending, StatusOK
  <2> QED BY <1>1, <2>1, <2>2 DEF AnswerIsCopy, RecordedCopyExists
<1>8. CASE Records
  <2>1. \A r \in CompleteBridge(rows, cur, Target, made) :
          \/ r \in rows
          \/ /\ r.origin = cur.plat /\ r.originId = cur.id /\ r.target = Target
             /\ r.targetId = made
    BY CompletedRow DEF TypeOK
  <2>2. \E c \in posts : c.id = made /\ c.plat = Target
                         /\ c.from = cur.plat /\ c.fromId = cur.id
    BY <1>8 DEF Records, AnswerIsCopy
  <2>3. pc' \notin HasCopy
    BY <1>8 DEF Records, NextTarget
  <2> QED BY <1>1, <1>8, <2>1, <2>2, <2>3 DEF Records, AnswerIsCopy, RecordedCopyExists
<1>9. CASE Reports
  <2>1. \A r \in FailBridge(rows, cur, Target) : r \in rows \/ r.status = StatusError
    BY FailedRow DEF TypeOK
  <2>2. pc' \notin HasCopy
    BY <1>9 DEF Reports, NextTarget
  <2> QED BY <1>1, <1>9, <2>1, <2>2
          DEF Reports, AnswerIsCopy, RecordedCopyExists, StatusError, StatusOK
<1> QED BY Steps, <1>3, <1>4, <1>5, <1>6, <1>7, <1>8, <1>9

LEMMA ParentIsCopyKept ==
  ASSUME TypeOK, PostsExist, AnswerIsCopy, ParentIsCopy, [Next]_vars
  PROVE  ParentIsCopy'
<1> USE DEF Working, Idle
<1>1. posts \subseteq posts'
  BY PostsGrow
<1>2. Copies' = Copies => RepliesThreadedRight'
  BY <1>1 DEF ParentIsCopy, RepliesThreadedRight
<1>3. CASE Aside
  BY <1>1, <1>2, <1>3 DEF Aside, ParentIsCopy, Target
<1>4. CASE Receive \/ PassesGuard \/ StartsLoop
  BY <1>4, <1>2 DEF Receive, PassesGuard, StartsLoop, ParentIsCopy, Copies, world
<1>5. CASE MovesOn \/ Records \/ Reports
  BY <1>5, <1>2 DEF MovesOn, Records, Reports, NextTarget, ParentIsCopy, Copies, NoID
<1>6. CASE Granted \/ BeginAttempt \/ Answer \/ Refuse \/ LoseAnswer
  <2>1. /\ posts' = posts /\ Copies' = Copies /\ pc \in Working /\ pc' \in Working \ {"claim"}
        /\ cur' = cur /\ parent' = parent /\ todo' = todo
    BY <1>6 DEF Granted, BeginAttempt, Answer, Refuse, LoseAnswer, PostFails, Copies,
         world, local
  <2> QED BY <1>2, <2>1 DEF ParentIsCopy, Target
<1>7. CASE ResolveParent
  <2>1. /\ posts' = posts /\ Copies' = Copies /\ pc' = "attempt" /\ cur' = cur /\ todo' = todo
    BY <1>7 DEF ResolveParent, Copies, world
  <2>2. ASSUME parent' # NoID
        PROVE  \E q \in posts : q.plat = Target /\ q.id = parent'
                                /\ q.from = cur.plat /\ q.fromId = cur.parent
    <3>1. parent' \in TargetID(rows, cur, Target)
      BY <1>7, <2>2 DEF ResolveParent
    <3>2. PICK r \in rows : /\ r.origin = cur.plat /\ r.originId = cur.parent
                            /\ r.target = Target /\ r.status = StatusOK
                            /\ parent' = r.targetId
      BY <2>2, <3>1, TargetIDFound
    <3> QED BY <3>2 DEF AnswerIsCopy, RecordedCopyExists
  <2> QED BY <1>2, <2>1, <2>2 DEF ParentIsCopy, Target
<1>8. CASE Create
  <2> DEFINE new == [plat |-> Target, id |-> nextId[Target],
                     text |-> Fit[Target][cur.text], parent |-> parent,
                     from |-> cur.plat, fromId |-> cur.id]
  <2>1. /\ Copies' \subseteq Copies \cup {new} /\ cur \in posts
        /\ cur' = cur /\ parent' = parent /\ todo' = todo
    BY <1>8 DEF Create, NewPost, Copies, PostsExist
  <2>2. parent # NoID => \E q \in posts : q.plat = Target /\ q.id = parent
                           /\ q.from = cur.plat /\ q.fromId = cur.parent
    BY <1>8 DEF Create, ParentIsCopy
  <2>3. RepliesThreadedRight'
    <3> SUFFICES ASSUME NEW c \in Copies', c.parent # NoID
                 PROVE  \E o, q \in posts :
                          /\ o.plat = c.from /\ o.id = c.fromId
                          /\ q.plat = c.plat /\ q.id = c.parent
                          /\ q.from = o.plat /\ q.fromId = o.parent
      BY <1>1 DEF RepliesThreadedRight
    <3>1. CASE c \in Copies
      BY <3>1 DEF ParentIsCopy, RepliesThreadedRight
    <3>2. CASE c = new
      BY <2>1, <2>2, <3>2
    <3> QED BY <2>1, <3>1, <3>2
  <2>4. pc' = "answering"
    BY <1>8 DEF Create
  <2> QED BY <1>1, <2>1, <2>2, <2>3, <2>4 DEF ParentIsCopy, Target
<1> QED BY Steps, <1>3, <1>4, <1>5, <1>6, <1>7, <1>8
(* The copies of a pair are finitely many, and a set without any is empty. *)
LEMMA CopiesCounted ==
  ASSUME IsFiniteSet(posts), NEW o, NEW t
  PROVE  /\ IsFiniteSet(CopiesOf(o, t)) /\ Cardinality(CopiesOf(o, t)) \in Nat
         /\ Cardinality(CopiesOf(o, t)) <= 0 => CopiesOf(o, t) = {}
<1>1. CopiesOf(o, t) \in SUBSET posts
  BY DEF CopiesOf, Copies
<1>2. IsFiniteSet(CopiesOf(o, t))
  BY <1>1, FS_Subset
<1>3. Cardinality(CopiesOf(o, t)) \in Nat
  BY <1>2, FS_CardinalityType
<1> QED BY <1>2, <1>3, FS_EmptySet

LEMMA OneElement ==
  ASSUME NEW S, IsFiniteSet(S), Cardinality(S) <= 1, NEW x \in S, NEW y \in S
  PROVE  x = y
<1>1. Cardinality(S) \in Nat /\ Cardinality(S) # 0
  BY FS_CardinalityType, FS_EmptySet
<1>2. Cardinality(S) = 1
  BY <1>1
<1> QED BY <1>2, FS_Singleton

LEMMA PostsStayFinite ==
  ASSUME IsFiniteSet(posts), [Next]_vars
  PROVE  IsFiniteSet(posts')
<1>1. posts' = posts \/ \E q : posts' = posts \cup {q}
  BY DEF Next, Consumer, Surroundings, Create, Publish, NewPost, Receive, CheckOurs, CheckSeen,
     Claim, ResolveParent, BeginAttempt, Answer, Refuse, LoseAnswer, PostFails, Complete,
     Fail, Mark, Return, Expire, Cancel, Exit, Crash, GoDown, Restart, Deliver,
     ListenerTrouble, world, vars
<1> QED BY <1>1, FS_AddElement

LEMMA PairsClosedKept ==
  ASSUME TypeOK, ClaimHeld, PairsClosed, [Next]_vars
  PROVE  PairsClosed'
<1> USE DEF Working, Idle
<1> DEFINE N(o, t) == Cardinality(CopiesOf(o, t))
           InHand == \/ pc \in {"parent", "attempt", "posting"}
                     \/ pc = "fail" /\ proc = "running"
<1>1. /\ happened["lost"] \in Nat /\ happened'["lost"] \in Nat
      /\ happened["lost"] <= happened'["lost"]
  BY Counted, TypeInductive DEF TypeOK, Kinds
<1>2. IsFiniteSet(posts')
  BY PostsStayFinite DEF PairsClosed
<1>3. \A o, t : N(o, t) \in Nat
  BY CopiesCounted DEF PairsClosed
<1>4. ASSUME NEW c \in Copies
      PROVE  /\ N(Source(c), c.plat) <= 1 + happened["lost"]
             /\ Claims(rows, Source(c), c.plat) => N(Source(c), c.plat) <= happened["lost"]
  BY DEF PairsClosed, NoSecondCopy
<1>5. InHand => N(cur, Target) <= happened["lost"]
  BY DEF PairsClosed
(* A step that makes no copy and opens no pair that has one.               *)
<1>6. ASSUME Copies' = Copies,
             \A c \in Copies : Claims(rows', Source(c), c.plat) =>
                \/ Claims(rows, Source(c), c.plat)
                \/ N(Source(c), c.plat) <= happened["lost"],
             InHand' => N(cur', Target') <= happened'["lost"]
      PROVE  PairsClosed'
  <2>1. \A o, t : CopiesOf(o, t)' = CopiesOf(o, t)
    BY <1>6 DEF CopiesOf
  <2>2. \A c \in Copies : N(Source(c), c.plat) <= 1 + happened'["lost"]
    BY <1>1, <1>3, <1>4
  <2>3. \A c \in Copies : Claims(rows', Source(c), c.plat) =>
                               N(Source(c), c.plat) <= happened'["lost"]
    BY <1>1, <1>3, <1>4, <1>6
  <2>4. CopiesOf(cur, Target)' = CopiesOf(cur', Target')
    BY <1>6 DEF CopiesOf
  <2> QED BY <1>2, <1>6, <2>1, <2>2, <2>3, <2>4 DEF PairsClosed, NoSecondCopy
<1>7. CASE Aside
  <2>1. Copies' = Copies /\ rows' = rows
    BY <1>7 DEF Aside
  <2>2. InHand' => InHand /\ cur' = cur /\ Target' = Target
    BY <1>7 DEF Aside, Target
  <2> QED BY <1>1, <1>3, <1>5, <1>6, <2>1, <2>2
<1>8. CASE Receive \/ PassesGuard \/ StartsLoop \/ MovesOn \/ Answer
  <2>1. /\ rows' = rows /\ Copies' = Copies
        /\ pc' \notin {"parent", "attempt", "posting", "fail"}
    BY <1>8 DEF Receive, PassesGuard, StartsLoop, MovesOn, Answer, NextTarget, Copies,
         store, world
  <2> QED BY <1>6, <2>1
<1>9. CASE Granted
  <2>1. Copies' = Copies /\ cur' = cur /\ Target' = Target
    BY <1>9 DEF Granted, Copies, Target
  <2>2. \A c \in Copies : Claims(rows', Source(c), c.plat) => Claims(rows, Source(c), c.plat)
    BY <1>9, ClosedAfter DEF Granted, TypeOK
  <2>3. N(cur, Target) <= happened["lost"]
    <3>1. CASE CopiesOf(cur, Target) = {}
      BY <1>1, <3>1, FS_EmptySet
    <3>2. CASE CopiesOf(cur, Target) # {}
      <4>1. PICK c \in Copies : /\ c.plat = Target /\ Source(c).plat = cur.plat
                                /\ Source(c).id = cur.id
        BY <3>2 DEF CopiesOf
      <4>2. CopiesOf(Source(c), c.plat) = CopiesOf(cur, Target)
        BY <4>1 DEF CopiesOf
      <4>3. Claims(rows, Source(c), c.plat)
        BY <1>9, <4>1 DEF Granted, Claims, Slot
      <4> QED BY <1>4, <4>2, <4>3
    <3> QED BY <3>1, <3>2
  <2> QED BY <1>1, <1>3, <1>6, <2>1, <2>2, <2>3
<1>10. CASE ResolveParent \/ BeginAttempt \/ Refuse
  <2>1. /\ rows' = rows /\ Copies' = Copies /\ cur' = cur /\ Target' = Target
        /\ pc \in {"parent", "attempt", "posting"}
    BY <1>10 DEF ResolveParent, BeginAttempt, Refuse, PostFails, Copies, store, world,
         local, Target
  <2> QED BY <1>1, <1>3, <1>5, <1>6, <2>1
<1>11. CASE LoseAnswer
  <2>1. /\ rows' = rows /\ Copies' = Copies /\ cur' = cur /\ Target' = Target
        /\ pc = "answering" /\ proc' = proc
    BY <1>11 DEF LoseAnswer, PostFails, Copies, store, world, Target
  <2>2. CASE proc = "stopping"
    <3>1. pc' = "fail" /\ proc' = "stopping"
      BY <1>11, <2>2 DEF LoseAnswer, PostFails
    <3> QED BY <1>6, <2>1, <3>1
  <2>3. CASE proc = "running"
    <3>1. happened'["lost"] = happened["lost"] + 1
      BY <1>11, <2>3 DEF LoseAnswer, PostFails, Happens, TypeOK, Kinds
    <3>2. N(cur, Target) <= 1 + happened["lost"]
      <4>1. CASE CopiesOf(cur, Target) = {}
        BY <1>1, <4>1, FS_EmptySet
      <4>2. CASE CopiesOf(cur, Target) # {}
        <5>1. PICK c \in Copies : /\ c.plat = Target /\ Source(c).plat = cur.plat
                                  /\ Source(c).id = cur.id
          BY <4>2 DEF CopiesOf
        <5>2. CopiesOf(Source(c), c.plat) = CopiesOf(cur, Target)
          BY <5>1 DEF CopiesOf
        <5> QED BY <1>4, <5>2
      <4> QED BY <4>1, <4>2
    <3>3. N(cur', Target') <= happened'["lost"]
      BY <1>1, <1>3, <2>1, <3>1, <3>2
    <3> QED BY <1>6, <2>1, <3>3
  <2> QED BY <1>11, <2>2, <2>3 DEF LoseAnswer, PostFails
<1>12. CASE Create
  <2> DEFINE new == [plat |-> Target, id |-> nextId[Target],
                     text |-> Fit[Target][cur.text], parent |-> parent,
                     from |-> cur.plat, fromId |-> cur.id]
  <2>1. /\ Copies \subseteq Copies' /\ Copies' \subseteq Copies \cup {new}
        /\ rows' = rows /\ pc = "posting" /\ pc' = "answering" /\ happened' = happened
    BY <1>12 DEF Create, NewPost, Copies, store
  <2>2. new.plat = Target /\ Source(new).plat = cur.plat /\ Source(new).id = cur.id
    BY DEF Source
  <2> HIDE DEF new
  <2>3. ASSUME NEW c \in Copies', ~(/\ c.plat = Target /\ Source(c).plat = cur.plat
                                    /\ Source(c).id = cur.id)
        PROVE  c \in Copies /\ CopiesOf(Source(c), c.plat)' = CopiesOf(Source(c), c.plat)
    BY <2>1, <2>2, <2>3 DEF CopiesOf
  <2>4. ASSUME NEW c \in Copies', c.plat = Target, Source(c).plat = cur.plat,
               Source(c).id = cur.id
        PROVE  /\ Cardinality(CopiesOf(Source(c), c.plat)') <= 1 + happened["lost"]
               /\ ~Claims(rows', Source(c), c.plat)
    <3> DEFINE before == CopiesOf(cur, Target)
               after == CopiesOf(Source(c), c.plat)'
    <3>1. after \subseteq before \cup {new}
      BY <2>1, <2>4 DEF CopiesOf
    <3>2. IsFiniteSet(before) /\ Cardinality(before) \in Nat
      BY CopiesCounted DEF PairsClosed
    <3>3. Cardinality(before) <= happened["lost"]
      BY <1>5, <2>1
    <3> HIDE DEF before, after
    <3>4. /\ IsFiniteSet(before \cup {new})
          /\ Cardinality(before \cup {new}) <= Cardinality(before) + 1
      <4>1. /\ IsFiniteSet(before \cup {new})
            /\ Cardinality(before \cup {new}) =
                 IF new \in before THEN Cardinality(before) ELSE Cardinality(before) + 1
        BY <3>2, FS_AddElement
      <4> QED BY <3>2, <4>1
    <3>5. /\ Cardinality(after) \in Nat /\ Cardinality(before \cup {new}) \in Nat
          /\ Cardinality(after) <= Cardinality(before \cup {new})
      BY <3>1, <3>4, FS_Subset, FS_CardinalityType
    <3>6. Cardinality(after) <= 1 + happened["lost"]
      BY <1>1, <3>2, <3>3, <3>4, <3>5
    <3>7. Slot(rows, Source(c), c.plat) = Slot(rows, cur, Target)
      BY <2>4 DEF Slot
    <3>8. \E r \in Slot(rows, cur, Target) : r.status # StatusError
      BY <2>1 DEF ClaimHeld, HoldsClaim, StatusPending, StatusError
    <3> QED BY <2>1, <3>6, <3>7, <3>8 DEF Claims, after
  <2> QED BY <1>2, <1>4, <2>1, <2>3, <2>4 DEF PairsClosed, NoSecondCopy
<1>13. CASE Records
  <2>1. Copies' = Copies /\ pc' \in {"claim", "mark"}
    BY <1>13 DEF Records, NextTarget, Copies
  <2>2. \A c \in Copies : Claims(rows', Source(c), c.plat) => Claims(rows, Source(c), c.plat)
    BY <1>13, ClosedAfter DEF Records, TypeOK
  <2> QED BY <1>6, <2>1, <2>2
<1>14. CASE Reports
  <2>1. Copies' = Copies /\ pc' \in {"claim", "mark"} /\ InHand
    BY <1>14 DEF Reports, NextTarget, Copies
  <2>2. ASSUME NEW c \in Copies, c.plat = Target, Source(c).plat = cur.plat,
               Source(c).id = cur.id
        PROVE  N(Source(c), c.plat) <= happened["lost"]
    <3>1. CopiesOf(Source(c), c.plat) = CopiesOf(cur, Target)
      BY <2>2 DEF CopiesOf
    <3> QED BY <1>5, <2>1, <3>1
  <2>3. ASSUME NEW c \in Copies, Claims(rows', Source(c), c.plat)
        PROVE  Claims(rows, Source(c), c.plat) \/ N(Source(c), c.plat) <= happened["lost"]
    BY <1>14, <2>2, <2>3, ClosedAfter DEF Reports, TypeOK
  <2> QED BY <1>6, <2>1, <2>3
<1> QED BY Steps, <1>7, <1>8, <1>9, <1>10, <1>11, <1>12, <1>13, <1>14
LEMMA CopiesRecordedKept ==
  ASSUME TypeOK, PostsExist, ClaimHeld, CopiesRecorded, [Next]_vars
  PROVE  CopiesRecorded'
<1> USE DEF Working, HasCopy, Idle
<1> SUFFICES ASSUME Undisturbed' PROVE CopiesRecorded'
  BY DEF CopiesRecorded
<1>1. Undisturbed /\ proc = "running"
  BY Counted DEF Undisturbed, CopiesRecorded, TypeOK, Kinds
<1>2. posts \subseteq posts'
  BY PostsGrow
<1>3. Copies' = Copies => OnlyUserPostsCopied'
  BY <1>1, <1>2 DEF CopiesRecorded, OnlyUserPostsCopied
<1>4. ASSUME NEW c \in Copies PROVE c \in posts /\ c.id # NoID
  BY DEF Copies, PostsExist
<1>5. \A r \in rows : r.status # StatusOK => r.targetId = NoID
  BY DEF ClaimHeld
<1>6. CASE Aside
  BY <1>1, <1>3, <1>6 DEF Aside, CopiesRecorded, IsBridgedTarget, Target
<1>7. CASE Receive \/ PassesGuard \/ StartsLoop
  <2>1. /\ rows' = rows /\ Copies' = Copies /\ proc' = proc /\ pc' \in {"ours", "seen", "claim"}
        /\ pc \notin HasCopy
    BY <1>7 DEF Receive, PassesGuard, StartsLoop, Copies, store, world
  <2>2. pc' \in {"seen"} \cup Working => cur'.fromId = NoID
    BY <1>1, <1>7 DEF Receive, PassesGuard, StartsLoop, CopiesRecorded, PostsExist, Copies
  <2> QED BY <1>1, <1>3, <2>1, <2>2 DEF CopiesRecorded, IsBridgedTarget
<1>8. CASE MovesOn
  <2>1. pc # "complete"
    BY <1>1, <1>8 DEF MovesOn, StoreFails, Happens, Undisturbed, Kinds, TypeOK
  <2> QED BY <1>1, <1>3, <1>8, <2>1
          DEF MovesOn, NextTarget, CopiesRecorded, IsBridgedTarget, Copies
<1>9. CASE Granted
  <2>1. rows' = (rows \ Slot(rows, cur, Target)) \cup {NewRow(cur, Target)}
    BY <1>9, ClaimGranted DEF Granted
  <2>2. \A r \in Slot(rows, cur, Target) : r.targetId = NoID
    BY <1>5, <1>9 DEF Granted, Claims, Slot, StatusError, StatusOK
  <2>3. \A c \in Copies : IsBridgedTarget(rows, c) => IsBridgedTarget(rows', c)
    BY <1>4, <2>1, <2>2 DEF IsBridgedTarget
  <2> QED BY <1>1, <1>3, <1>9, <2>3 DEF Granted, CopiesRecorded, IsBridgedTarget, Copies
<1>10. CASE ResolveParent \/ BeginAttempt \/ Refuse
  <2>1. /\ rows' = rows /\ Copies' = Copies /\ proc' = proc /\ cur' = cur
        /\ pc \in Working \ HasCopy
    BY <1>10 DEF ResolveParent, BeginAttempt, Refuse, PostFails, Copies, store, world, local
  <2> QED BY <1>1, <1>3, <2>1 DEF CopiesRecorded, IsBridgedTarget
<1>11. CASE LoseAnswer
  BY <1>1, <1>11 DEF LoseAnswer, PostFails, Happens, Undisturbed, Kinds, TypeOK
<1>12. CASE Answer
  BY <1>1, <1>3, <1>12
     DEF Answer, CopiesRecorded, IsBridgedTarget, Copies, Target, store, world, local
<1>13. CASE Create
  <2> DEFINE new == [plat |-> Target, id |-> nextId[Target],
                     text |-> Fit[Target][cur.text], parent |-> parent,
                     from |-> cur.plat, fromId |-> cur.id]
  <2>1. /\ Copies' \subseteq Copies \cup {new} /\ rows' = rows /\ pc' = "answering"
        /\ Target' = Target /\ made' = new.id /\ proc' = proc /\ cur' = cur
    BY <1>13 DEF Create, NewPost, Copies, store, Target
  <2>2. cur \in posts' /\ cur.fromId = NoID
    BY <1>1, <1>2, <1>13 DEF Create, CopiesRecorded, PostsExist
  <2>3. \A c \in Copies : IsBridgedTarget(rows, c)
    BY <1>1, <1>13 DEF Create, CopiesRecorded
  <2>4. OnlyUserPostsCopied'
    BY <1>1, <1>2, <2>1, <2>2 DEF CopiesRecorded, OnlyUserPostsCopied
  <2>5. \A c \in Copies' : IsBridgedTarget(rows', c) \/ (c.plat = Target' /\ c.id = made')
    BY <2>1, <2>3
  <2> QED BY <1>1, <2>1, <2>2, <2>4, <2>5 DEF CopiesRecorded, IsBridgedTarget, Target
<1>14. CASE Records \/ Reports
  <2>1. \A r \in rows \ Slot(rows, cur, Target) : r \in rows'
    <3>1. \A r \in rows \ Slot(rows, cur, Target) :
            /\ r \in CompleteBridge(rows, cur, Target, made)
            /\ r \in FailBridge(rows, cur, Target)
      BY OtherRowsStay
    <3> QED BY <1>14, <3>1 DEF Records, Reports
  <2>2. \A r \in Slot(rows, cur, Target) : r.targetId = NoID
    BY <1>5, <1>14 DEF Records, Reports, ClaimHeld, HoldsClaim, Slot, StatusPending, StatusOK
  <2>3. \A c \in Copies : IsBridgedTarget(rows, c) => IsBridgedTarget(rows', c)
    BY <1>4, <2>1, <2>2 DEF IsBridgedTarget
  <2>4. ASSUME Records, NEW c \in Copies, c.plat = Target, c.id = made
        PROVE  IsBridgedTarget(rows', c)
    <3>1. PICK r \in rows : r \in Slot(rows, cur, Target)
      BY <2>4 DEF Records, ClaimHeld, HoldsClaim, Slot
    <3>2. r.target = Target /\ r \in Row(Platforms)
      BY <3>1 DEF Slot, TypeOK
    <3>3. [r EXCEPT !.targetId = made, !.status = StatusOK] \in rows'
      BY <2>4, <3>1 DEF Records, CompleteBridge
    <3>4. /\ [r EXCEPT !.targetId = made, !.status = StatusOK].target = Target
          /\ [r EXCEPT !.targetId = made, !.status = StatusOK].targetId = made
      BY <3>2 DEF Row
    <3> QED BY <2>4, <3>3, <3>4 DEF IsBridgedTarget
  <2>5. /\ Copies' = Copies /\ proc' = proc /\ cur' = cur /\ pc' \in {"claim", "mark"}
        /\ pc \in Working
        /\ pc \in HasCopy => Records
    BY <1>14 DEF Records, Reports, NextTarget, Copies
  <2>6. \A c \in Copies : IsBridgedTarget(rows', c)
    BY <1>1, <2>3, <2>4, <2>5 DEF CopiesRecorded
  <2>7. cur.fromId = NoID
    BY <1>1, <2>5 DEF CopiesRecorded
  <2> QED BY <1>1, <1>3, <2>5, <2>6, <2>7 DEF CopiesRecorded, IsBridgedTarget
<1> QED BY Steps, <1>6, <1>7, <1>8, <1>9, <1>10, <1>11, <1>12, <1>13, <1>14
LEMMA PendingKept ==
  ASSUME TypeOK, CopiesRecorded, PendingIsBeingWorkedOn, [Next]_vars
  PROVE  PendingIsBeingWorkedOn'
<1> USE DEF Working, Idle, HoldsClaim
<1> SUFFICES ASSUME Undisturbed', NEW r \in rows', r.status = StatusPending
             PROVE  /\ pc' \in HoldsClaim /\ r.origin = cur'.plat
                    /\ r.originId = cur'.id /\ r.target = Target'
  BY DEF PendingIsBeingWorkedOn, Target
<1>1. Undisturbed /\ proc = "running"
  BY Counted DEF Undisturbed, CopiesRecorded, TypeOK, Kinds
<1>2. \A s \in rows : s.status = StatusPending =>
        pc \in HoldsClaim /\ s \in Slot(rows, cur, Target)
  BY <1>1 DEF PendingIsBeingWorkedOn, Slot
<1>3. CASE Aside
  BY <1>1, <1>2, <1>3 DEF Aside, Slot, Target
<1>4. CASE Receive \/ PassesGuard \/ StartsLoop \/ MovesOn
  <2>1. rows' = rows /\ pc \notin HoldsClaim
    BY <1>1, <1>4 DEF Receive, PassesGuard, StartsLoop, MovesOn, store, StoreFails,
         Happens, Undisturbed, Kinds, TypeOK
  <2> QED BY <1>2, <2>1
<1>5. CASE Granted
  <2>1. r \in rows \/ r = NewRow(cur, Target)
    BY <1>5, ClaimGranted DEF Granted
  <2>2. pc = "claim" /\ pc' \in HoldsClaim /\ cur' = cur /\ Target' = Target
    BY <1>5 DEF Granted, Target
  <2> QED BY <1>2, <2>1, <2>2 DEF NewRow
<1>6. CASE ResolveParent \/ BeginAttempt \/ Create \/ Answer \/ Refuse \/ LoseAnswer
  <2>1. rows' = rows /\ cur' = cur /\ Target' = Target /\ pc' \in HoldsClaim
    BY <1>6 DEF ResolveParent, BeginAttempt, Create, Answer, Refuse, LoseAnswer,
         PostFails, store, local, Target
  <2> QED BY <1>2, <2>1 DEF Slot
<1>7. CASE Records
  <2>1. r \in rows \ Slot(rows, cur, Target) \/ r.status = StatusOK
    BY <1>7, CompletedRow DEF Records, TypeOK
  <2> QED BY <1>2, <2>1 DEF StatusOK, StatusPending
<1>8. CASE Reports
  <2>1. r \in rows \ Slot(rows, cur, Target) \/ r.status = StatusError
    BY <1>8, FailedRow DEF Reports, TypeOK
  <2> QED BY <1>2, <2>1 DEF StatusError, StatusPending
<1> QED BY Steps, <1>3, <1>4, <1>5, <1>6, <1>7, <1>8

(***************************************************************************)
(* The invariant and what follows from it.                                 *)
(***************************************************************************)
LEMMA IInvInductive == IInv /\ [Next]_vars => IInv'
BY TypeInductive, PostsExistKept, GuardPassedKept, ClaimHeldKept, AnswerIsCopyKept,
   ParentIsCopyKept, PairsClosedKept, CopiesRecordedKept, PendingKept DEF IInv

THEOREM Invariance == Spec => []IInv
<1>1. Init => TypeOK
  BY InitTypeOK
<1>2. ASSUME Init
      PROVE  /\ PostsExist /\ GuardPassed /\ ClaimHeld /\ AnswerIsCopy
             /\ ParentIsCopy /\ PairsClosed /\ CopiesRecorded
             /\ PendingIsBeingWorkedOn
  <2>1. /\ rows = {} /\ posts = {} /\ Copies = {} /\ pc = "consume"
        /\ proc = "running" /\ sink = <<>> /\ parent = NoID
    BY <1>2 DEF Init, Copies
  <2>2. IsFiniteSet(posts)
    BY <2>1, FS_EmptySet
  <2> QED
    BY <2>1, <2>2 DEF PostsExist, GuardPassed, ClaimHeld, AnswerIsCopy, ParentIsCopy,
         PairsClosed, CopiesRecorded, OwnPostNeverCopied, RecordedCopyExists,
         RepliesThreadedRight, NoSecondCopy, OnlyUserPostsCopied,
         PendingIsBeingWorkedOn, Idle, Working, HoldsClaim, HasCopy
<1> QED BY <1>1, <1>2, IInvInductive, PTL DEF Spec, IInv

(* The loop guard: what the table records as the bridge's own post is      *)
(* never the source of a copy, whatever fails and whenever the process     *)
(* stops or crashes.                                                       *)
THEOREM NoEcho == Spec => []OwnPostNeverCopied
BY Invariance, PTL DEF IInv, GuardPassed

(* However often a post is detected, a platform gets one copy of it, and   *)
(* one more at most for each lost answer to a successful post.             *)
THEOREM OneCopyPerPost == Spec => []NoSecondCopy
<1>1. IInv => NoSecondCopy
  BY DEF IInv, PairsClosed
<1> QED BY <1>1, Invariance, PTL

(* What the table says was copied exists, as a copy of that post.          *)
THEOREM RecordsTrue == Spec => []RecordedCopyExists
BY Invariance, PTL DEF IInv, AnswerIsCopy

(* A copy that is a reply hangs under the copy of the original's parent.   *)
THEOREM ThreadsKept == Spec => []RepliesThreadedRight
BY Invariance, PTL DEF IInv, ParentIsCopy

(* Without a fault the guard is complete: no copy of a copy is made.       *)
THEOREM OnlyOriginals == Spec => []OnlyUserPostsCopied
<1>1. IInv => OnlyUserPostsCopied
  BY DEF IInv, CopiesRecorded, OnlyUserPostsCopied
<1> QED BY <1>1, Invariance, PTL

(* Without a fault no claim is left behind.                                *)
THEOREM ClaimsResolved == Spec => []PendingIsBeingWorkedOn
BY Invariance, PTL DEF IInv

(* A finished row outlives every step: a repeated detection, the write of  *)
(* another result, a crash or a restart.                                   *)
THEOREM FinishedRowsOutlive == Spec => FinishedRowsKept
<1> DEFINE Kept == \A r \in rows : r.status = StatusOK => r \in rows'
<1>1. ASSUME IInv, [Next]_vars PROVE Kept
  <2> USE DEF Working, HoldsClaim
  <2>1. CASE Granted
    <3>1. rows' = (rows \ Slot(rows, cur, Target)) \cup {NewRow(cur, Target)}
      BY <2>1, ClaimGranted DEF Granted
    <3> QED BY <2>1, <3>1 DEF Granted, Claims, StatusOK, StatusError
  <2>2. CASE Records \/ Reports
    <3>1. \A r \in rows : r.status = StatusOK => r \notin Slot(rows, cur, Target)
      BY <1>1, <2>2 DEF IInv, ClaimHeld, Records, Reports, StatusOK, StatusPending
    <3>2. \A r \in rows \ Slot(rows, cur, Target) :
            /\ r \in CompleteBridge(rows, cur, Target, made)
            /\ r \in FailBridge(rows, cur, Target)
      BY OtherRowsStay
    <3> QED BY <2>2, <3>1, <3>2 DEF Records, Reports
  <2>3. CASE \/ Aside \/ Receive \/ PassesGuard \/ StartsLoop \/ MovesOn \/ ResolveParent
             \/ BeginAttempt \/ Create \/ Answer \/ Refuse \/ LoseAnswer
    BY <2>3 DEF Aside, Receive, PassesGuard, StartsLoop, MovesOn, ResolveParent,
         BeginAttempt, Create, Answer, Refuse, LoseAnswer, PostFails, store
  <2> QED BY <1>1, <2>1, <2>2, <2>3, Steps DEF IInv
<1> QED BY <1>1, Invariance, PTL DEF Spec, FinishedRowsKept

(***************************************************************************)
(* Guard two.  That no text reaches a platform twice needs more than IInv: *)
(* the hash of a copied text is in the table, or will be when handle is    *)
(* done with the post in hand.                                             *)
(***************************************************************************)
UniqueIds == \A q, r \in posts : q.plat = r.plat /\ q.id = r.id => q = r

IsSource(o, c) == o.plat = c.from /\ o.id = c.fromId

TextsMarked ==
  Undisturbed /\ happened["expire"] = 0 =>
    /\ \A c \in Copies : \A o \in posts :
         IsSource(o, c) /\ Hash[o.text] # NoHash =>
           \/ Hash[o.text] \in seen
           \/ /\ cur = o /\ pc \in Working \cup {"mark"}
              /\ bridged \/ pc \in HasCopy
    /\ pc \in Working \cup {"mark"} /\ Hash[cur.text] # NoHash =>
         Hash[cur.text] \notin seen
    /\ SameTextCopiedOnce

(* A step adds at most one post, under the next identifier of its platform.*)
LEMMA PostsAdded ==
  ASSUME TypeOK, [Next]_vars
  PROVE  posts' = posts \/ \E q : posts' = posts \cup {q} /\ q.id = nextId[q.plat]
<1>1. ASSUME NEW p, NEW txt, NEW par, NEW from, NEW fromId,
             NewPost(p, txt, par, from, fromId)
      PROVE  \E q : posts' = posts \cup {q} /\ q.id = nextId[q.plat]
  <2> DEFINE new == [plat |-> p, id |-> nextId[p], text |-> txt, parent |-> par,
                     from |-> from, fromId |-> fromId]
  <2>1. posts' = posts \cup {new} /\ new.id = nextId[new.plat]
    BY <1>1 DEF NewPost
  <2> HIDE DEF new
  <2> QED BY <2>1
<1> QED
  BY <1>1 DEF Next, Consumer, Surroundings, Create, Publish, Receive, CheckOurs, CheckSeen,
     Claim, ResolveParent, BeginAttempt, Answer, Refuse, LoseAnswer, PostFails, Complete,
     Fail, Mark, Return, Expire, Cancel, Exit, Crash, GoDown, Restart, Deliver,
     ListenerTrouble, world, vars

LEMMA UniqueIdsKept ==
  ASSUME TypeOK, PostsExist, UniqueIds, [Next]_vars
  PROVE  UniqueIds'
<1>1. CASE posts' = posts
  BY <1>1 DEF UniqueIds
<1>2. ASSUME NEW q, posts' = posts \cup {q}, q.id = nextId[q.plat]
      PROVE  UniqueIds'
  <2>1. \A r \in posts : r.plat = q.plat => r.id # q.id
    BY <1>2 DEF PostsExist, TypeOK, Post
  <2> QED BY <1>2, <2>1 DEF UniqueIds
<1> QED BY <1>1, <1>2, PostsAdded

(* A new post is not the source of a copy that is there already.           *)
LEMMA SourcesAreOld ==
  ASSUME TypeOK, PostsExist, [Next]_vars, NEW c \in Copies, NEW o \in posts',
         IsSource(o, c)
  PROVE  o \in posts
<1>1. CASE posts' = posts
  BY <1>1
<1>2. ASSUME NEW q, posts' = posts \cup {q}, q.id = nextId[q.plat]
      PROVE  o \in posts
  <2>1. c.fromId < nextId[c.from] /\ c.fromId \in Nat /\ nextId[c.from] \in Nat
    BY DEF PostsExist, TypeOK, Copies, Post
  <2> QED BY <1>2, <2>1 DEF IsSource
<1> QED BY <1>1, <1>2, PostsAdded

LEMMA TextsMarkedKept ==
  ASSUME IInv, UniqueIds, TextsMarked, [Next]_vars
  PROVE  TextsMarked'
<1> USE DEF Working, HasCopy, store, world, local
<1> SUFFICES ASSUME Undisturbed', happened'["expire"] = 0
             PROVE  TextsMarked'
  BY DEF TextsMarked
<1> DEFINE InHand == Working \cup {"mark"}
           WillMark(o) == cur = o /\ pc \in InHand /\ (bridged \/ pc \in HasCopy)
           Marked == \A c \in Copies : \A o \in posts :
                       IsSource(o, c) /\ Hash[o.text] # NoHash =>
                         Hash[o.text] \in seen \/ WillMark(o)
           NotSeen == pc \in InHand /\ Hash[cur.text] # NoHash =>
                        Hash[cur.text] \notin seen
<1>1. Undisturbed /\ happened["expire"] = 0 /\ proc = "running" /\ TypeOK
  BY Counted DEF Undisturbed, CopiesRecorded, IInv, TypeOK, Kinds
<1>2. Marked /\ NotSeen /\ SameTextCopiedOnce
  BY <1>1 DEF TextsMarked
<1>3. SUFFICES Marked' /\ NotSeen' /\ SameTextCopiedOnce'
  BY DEF TextsMarked
<1>4. ~StoreFails /\ \A k \in {"lost", "cancel", "crash", "expire"} : ~Happens(k)
  BY <1>1 DEF StoreFails, Happens, Undisturbed, Kinds, TypeOK
<1>5. ASSUME Copies' = Copies PROVE SameTextCopiedOnce'
  <2>1. \A c \in Copies, o \in posts' : IsSource(o, c) => o \in posts
    BY SourcesAreOld DEF IInv
  <2> QED BY <1>1, <1>2, <1>5, <2>1 DEF SameTextCopiedOnce, IsSource
<1>6. ASSUME Copies' = Copies, seen \subseteq seen',
             \A o \in posts : WillMark(o) => Hash[o.text] \in seen' \/ WillMark(o)'
      PROVE  Marked'
  <2>1. \A c \in Copies, o \in posts' : IsSource(o, c) => o \in posts
    BY SourcesAreOld DEF IInv
  <2> QED BY <1>2, <1>6, <2>1 DEF IsSource
<1>7. CASE UNCHANGED <<pc, cur, bridged, seen>> /\ Copies' = Copies
  BY <1>2, <1>5, <1>6, <1>7
<1>8. CASE Receive \/ CheckOurs \/ Return
  <2>1. Copies' = Copies /\ seen' = seen /\ pc \notin InHand /\ pc' \notin InHand
    BY <1>8 DEF Receive, CheckOurs, Return, Done, Copies
  <2> QED BY <1>5, <1>6, <2>1
<1>9. CASE CheckSeen
  <2>1. Copies' = Copies /\ seen' = seen /\ pc = "seen"
    BY <1>9 DEF CheckSeen, Copies
  <2>2. \/ pc' = "consume"
        \/ cur' = cur /\ (Hash[cur.text] = NoHash \/ Hash[cur.text] \notin seen)
    BY <1>4, <1>9 DEF CheckSeen, Route, Done, SeenRecently
  <2> QED BY <1>5, <1>6, <2>1, <2>2
<1>10. CASE Claim \/ Complete \/ Fail \/ ResolveParent \/ BeginAttempt \/ Answer \/ Refuse
  <2>1. Copies' = Copies /\ seen' = seen /\ pc \in InHand /\ cur' = cur
    BY <1>10 DEF Claim, Complete, Fail, ResolveParent, BeginAttempt, Answer, Refuse,
       PostFails, NextTarget, Copies
  <2>2. pc' \in InHand
    BY <1>10 DEF Claim, Complete, Fail, ResolveParent, BeginAttempt, Answer, Refuse,
       PostFails, NextTarget
  <2>3. bridged => bridged'
    <3>1. ASSUME NEW b, NextTarget(b) PROVE bridged => bridged'
      BY <3>1, Zenon DEF NextTarget
    <3>2. UNCHANGED bridged \/ NextTarget(TRUE) \/ NextTarget(FALSE)
      BY <1>10 DEF Claim, Complete, Fail, ResolveParent, BeginAttempt, Answer, Refuse,
         PostFails
    <3> QED BY <3>1, <3>2
  <2>4. pc \in HasCopy => bridged' \/ pc' \in HasCopy
    <3>1. NextTarget(TRUE) => bridged'
      BY Zenon DEF NextTarget
    <3>2. pc \in HasCopy => NextTarget(TRUE) \/ pc' \in HasCopy
      BY <1>10 DEF Claim, Complete, Fail, ResolveParent, BeginAttempt, Answer, Refuse
    <3> QED BY <3>1, <3>2
  <2> QED BY <1>2, <1>5, <1>6, <2>1, <2>2, <2>3, <2>4
<1>11. CASE Mark
  <2>1. Copies' = Copies /\ pc = "mark" /\ pc' = "consume" /\ seen \subseteq seen'
    BY <1>11 DEF Mark, Done, Copies, MarkSeen
  <2>2. bridged /\ Hash[cur.text] # NoHash => Hash[cur.text] \in seen'
    BY <1>4, <1>11 DEF Mark, MarkSeen
  <2>3. \A c \in Copies : \A o \in posts :
          IsSource(o, c) /\ Hash[o.text] # NoHash => Hash[o.text] \in seen'
    BY <1>2, <2>1, <2>2
  <2>4. Marked'
    <3>1. \A c \in Copies, o \in posts' : IsSource(o, c) => o \in posts
      BY SourcesAreOld DEF IInv
    <3> QED BY <2>1, <2>3, <3>1 DEF IsSource
  <2> QED BY <1>5, <2>1, <2>4
<1>12. CASE Create
  <2> DEFINE new == [plat |-> Target, id |-> nextId[Target],
                     text |-> Fit[Target][cur.text], parent |-> parent,
                     from |-> cur.plat, fromId |-> cur.id]
  <2>1. /\ Copies' \subseteq Copies \cup {new} /\ posts \subseteq posts'
        /\ UNCHANGED <<seen, cur, bridged>> /\ pc = "posting" /\ pc' = "answering"
    BY <1>12 DEF Create, NewPost, Copies
  <2>2. cur \in posts /\ UniqueIds'
    BY <2>1, UniqueIdsKept DEF IInv, PostsExist, Idle
  <2>3. \A o \in posts' : IsSource(o, new) => o = cur
    BY <2>1, <2>2 DEF IsSource, UniqueIds
  <2>4. \A c \in Copies, o \in posts' : IsSource(o, c) => o \in posts
    BY SourcesAreOld DEF IInv
  <2>5. Marked'
    BY <1>2, <2>1, <2>3, <2>4 DEF IsSource
  <2>6. NotSeen'
    BY <1>2, <2>1
  <2>7. ASSUME NEW d \in Copies, NEW q \in posts, IsSource(q, d), d.plat = Target,
               Hash[q.text] # NoHash, Hash[q.text] = Hash[cur.text]
        PROVE  FALSE
    <3>1. q = cur
      BY <1>2, <2>1, <2>7
    <3>2. happened["lost"] = 0
      BY <1>1 DEF Undisturbed
    <3>3. ~(Source(d).plat = cur.plat /\ Source(d).id = cur.id)
      <4>1. CopiesOf(cur, Target) = {}
        BY <2>1, <3>2, CopiesCounted DEF IInv, PairsClosed
      <4> QED BY <2>7, <4>1 DEF CopiesOf
    <3> QED BY <2>7, <3>1, <3>3 DEF IsSource, Source
  <2>8. SameTextCopiedOnce'
    <3> SUFFICES ASSUME NEW c \in Copies', NEW d \in Copies', NEW o \in posts', NEW q \in posts',
                        IsSource(o, c), IsSource(q, d), Hash[o.text] # NoHash,
                        Hash[o.text] = Hash[q.text], c.plat = d.plat
                 PROVE  c = d
      BY DEF SameTextCopiedOnce, IsSource
    <3>1. CASE c \in Copies /\ d \in Copies
      BY <1>1, <1>2, <2>4, <3>1 DEF SameTextCopiedOnce, IsSource
    <3>2. CASE c = new /\ d \in Copies
      BY <2>3, <2>4, <2>7, <3>2
    <3>3. CASE c \in Copies /\ d = new
      BY <2>3, <2>4, <2>7, <3>3
    <3> QED BY <2>1, <3>1, <3>2, <3>3
  <2> QED BY <2>5, <2>6, <2>8
<1>13. CASE LoseAnswer \/ Cancel \/ Exit \/ Crash \/ Restart \/ \E h \in seen : Expire(h)
  BY <1>1, <1>4, <1>13 DEF LoseAnswer, PostFails, Cancel, Exit, Crash, Restart, Expire
<1>14. CASE \/ \E p \in Platforms, x \in Texts :
                 \E par \in {NoID} \cup IdsOf(p) : Publish(p, x, par)
            \/ \E post \in posts : Deliver(post)
            \/ \E k \in {"dbError", "disconnect"} : ListenerTrouble(k)
            \/ UNCHANGED vars
  BY <1>7, <1>14, PublishedIsNoCopy DEF Publish, Deliver, ListenerTrouble, vars, Copies
<1> QED
  BY <1>8, <1>9, <1>10, <1>11, <1>12, <1>13, <1>14 DEF Next, Consumer, Surroundings

(* Without a fault, and while no hash leaves the window, what users wrote  *)
(* in the same words on any platforms reaches a platform as a copy once.   *)
THEOREM SameWordsOnce == Spec => []SameTextCopiedOnce
<1>1. Init => UniqueIds /\ TextsMarked
  BY DEF Init, UniqueIds, TextsMarked, SameTextCopiedOnce, Copies, Working
<1>2. TextsMarked => SameTextCopiedOnce
  BY DEF TextsMarked, SameTextCopiedOnce
<1>3. IInv /\ UniqueIds /\ TextsMarked /\ [Next]_vars => UniqueIds' /\ TextsMarked'
  BY UniqueIdsKept, TextsMarkedKept DEF IInv
<1> QED BY <1>1, <1>2, <1>3, Invariance, PTL DEF Spec
=============================================================================
