--------------------------- MODULE PostingProofs ----------------------------
(***************************************************************************)
(* A call of target.Post in module Posting implements PostCall, whatever   *)
(* the attachments, sizes, limits and waits.  The step of Posting that     *)
(* creates a post must map to a step that counts one more: so the proof    *)
(* has to know that none was created before, which is the invariant.       *)
(***************************************************************************)
EXTENDS Posting, SequenceTheorems, WellFoundedInduction, TLAPS

(* Before the platform creates the post there is none.                     *)
NoneBefore == pc \notin {"answering", "ok", "error"} => created = <<>>

(* Every step of the caller before the answer leaves the posts alone and   *)
(* does not yet return an identifier.                                      *)
LEMMA Before ==
  ASSUME Next, ~CreateStatus, ~ReturnID, ~NoAnswer
  PROVE  /\ UNCHANGED created
         /\ \/ pc' = pc
            \/ /\ pc \notin {"answering", "ok", "error", "dead"}
               /\ pc' \notin {"answering", "ok"}
<1>1. CASE Prepare  BY <1>1 DEF Prepare
<1>2. CASE Begin
  BY <1>2 DEF Begin, Keep, GiveUp, Onward
<1>3. CASE ResolveRef
  BY <1>3 DEF ResolveRef, Keep, Onward
<1>4. CASE RequestFails
  BY <1>4 DEF RequestFails, Keep, GiveUp
<1>5. CASE Upload
  BY <1>5 DEF Upload, Keep, Uploaded, Onward
<1>6. CASE UploadToMastodon
  BY <1>6 DEF UploadToMastodon, Keep, Uploaded, Onward
<1>7. CASE CheckOnMastodon
  BY <1>7 DEF CheckOnMastodon, Keep, Uploaded, Onward, GiveUp, SleepThen
<1>8. CASE InitUpload  BY <1>8 DEF InitUpload, Keep
<1>9. CASE AppendSegment  BY <1>9 DEF AppendSegment, Keep
<1>10. CASE Finalize
  BY <1>10 DEF Finalize, Keep, Uploaded, Onward
<1>11. CASE AwaitProcessing
  BY <1>11 DEF AwaitProcessing, Keep, Uploaded, Onward, GiveUp, SleepThen
<1>12. CASE DereferenceNil  BY <1>12 DEF DereferenceNil, Keep, uploads
<1>13. CASE CheckStatus  BY <1>13 DEF CheckStatus, Keep
<1>14. CASE Cancel  BY <1>14 DEF Cancel, Keep
<1>15. CASE \E outcome \in {"ready", "failed"} : Process(outcome)
  BY <1>15 DEF Process, Keep
<1> QED BY <1>1, <1>2, <1>3, <1>4, <1>5, <1>6, <1>7, <1>8, <1>9, <1>10,
           <1>11, <1>12, <1>13, <1>14, <1>15 DEF Next, Caller

LEMMA NoneBeforeKept ==
  ASSUME NoneBefore, [Next]_vars
  PROVE  NoneBefore'
<1>1. CASE UNCHANGED vars  BY <1>1 DEF NoneBefore, vars
<1>2. CASE CreateStatus  BY <1>2 DEF CreateStatus, NoneBefore
<1>3. CASE ReturnID  BY <1>3 DEF ReturnID, NoneBefore
<1>4. CASE NoAnswer  BY <1>4 DEF NoAnswer, GiveUp, NoneBefore
<1>5. CASE Next /\ ~CreateStatus /\ ~ReturnID /\ ~NoAnswer
  BY <1>5, Before DEF NoneBefore
<1> QED BY <1>1, <1>2, <1>3, <1>4, <1>5

(* Each step of the adapters is a step of the abstract call or none.       *)
LEMMA StepMaps ==
  ASSUME NoneBefore, [Next]_vars
  PROVE  [Call!Next]_(Call!vars)
<1> DEFINE call == IF Over \/ pc = "answering" THEN pc ELSE "posting"
<1>1. CASE UNCHANGED vars
  BY <1>1 DEF vars, Call!vars, Over
<1>2. CASE CreateStatus
  <2>1. created = <<>> /\ pc = "status" /\ pc' = "answering"
    BY <1>2 DEF CreateStatus, NoneBefore
  <2>2. created' = Append(created, ids)  BY <1>2 DEF CreateStatus
  <2>3. Len(created) = 0 /\ Len(created') = 1
    <3>1. <<>> \in Seq({ids})  OBVIOUS
    <3> QED BY <2>1, <2>2, <3>1
  <2>4. Call!Create  BY <2>1, <2>3 DEF Call!Create, Over
  <2> QED BY <2>4 DEF Call!Next
<1>3. CASE ReturnID
  <2>1. Call!Answer  BY <1>3 DEF ReturnID, Keep, Call!Answer, Over
  <2> QED BY <2>1 DEF Call!Next
<1>4. CASE NoAnswer
  <2>1. Call!LoseAnswer
    BY <1>4 DEF NoAnswer, GiveUp, Keep, Call!LoseAnswer, Over
  <2> QED BY <2>1 DEF Call!Next
<1>5. CASE Next /\ ~CreateStatus /\ ~ReturnID /\ ~NoAnswer
  <2>1. UNCHANGED created  BY <1>5, Before
  <2>2. CASE pc' = pc  BY <2>1, <2>2 DEF Call!vars, Over
  <2>3. CASE /\ pc \notin {"answering", "ok", "error", "dead"}
             /\ pc' \notin {"answering", "ok"}
    <3>1. CASE pc' = "error"
      BY <2>1, <2>3, <3>1 DEF Call!Next, Call!Refuse, Over
    <3>2. CASE pc' = "dead"
      BY <2>1, <2>3, <3>2 DEF Call!Next, Call!Die, Over
    <3>3. CASE pc' \notin {"error", "dead"}
      BY <2>1, <2>3, <3>3 DEF Call!vars, Over
    <3> QED BY <3>1, <3>2, <3>3
  <2> QED BY <1>5, <2>2, <2>3, Before
<1> QED BY <1>1, <1>2, <1>3, <1>4, <1>5

(* The adapters' calls are calls as the engine expects them: at most one   *)
(* post is created, and an identifier is returned only of a post that is   *)
(* there (mastodon.go, bluesky.go, outbound.go and upload.go).             *)
THEOREM CallsAreCalls == Spec => ImplementsPostCall
<1>1. Init => NoneBefore /\ Call!Init
  BY DEF Init, NoneBefore, Call!Init, Over
<1>2. NoneBefore /\ [Next]_vars => NoneBefore'  BY NoneBeforeKept
<1>3. NoneBefore /\ [Next]_vars => [Call!Next]_(Call!vars)  BY StepMaps
<1> QED BY <1>1, <1>2, <1>3, PTL DEF Spec, ImplementsPostCall, Call!Spec

(***************************************************************************)
(* What a post carries.  The invariant follows the uploads: the platform's *)
(* media are the chosen items one by one, the identifiers kept are those   *)
(* of all of them but the one that is on its way, and each is whole before *)
(* its identifier is kept.                                                 *)
(***************************************************************************)
Phase == {"open", "processing", "ready", "failed"}
Medium == [of : DOMAIN items, got : Nat, phase : Phase]
Infos == {NoInfo} \cup {i \in ProcessingInfo : i.after \in CheckAfters \cup {0}}

(* What TypeOK says nothing of because no step writes it.                  *)
Arguments ==
  /\ target \in {"mastodon", "bluesky", "x"} /\ video \in BOOLEAN
  /\ attached \in AttachmentLists /\ info \in Infos

(* Prepared attachments are in the order of the originals.                 *)
ItemsOrdered ==
  /\ \A i, j \in DOMAIN items : i < j => items[i].from < items[j].from
  /\ ~video => Videos = {}

(* On X a new sleep starts only within the deadline.                       *)
WaitsEnd == pc \in {"check", "await"} /\ target = "x" => waited <= Ceiling

(* Who is where, and what an answer of X was about.                        *)
Phases ==
  /\ pc = "prepare" => media = <<>>
  /\ pc \in {"append", "await"} => target = "x"
  /\ pc = "check" => target \in {"mastodon", "x"}
  /\ pc \in {"check", "await"} /\ target = "x" => media[Current].phase # "open"
  /\ pc = "await" /\ info # NoInfo /\ info.state \in DoneStates =>
       media[Current].phase = "ready"

(* Uploads are the chosen items in their order, and none is left out.      *)
Places ==
  /\ Len(ids) <= Len(media)
  /\ pc \in {"prepare", "parent", "upload", "status", "answering", "ok"} =>
       Len(media) = Len(ids)
  /\ pc \in {"append", "check", "await"} => Len(media) = Len(ids) + 1
  /\ \A i \in DOMAIN ids : ids[i] = i
  /\ \A k \in DOMAIN media : k <= Len(Chosen) /\ media[k].of = Chosen[k]
  /\ pc = "upload" => Len(ids) < Len(Chosen)
  /\ pc \in {"status", "answering", "ok"} => Len(ids) = Len(Chosen)

(* What is kept is whole, and on Bluesky and X ready.                      *)
Whole(k) == media[k].got = items[media[k].of].size
Uploads ==
  /\ \A k \in DOMAIN ids : Whole(k) /\ (target # "mastodon" => media[k].phase = "ready")
  /\ pc \in {"check", "await"} => Whole(Current)
  /\ pc = "append" =>
       media[Current].got = IF MoreSegments THEN offset ELSE Item.size

(* The one post shows all of it, and all of it is ready.                   *)
CreatedOnce ==
  created # <<>> =>
    /\ created = <<ids>> /\ Len(ids) = Len(Chosen) /\ Len(media) = Len(ids)
    /\ \A k \in DOMAIN media : media[k].phase = "ready"

PostInv == /\ TypeOK /\ Arguments /\ ItemsOrdered /\ WaitsEnd /\ Phases
           /\ Places /\ Uploads /\ NoneBefore /\ CreatedOnce

(***************************************************************************)
(* What is chosen.                                                         *)
(***************************************************************************)
Taken == [from : 1..taken, kind : {"image", "video"}, size : Sizes]

LEMMA LeastPlace ==
  ASSUME NEW T, T \subseteq Nat, T # {}
  PROVE  \E i \in T : \A j \in T : i <= j
<1> DEFINE less == {pair \in Nat \X Nat : pair[1] < pair[2]}
<1>1. IsWellFoundedOn(less, Nat)
  BY NatLessThanWellFounded DEF OpToRel
<1>2. PICK i \in T : \A j \in T : ~(<<j, i>> \in less)
  <2> HIDE DEF less
  <2> QED BY <1>1, WFMin
<1>3. \A j \in T : ~(j < i) /\ j \in Nat /\ i \in Nat
  BY <1>2
<1> QED BY <1>3

(* Chosen items are in order, and there are as many as the platform takes. *)
LEMMA ChosenInOrder ==
  ASSUME items \in Seq(Taken), Arguments
  PROVE  /\ Chosen \in Seq(DOMAIN items)
         /\ \A i, j \in DOMAIN Chosen : i < j => Chosen[i] < Chosen[j]
         /\ IF target = "bluesky" /\ Videos # {}
            THEN Len(Chosen) = 1 /\ Chosen[1] \in Videos
            ELSE Len(Chosen) = IF target # "mastodon" /\ Len(items) > MaxMedia
                               THEN MaxMedia ELSE Len(items)
<1> DEFINE n == Len(items)
           m == IF MaxMedia < n THEN MaxMedia ELSE n
<1>1. n \in Nat /\ DOMAIN items = 1..n /\ MaxMedia \in Nat
  BY PostingAssumption
<1>2. /\ Offered \in Seq(1..n) /\ Len(Offered) = n
      /\ \A i \in 1..n : Offered[i] = i
  BY <1>1 DEF Offered
<1>3. /\ FirstOf(MaxMedia, Offered) \in Seq(1..n)
      /\ Len(FirstOf(MaxMedia, Offered)) = m
      /\ \A i \in 1..m : FirstOf(MaxMedia, Offered)[i] = i
  <2>1. m \in 0..n
    BY <1>1
  <2>2. FirstOf(MaxMedia, Offered) = SubSeq(Offered, 1, m)
    BY <1>2 DEF FirstOf
  <2> HIDE DEF m
  <2>3. \A i \in 1..m : Offered[i] = i /\ i \in 1..n
    BY <1>1, <1>2, <2>1
  <2>4. /\ SubSeq(Offered, 1, m) \in Seq(1..n)
        /\ Len(SubSeq(Offered, 1, m)) = IF 1 <= m THEN m - 1 + 1 ELSE 0
        /\ \A i \in 1..m : SubSeq(Offered, 1, m)[i] = Offered[i]
    <3>1. m \in Int /\ \A i \in 1..m : Offered[i] \in 1..n
      BY <2>1, <2>3, <1>1
    <3>2. \A i \in 1..(m - 1 + 1) : SubSeq(Offered, 1, m)[i] = Offered[1 + i - 1]
      BY <3>1, SubSeqProperties
    <3>3. /\ SubSeq(Offered, 1, m) \in Seq(1..n)
          /\ Len(SubSeq(Offered, 1, m)) = IF 1 <= m THEN m - 1 + 1 ELSE 0
      BY <3>1, SubSeqProperties
    <3> QED BY <3>1, <3>2, <3>3
  <2> QED BY <2>1, <2>2, <2>3, <2>4
<1>4. CASE target = "mastodon"
  <2>1. Chosen = Offered
    BY <1>4 DEF Chosen
  <2>2. DOMAIN Offered = 1..n
    BY <1>1 DEF Offered
  <2> QED BY <1>1, <1>2, <1>4, <2>1, <2>2
<1> DEFINE few == FirstOf(MaxMedia, Offered)
<1>5. ASSUME Chosen = few, target # "mastodon", target = "bluesky" => Videos = {}
      PROVE  /\ Chosen \in Seq(DOMAIN items)
             /\ \A i, j \in DOMAIN Chosen : i < j => Chosen[i] < Chosen[j]
             /\ Len(Chosen) = IF Len(items) > MaxMedia THEN MaxMedia ELSE Len(items)
  <2>1. few \in Seq(1..n) /\ Len(few) = m /\ \A i \in 1..m : few[i] = i
    BY <1>3
  <2> HIDE DEF few
  <2>2. DOMAIN few = 1..m /\ m = IF n > MaxMedia THEN MaxMedia ELSE n
    BY <1>1, <2>1
  <2> HIDE DEF m
  <2>3. \A i, j \in DOMAIN few : i < j => few[i] < few[j]
    BY <2>1, <2>2
  <2> QED BY <1>1, <1>5, <2>1, <2>2, <2>3
<1>6. CASE target = "x"
  <2>1. Chosen = few
    BY <1>6 DEF Chosen
  <2> HIDE DEF few
  <2> QED BY <1>6, <1>5, <2>1
<1>7. CASE target = "bluesky"
  <2>1. CASE Videos = {}
    <3>1. Chosen = few
      BY <1>7, <2>1 DEF Chosen
    <3> HIDE DEF few
    <3> QED BY <1>7, <1>5, <2>1, <3>1
  <2>2. CASE Videos # {}
    <3>1. Videos \subseteq Nat /\ Videos \subseteq 1..n
      BY <1>1 DEF Videos
    <3>2. FirstVideo \in Videos
      BY <3>1, <2>2, LeastPlace DEF FirstVideo
    <3>3. Chosen = <<FirstVideo>>
      BY <1>7, <2>2 DEF Chosen
    <3> QED BY <3>1, <3>2, <3>3, <2>2, <1>1, <1>7
  <2> QED BY <2>1, <2>2
<1> QED BY <1>4, <1>6, <1>7 DEF Arguments

(* Nothing is chosen anew once the attachments are prepared.               *)
LEMMA ChosenStays ==
  ASSUME UNCHANGED <<target, items>>
  PROVE  Chosen' = Chosen
<1>1. Offered' = Offered /\ Videos' = Videos
  BY DEF Offered, Videos
<1>2. FirstVideo' = FirstVideo
  BY <1>1 DEF FirstVideo
<1> QED BY <1>1, <1>2 DEF Chosen, FirstOf

(***************************************************************************)
(* What the invariant says of a post.                                      *)
(***************************************************************************)
LEMMA TakenItems ==
  ASSUME TypeOK
  PROVE  /\ items \in Seq(Taken) /\ ids \in Seq(1..Len(media)) /\ media \in Seq(Medium)
         /\ Len(ids) \in Nat /\ DOMAIN ids = 1..Len(ids)
         /\ Len(media) \in Nat /\ DOMAIN media = 1..Len(media)
         /\ Len(items) \in Nat /\ DOMAIN items = 1..Len(items)
  BY DEF TypeOK, Taken, Medium, Phase

LEMMA CreatedIsWhole ==
  ASSUME PostInv
  PROVE  MediaWhole
<1> SUFFICES ASSUME NEW n \in DOMAIN created, NEW i \in DOMAIN created[n]
             PROVE  LET m == media[created[n][i]]
                    IN m.got = items[m.of].size /\ m.phase = "ready"
  BY DEF MediaWhole
<1>1. created # <<>>
  OBVIOUS
<1>2. created = <<ids>> /\ Len(media) = Len(ids)
      /\ \A k \in DOMAIN media : media[k].phase = "ready"
  BY <1>1 DEF PostInv, CreatedOnce
<1>3. created[n] = ids
  BY <1>2
<1>4. ids[i] = i /\ Whole(i) /\ i \in DOMAIN media
  BY <1>2, <1>3, TakenItems DEF PostInv, Places, Uploads
<1> QED BY <1>2, <1>3, <1>4 DEF Whole

LEMMA CreatedHasAll ==
  ASSUME PostInv
  PROVE  AttachmentsKept
<1> DEFINE Parts(n) == [i \in DOMAIN created[n] |-> items[media[created[n][i]].of]]
           Kinds(s) == {s[i].kind : i \in DOMAIN s}
<1> SUFFICES
      ASSUME NEW n \in DOMAIN created
      PROVE  /\ \A i, j \in DOMAIN Parts(n) : i < j => Parts(n)[i].from < Parts(n)[j].from
             /\ ~video => "video" \notin Kinds(Parts(n))
             /\ IF target = "bluesky" /\ "video" \in Kinds(items)
                THEN Len(Parts(n)) = 1 /\ Kinds(Parts(n)) = {"video"}
                ELSE Len(Parts(n)) = IF target # "mastodon" /\ Len(items) > MaxMedia
                                     THEN MaxMedia ELSE Len(items)
  BY DEF AttachmentsKept
<1> DEFINE parts == Parts(n)
<1>1. created # <<>>
  OBVIOUS
<1>2. created = <<ids>> /\ Len(media) = Len(ids) /\ Len(ids) = Len(Chosen)
  BY <1>1 DEF PostInv, CreatedOnce
<1>3. created[n] = ids
  BY <1>2
<1>4. /\ Chosen \in Seq(DOMAIN items) /\ Len(Chosen) \in Nat
      /\ DOMAIN Chosen = 1..Len(Chosen) /\ DOMAIN ids = DOMAIN Chosen
      /\ \A i \in DOMAIN Chosen : Chosen[i] \in DOMAIN items
      /\ \A i, j \in DOMAIN Chosen : i < j => Chosen[i] < Chosen[j]
  <2>1. items \in Seq(Taken) /\ Arguments /\ DOMAIN ids = 1..Len(ids)
    BY TakenItems DEF PostInv
  <2>2. /\ Chosen \in Seq(DOMAIN items)
        /\ \A i, j \in DOMAIN Chosen : i < j => Chosen[i] < Chosen[j]
    BY <2>1, ChosenInOrder
  <2> QED BY <1>2, <2>1, <2>2
<1>5. \A i \in DOMAIN Chosen : media[ids[i]].of = Chosen[i]
  BY <1>2, <1>4, TakenItems DEF PostInv, Places
<1>6. parts = [i \in DOMAIN Chosen |-> items[Chosen[i]]]
  BY <1>3, <1>4, <1>5
<1>7. Len(parts) = Len(Chosen) /\ DOMAIN parts = DOMAIN Chosen
  <2> HIDE DEF Parts
  <2> QED BY <1>4, <1>6
<1>8. \A i, j \in DOMAIN parts : i < j => parts[i].from < parts[j].from
  <2> HIDE DEF Parts
  <2> QED BY <1>4, <1>6, <1>7 DEF PostInv, ItemsOrdered
<1>9. ("video" \in {items[i].kind : i \in DOMAIN items}) <=> Videos # {}
  BY DEF Videos
<1>10. ~video => "video" \notin {parts[i].kind : i \in DOMAIN parts}
  <2> HIDE DEF Parts
  <2> QED BY <1>4, <1>6, <1>7, <1>9 DEF PostInv, ItemsOrdered
<1>11. CASE target = "bluesky" /\ Videos # {}
  <2>1. Len(Chosen) = 1 /\ Chosen[1] \in Videos
    BY <1>11, TakenItems, ChosenInOrder DEF PostInv
  <2>2. {parts[i].kind : i \in DOMAIN parts} = {"video"}
    <3>1. DOMAIN parts = {1} /\ parts[1].kind = "video"
      <4> HIDE DEF Parts
      <4> QED BY <2>1, <1>4, <1>6, <1>7 DEF Videos
    <3> HIDE DEF Parts
    <3> QED BY <3>1
  <2> HIDE DEF Parts
  <2> QED BY <2>1, <2>2, <1>7, <1>8, <1>9, <1>10, <1>11
<1>12. CASE ~(target = "bluesky" /\ Videos # {})
  <2>1. Len(Chosen) = IF target # "mastodon" /\ Len(items) > MaxMedia
                      THEN MaxMedia ELSE Len(items)
    BY <1>12, TakenItems, ChosenInOrder DEF PostInv
  <2> HIDE DEF Parts
  <2> QED BY <2>1, <1>7, <1>8, <1>9, <1>10, <1>12
<1> QED BY <1>11, <1>12

(***************************************************************************)
(* Steps.                                                                  *)
(***************************************************************************)
(* What the steps after the preparation leave alone.                       *)
LEMMA Fixed ==
  ASSUME PostInv, UNCHANGED <<arguments, taken, items>>,
         info' \in Infos, waited' \in Nat,
         pc' \in {"prepare", "parent", "upload", "append", "await", "check",
                  "status", "answering", "ok", "error", "dead"},
         ids' \in Seq(1..Len(media')), media' \in Seq(Medium),
         offset' \in Nat, cancelled' \in BOOLEAN,
         \E w \in LongestWait : waited' \in 0..(Ceiling + w)
  PROVE  TypeOK' /\ Arguments' /\ ItemsOrdered' /\ Chosen' = Chosen
<1>1. Chosen' = Chosen
  BY ChosenStays DEF arguments
<1>2. TypeOK'
  BY DEF PostInv, TypeOK, arguments, Medium, Phase
<1>3. Arguments'
  BY DEF PostInv, Arguments, arguments, Infos
<1>4. ItemsOrdered'
  <2>1. Videos' = Videos
    BY DEF Videos
  <2> QED BY <2>1 DEF PostInv, ItemsOrdered, arguments
<1> QED BY <1>1, <1>2, <1>3, <1>4

(* An upload of the next item begins, with some of it sent.                *)
LEMMA Begun ==
  ASSUME PostInv, pc = "upload", NEW got \in Nat, NEW phase \in Phase,
         media' = Append(media, [of |-> Chosen[Len(ids) + 1], got |-> got, phase |-> phase])
  PROVE  /\ media' \in Seq(Medium) /\ Len(media') = Len(ids) + 1
         /\ Len(media) = Len(ids) /\ Len(ids) + 1 <= Len(Chosen)
         /\ Chosen[Len(ids) + 1] \in DOMAIN items
         /\ \A k \in DOMAIN media : media'[k] = media[k]
         /\ media'[Len(ids) + 1] = [of |-> Chosen[Len(ids) + 1], got |-> got, phase |-> phase]
         /\ \A k \in DOMAIN media' : k <= Len(Chosen) /\ media'[k].of = Chosen[k]
<1> DEFINE new == [of |-> Chosen[Len(ids) + 1], got |-> got, phase |-> phase]
<1>1. /\ Chosen \in Seq(DOMAIN items) /\ Len(ids) < Len(Chosen)
      /\ Len(media) = Len(ids) /\ Len(ids) \in Nat /\ media \in Seq(Medium)
  BY TakenItems, ChosenInOrder DEF PostInv, Places
<1>2. Chosen[Len(ids) + 1] \in DOMAIN items /\ Len(ids) + 1 <= Len(Chosen)
  BY <1>1
<1>3. new \in Medium
  BY <1>2 DEF Medium
<1>4. /\ media' \in Seq(Medium) /\ Len(media') = Len(media) + 1
      /\ \A k \in 1..Len(media) : media'[k] = media[k]
      /\ media'[Len(media) + 1] = new
  <2>1. media' = Append(media, new)
    OBVIOUS
  <2> HIDE DEF new
  <2> QED BY <2>1, <1>1, <1>3, AppendProperties
<1>5. \A k \in DOMAIN media : k <= Len(Chosen) /\ media[k].of = Chosen[k]
  BY DEF PostInv, Places
<1>6. \A k \in DOMAIN media' : k <= Len(Chosen) /\ media'[k].of = Chosen[k]
  <2> SUFFICES ASSUME NEW k \in DOMAIN media'
               PROVE  k <= Len(Chosen) /\ media'[k].of = Chosen[k]
    OBVIOUS
  <2>1. k \in 1..(Len(media) + 1) /\ DOMAIN media = 1..Len(media)
    BY <1>1, <1>4
  <2>2. CASE k \in 1..Len(media)
    BY <2>1, <2>2, <1>4, <1>5
  <2>3. CASE k = Len(media) + 1
    BY <2>3, <1>1, <1>2, <1>4
  <2> QED BY <2>1, <2>2, <2>3, <1>1
<1> QED BY <1>1, <1>2, <1>4, <1>6

(* The current upload moves on: its place is the same.                     *)
LEMMA Continued ==
  ASSUME PostInv, media # <<>>, NEW new \in Medium, new.of = media[Current].of,
         media' = [media EXCEPT ![Current] = new]
  PROVE  /\ media' \in Seq(Medium) /\ Len(media') = Len(media)
         /\ media'[Current] = new
         /\ \A k \in DOMAIN media : k # Current => media'[k] = media[k]
         /\ \A k \in DOMAIN media' : k <= Len(Chosen) /\ media'[k].of = Chosen[k]
<1>1. /\ media \in Seq(Medium) /\ Len(media) \in Nat /\ DOMAIN media = 1..Len(media)
      /\ Current \in 1..Len(media)
  BY TakenItems DEF PostInv, Current
<1>2. \A k \in DOMAIN media : k <= Len(Chosen) /\ media[k].of = Chosen[k]
  BY DEF PostInv, Places
<1>3. /\ media' \in Seq(Medium) /\ Len(media') = Len(media) /\ DOMAIN media' = DOMAIN media
      /\ media'[Current] = new
      /\ \A k \in DOMAIN media : k # Current => media'[k] = media[k]
  BY <1>1, ExceptSeq
<1> QED BY <1>1, <1>2, <1>3

(* The identifier of an upload is kept, and the call goes on.              *)
LEMMA Kept ==
  ASSUME PostInv, NEW m \in Nat, m = Len(ids) + 1, m <= Len(Chosen),
         ids' = Append(ids, m), Onward(ids')
  PROVE  /\ ids' \in Seq(1..m) /\ Len(ids') = m /\ DOMAIN ids' = 1..m
         /\ \A i \in DOMAIN ids' : ids'[i] = i
         /\ pc' \in {"status", "upload"}
         /\ pc' = "upload" => Len(ids') < Len(Chosen)
         /\ pc' = "status" => Len(ids') = Len(Chosen)
<1>1. /\ ids \in Seq(1..Len(media)) /\ DOMAIN ids = 1..Len(ids) /\ Len(ids) \in Nat
      /\ \A i \in DOMAIN ids : ids[i] = i
  BY TakenItems DEF PostInv, Places
<1>2. Len(Chosen) \in Nat
  BY TakenItems, ChosenInOrder DEF PostInv
<1>3. /\ Len(ids') = m /\ DOMAIN ids' = 1..m
      /\ \A i \in 1..Len(ids) : ids'[i] = ids[i]
      /\ ids'[m] = m
  BY <1>1
<1>4. \A i \in DOMAIN ids' : ids'[i] = i
  BY <1>1, <1>3
<1>5. ids' \in Seq(1..m)
  <2>1. ids \in Seq(1..m)
    BY SMTT(30), <1>1
  <2> QED BY <2>1
<1> QED BY <1>2, <1>3, <1>4, <1>5 DEF Onward

(* A step that only moves the call between uploads.                        *)
LEMMA GoesOn ==
  ASSUME PostInv, Len(media) = Len(ids), Onward(ids)
  PROVE  /\ pc' \in {"status", "upload"}
         /\ pc' = "upload" => Len(ids) < Len(Chosen)
         /\ pc' = "status" => Len(ids) = Len(Chosen)
<1>1. Len(ids) \in Nat /\ Len(Chosen) \in Nat /\ DOMAIN media = 1..Len(media)
  BY TakenItems, ChosenInOrder DEF PostInv
<1>2. Len(ids) <= Len(Chosen)
  <2>1. CASE Len(ids) = 0
    BY <1>1, <2>1
  <2>2. CASE Len(ids) > 0
    <3>1. Len(media) \in DOMAIN media
      BY <1>1, <2>2
    <3> QED BY <3>1 DEF PostInv, Places
  <2> QED BY <1>1, <2>1, <2>2
<1> QED BY <1>1, <1>2 DEF Onward

(* What is left of a wait, or a new one; a wait and one sleep more.        *)
LEMMA WaitRuns ==
  ASSUME PostInv, waited' = waited \/ waited' = 0
  PROVE  waited' \in Nat /\ \E w \in LongestWait : waited' \in 0..(Ceiling + w)
<1>1. LongestWait \subseteq Nat /\ Ceiling \in Nat
  BY PostingAssumption DEF LongestWait
<1> QED BY <1>1 DEF PostInv, TypeOK

LEMMA OneSleepMore ==
  ASSUME PostInv, waited <= Ceiling, NEW w \in LongestWait, waited' = waited + w
  PROVE  /\ waited' \in Nat /\ waited \in Nat
         /\ \E v \in LongestWait : waited' \in 0..(Ceiling + v)
<1>1. LongestWait \subseteq Nat /\ Ceiling \in Nat
  BY PostingAssumption DEF LongestWait
<1>2. waited \in Nat
  BY <1>1 DEF PostInv, TypeOK
<1>3. waited' \in 0..(Ceiling + w)
  BY <1>1, <1>2
<1> QED BY <1>1, <1>2, <1>3

LEMMA PrepareKeeps ==
  ASSUME PostInv, Prepare
  PROVE  PostInv'
<1>1. media = <<>> /\ ids = <<>> /\ created = <<>> /\ pc = "prepare"
  <2>1. Len(ids) <= Len(media) /\ media = <<>>
    BY DEF Prepare, PostInv, Places, Phases
  <2>2. Len(ids) = 0 /\ ids \in Seq(1..Len(media))
    BY <2>1, TakenItems DEF PostInv
  <2> QED BY <2>1, <2>2 DEF PostInv, NoneBefore, Prepare
<1>2. /\ taken \in Nat /\ taken' = taken + 1 /\ taken' \in 0..Len(attached)
      /\ Len(attached) \in Nat
  <2>1. Len(attached) \in Nat
    BY PostingAssumption DEF PostInv, Arguments
  <2> QED BY <2>1 DEF Prepare, PostInv, TypeOK
<1>3. PICK as \in PreparedAs(attached[taken']), size \in Sizes :
        items' = IF as = "nothing" THEN items
                 ELSE Append(items, [from |-> taken', kind |-> as, size |-> size])
  BY DEF Prepare
<1>4. as \in {"image", "video", "nothing"} /\ (~video => as # "video")
  BY DEF PreparedAs, VideoOf, PosterOf
<1> DEFINE New == [from : 1..taken', kind : {"image", "video"}, size : Sizes]
           new == [from |-> taken', kind |-> as, size |-> size]
<1>5. items \in Seq(Taken) /\ items \in Seq(New)
  <2>1. items \in Seq(Taken) /\ Taken \subseteq New
    BY <1>2, TakenItems DEF PostInv, Taken
  <2> HIDE DEF New
  <2> QED BY <2>1, SeqMonotonic
<1>6. /\ items' \in Seq(New)
      /\ \A i, j \in DOMAIN items' : i < j => items'[i].from < items'[j].from
      /\ ~video => \A i \in DOMAIN items' : items'[i].kind # "video"
  <2>1. CASE as = "nothing"
    BY <1>3, <1>5, <2>1 DEF PostInv, ItemsOrdered, Videos
  <2>2. CASE as # "nothing"
    <3>1. new \in New /\ new.from = taken' /\ new.kind = as
      <4>1. taken' \in 1..taken'
        BY <1>2
      <4>2. as \in {"image", "video"}
        BY <1>4, <2>2
      <4> QED BY <4>1, <4>2
    <3>2. items' = Append(items, new)
      BY <1>3, <2>2
    <3>3. /\ items' \in Seq(New) /\ Len(items') = Len(items) + 1 /\ Len(items) \in Nat
          /\ DOMAIN items' = 1..(Len(items) + 1) /\ DOMAIN items = 1..Len(items)
          /\ \A i \in 1..Len(items) : items'[i] = items[i]
          /\ items'[Len(items) + 1] = new
      <4> HIDE DEF New, new
      <4> QED BY <3>1, <3>2, <1>5, AppendProperties
    <3>4. \A i \in DOMAIN items : items[i].from \in Nat /\ items[i].from < taken'
      <4>1. \A i \in DOMAIN items : items[i] \in Taken
        BY <1>5
      <4> QED BY <4>1, <1>2 DEF Taken
    <3> HIDE DEF New, new
    <3>5. \A i, j \in DOMAIN items' : i < j => items'[i].from < items'[j].from
      <4> SUFFICES ASSUME NEW i \in DOMAIN items', NEW j \in DOMAIN items', i < j
                   PROVE  items'[i].from < items'[j].from
        OBVIOUS
      <4>1. i \in DOMAIN items
        BY <3>3
      <4>2. CASE j \in DOMAIN items
        BY <4>1, <4>2, <3>3 DEF PostInv, ItemsOrdered
      <4>3. CASE j = Len(items) + 1
        BY <4>1, <4>3, <3>1, <3>3, <3>4
      <4> QED BY <4>2, <4>3, <3>3
    <3>6. ~video => \A i \in DOMAIN items' : items'[i].kind # "video"
      <4> SUFFICES ASSUME ~video, NEW i \in DOMAIN items' PROVE items'[i].kind # "video"
        OBVIOUS
      <4>1. CASE i \in DOMAIN items
        BY <4>1, <3>3 DEF PostInv, ItemsOrdered, Videos
      <4>2. CASE i = Len(items) + 1
        BY <4>2, <3>1, <3>3, <1>4
      <4> QED BY <4>1, <4>2, <3>3
    <3> QED BY <3>3, <3>5, <3>6
  <2> QED BY <2>1, <2>2
<1>7. /\ pc' = pc /\ UNCHANGED <<arguments, uploads, created, cancelled>>
  BY DEF Prepare
<1>8. ItemsOrdered'
  BY <1>6, <1>7 DEF ItemsOrdered, Videos, arguments
<1>9. TypeOK'
  <2>1. media' \in Seq([of : DOMAIN items', got : Nat,
                        phase : {"open", "processing", "ready", "failed"}])
        /\ ids' \in Seq(1..Len(media'))
    BY <1>1, <1>7 DEF uploads
  <2> QED BY <2>1, <1>2, <1>6, <1>7 DEF PostInv, TypeOK, uploads, arguments
<1>10. Arguments' /\ WaitsEnd' /\ Phases' /\ NoneBefore' /\ CreatedOnce'
  BY <1>1, <1>7
     DEF PostInv, Arguments, WaitsEnd, Phases, NoneBefore, CreatedOnce, Infos,
         arguments, uploads
<1>11. Places' /\ Uploads'
  <2>1. media' = <<>> /\ ids' = <<>> /\ pc' = "prepare"
    BY <1>1, <1>7 DEF uploads
  <2>2. Len(ids') = 0 /\ Len(media') = 0 /\ DOMAIN ids' = {} /\ DOMAIN media' = {}
    BY <2>1
  <2> QED BY <2>1, <2>2 DEF Places, Uploads
<1> QED BY <1>8, <1>9, <1>10, <1>11 DEF PostInv

(* Steps that upload nothing and end or go on to the next upload.          *)
LEMMA BetweenUploadsKeeps ==
  ASSUME PostInv, [Next]_vars, UNCHANGED <<arguments, taken, items, uploads, created>>,
         cancelled' \in BOOLEAN,
         \/ pc' \in {"error", "dead"}
         \/ pc = "prepare" /\ pc' = "parent"
         \/ pc \in {"prepare", "parent"} /\ Onward(ids)
         \/ pc = "answering" /\ pc' = "ok"
         \/ pc' = pc
  PROVE  PostInv'
<1>1. NoneBefore'
  BY NoneBeforeKept DEF PostInv
<1>2. /\ pc \in {"prepare", "parent", "upload", "append", "await", "check",
                 "status", "answering", "ok", "error", "dead"}
      /\ offset \in Nat /\ info \in Infos
  BY DEF PostInv, TypeOK, Arguments
<1>3. pc \in {"prepare", "parent"} /\ Onward(ids) =>
        /\ pc' \in {"status", "upload"}
        /\ pc' = "upload" => Len(ids) < Len(Chosen)
        /\ pc' = "status" => Len(ids) = Len(Chosen)
  BY GoesOn DEF PostInv, Places
<1>4. TypeOK' /\ Arguments' /\ ItemsOrdered' /\ Chosen' = Chosen
  BY <1>2, <1>3, Fixed, TakenItems, WaitRuns DEF uploads, PostInv, Medium
<1>5. WaitsEnd' /\ Phases'
  BY <1>2, <1>3 DEF PostInv, WaitsEnd, Phases, uploads, arguments, Current, DoneStates
<1>6. Places'
  BY <1>2, <1>3, <1>4 DEF PostInv, Places, uploads
<1>7. Uploads'
  <2>1. \A k \in DOMAIN ids' : Whole(k)' = Whole(k)
    BY DEF Whole, uploads
  <2>2. MoreSegments' = MoreSegments /\ Item' = Item /\ Whole(Current)' = Whole(Current)
    BY <1>4 DEF MoreSegments, Item, Whole, Current, uploads
  <2> QED BY <1>2, <1>3, <2>1, <2>2 DEF PostInv, Uploads, uploads, arguments, Current
<1>8. CreatedOnce'
  BY <1>4 DEF PostInv, CreatedOnce, uploads
<1> QED BY <1>1, <1>4, <1>5, <1>6, <1>7, <1>8 DEF PostInv

(* The media of a step that uploads: what was uploaded before is as it     *)
(* was, and the current upload is the next of the chosen items.            *)
Sending ==
  /\ media' \in Seq(Medium) /\ Len(media') = Len(ids) + 1
  /\ \A k \in DOMAIN media' : k <= Len(Chosen) /\ media'[k].of = Chosen[k]
  /\ \A k \in DOMAIN ids : media'[k] = media[k]

(* The current item, and what the current upload holds of it.              *)
Sent == media'[Len(ids) + 1]

LEMMA SendingOne ==
  ASSUME PostInv, Sending
  PROVE  /\ Len(ids) \in Nat /\ Len(Chosen) \in Nat /\ Len(ids) + 1 <= Len(Chosen)
         /\ DOMAIN ids = 1..Len(ids) /\ DOMAIN media' = 1..(Len(ids) + 1)
         /\ Sent \in Medium /\ Sent.of = Chosen[Len(ids) + 1]
         /\ items[Sent.of] = Item /\ Item.size \in Nat
<1>1. /\ Len(ids) \in Nat /\ DOMAIN ids = 1..Len(ids)
      /\ DOMAIN media' = 1..(Len(ids) + 1)
  BY TakenItems DEF PostInv, Sending
<1>2. Len(ids) + 1 \in DOMAIN media'
  BY <1>1
<1>3. Chosen \in Seq(DOMAIN items)
  BY TakenItems, ChosenInOrder DEF PostInv
<1>4. Len(ids) + 1 <= Len(Chosen) /\ Sent.of = Chosen[Len(ids) + 1] /\ Sent \in Medium
  BY <1>1, <1>2 DEF Sending, Sent
<1>5. Sent.of \in DOMAIN items
  BY <1>4 DEF Medium
<1>6. items[Sent.of] \in Taken
  BY <1>5, TakenItems DEF PostInv
<1>7. items[Sent.of] = Item /\ Item.size \in Nat
  BY <1>4, <1>6, PostingAssumption DEF Item, Taken
<1>8. Len(Chosen) \in Nat
  BY <1>3
<1> QED BY <1>1, <1>4, <1>7, <1>8

(* An upload ends: its identifier is kept.                                 *)
LEMMA UploadEnds ==
  ASSUME PostInv, [Next]_vars, UNCHANGED <<arguments, taken, items, created>>,
         created = <<>>, cancelled' \in BOOLEAN, Sending,
         ids' = Append(ids, Len(ids) + 1), Onward(ids'),
         Sent.got = Item.size, target # "mastodon" => Sent.phase = "ready",
         info' \in Infos, offset' \in Nat, waited' = waited \/ waited' = 0
  PROVE  PostInv'
<1> DEFINE m == Len(ids) + 1
<1>1. /\ Len(ids) \in Nat /\ Len(Chosen) \in Nat /\ m \in Nat /\ m <= Len(Chosen)
      /\ DOMAIN ids = 1..Len(ids) /\ DOMAIN media' = 1..m /\ Len(media') = m
      /\ items[Sent.of] = Item
  BY SendingOne DEF Sending
<1>2. /\ ids' \in Seq(1..m) /\ Len(ids') = m /\ DOMAIN ids' = 1..m
      /\ \A i \in DOMAIN ids' : ids'[i] = i
      /\ pc' \in {"status", "upload"}
      /\ pc' = "upload" => Len(ids') < Len(Chosen)
      /\ pc' = "status" => Len(ids') = Len(Chosen)
  BY <1>1, Kept
<1>3. NoneBefore'
  BY NoneBeforeKept DEF PostInv
<1>4. TypeOK' /\ Arguments' /\ ItemsOrdered' /\ Chosen' = Chosen
  BY <1>1, <1>2, Fixed, WaitRuns DEF Sending
<1>5. WaitsEnd' /\ Phases' /\ CreatedOnce'
  BY <1>2 DEF WaitsEnd, Phases, CreatedOnce
<1>6. Places'
  BY <1>1, <1>2, <1>4 DEF Places, Sending
<1>7. Uploads'
  <2>1. ASSUME NEW k \in DOMAIN ids'
        PROVE  Whole(k)' /\ (target' # "mastodon" => media'[k].phase = "ready")
    <3>1. CASE k \in DOMAIN ids
      <4>1. media'[k] = media[k] /\ Whole(k) /\ (target # "mastodon" => media[k].phase = "ready")
        BY <3>1 DEF Sending, PostInv, Uploads
      <4> QED BY <4>1 DEF Whole, arguments
    <3>2. CASE k = m
      <4>1. media'[k] = Sent
        BY <3>2 DEF Sent
      <4> QED BY <4>1, <1>1 DEF Whole, arguments
    <3> QED BY <3>1, <3>2, <1>1, <1>2
  <2> QED BY <2>1, <1>2 DEF Uploads
<1> QED BY <1>3, <1>4, <1>5, <1>6, <1>7 DEF PostInv

(* An upload is on its way, or is given up.                                *)
LEMMA UploadGoesOn ==
  ASSUME PostInv, [Next]_vars, UNCHANGED <<arguments, taken, items, ids, created>>,
         created = <<>>, cancelled' \in BOOLEAN, Sending,
         pc' \in {"append", "await", "check", "error"},
         pc' \in {"append", "await"} => target = "x",
         pc' = "check" => target \in {"mastodon", "x"},
         pc' \in {"check", "await"} => Sent.got = Item.size,
         pc' \in {"check", "await"} /\ target = "x" =>
           waited' <= Ceiling /\ Sent.phase # "open",
         pc' = "await" /\ info' # NoInfo /\ info'.state \in DoneStates =>
           Sent.phase = "ready",
         pc' = "append" => Sent.got = IF offset' < Item.size THEN offset' ELSE Item.size,
         info' \in Infos, offset' \in Nat, waited' \in Nat,
         \E w \in LongestWait : waited' \in 0..(Ceiling + w)
  PROVE  PostInv'
<1> DEFINE m == Len(ids) + 1
<1>1. /\ Len(ids) \in Nat /\ Len(Chosen) \in Nat /\ m \in Nat /\ m <= Len(Chosen)
      /\ DOMAIN ids = 1..Len(ids) /\ DOMAIN media' = 1..m /\ Len(media') = m
      /\ items[Sent.of] = Item /\ ids \in Seq(1..Len(media))
  BY SendingOne, TakenItems DEF Sending, PostInv
<1>2. ids' \in Seq(1..Len(media'))
  <2>1. \A i \in DOMAIN ids : ids[i] = i
    BY DEF PostInv, Places
  <2>2. \A i \in 1..Len(ids) : ids[i] \in 1..m
    BY <1>1, <2>1
  <2> QED BY SMTT(30), <2>2, <1>1
<1>3. NoneBefore'
  BY NoneBeforeKept DEF PostInv
<1>4. TypeOK' /\ Arguments' /\ ItemsOrdered' /\ Chosen' = Chosen
  BY <1>2, Fixed DEF Sending
<1>5. WaitsEnd' /\ CreatedOnce'
  BY DEF WaitsEnd, CreatedOnce, arguments
<1>6. Phases'
  <2>1. media'[Current'] = Sent
    BY <1>1 DEF Sent, Current
  <2> QED BY <2>1 DEF Phases, DoneStates, arguments
<1>7. Places'
  <2>1. \A i \in DOMAIN ids' : ids'[i] = i
    BY DEF PostInv, Places
  <2>2. \A k \in DOMAIN media' : k <= Len(Chosen') /\ media'[k].of = Chosen'[k]
    BY <1>4 DEF Sending
  <2>3. Len(ids') <= Len(media') /\ Len(media') = Len(ids') + 1
    BY <1>1
  <2> QED BY <2>1, <2>2, <2>3 DEF Places
<1>8. Uploads'
  <2>1. ASSUME NEW k \in DOMAIN ids'
        PROVE  Whole(k)' /\ (target' # "mastodon" => media'[k].phase = "ready")
    <3>1. media'[k] = media[k] /\ Whole(k) /\ (target # "mastodon" => media[k].phase = "ready")
      BY DEF Sending, PostInv, Uploads
    <3> QED BY <3>1 DEF Whole, arguments
  <2>2. media'[Current'] = Sent /\ Item' = Item
    BY <1>1, <1>4 DEF Sent, Current, Item
  <2>3. Whole(Current)' <=> Sent.got = Item.size
    BY <2>2, <1>1 DEF Whole
  <2> QED BY <2>1, <2>2, <2>3 DEF Uploads, MoreSegments
<1> QED BY <1>3, <1>4, <1>5, <1>6, <1>7, <1>8 DEF PostInv

(* Where an upload is on its way, the current medium is the current item.  *)
LEMMA OnItsWay ==
  ASSUME PostInv, pc \in {"append", "check", "await"}
  PROVE  /\ Current = Len(ids) + 1 /\ Current \in DOMAIN media /\ media # <<>>
         /\ media[Current] \in Medium /\ items[media[Current].of] = Item
         /\ Item.size \in Nat /\ created = <<>> /\ \A k \in DOMAIN ids : k # Current
         /\ DOMAIN ids \subseteq DOMAIN media
<1>1. /\ Current = Len(ids) + 1 /\ Len(ids) \in Nat /\ Len(media) = Len(ids) + 1
      /\ media \in Seq(Medium) /\ DOMAIN media = 1..Len(media) /\ DOMAIN ids = 1..Len(ids)
      /\ Chosen \in Seq(DOMAIN items) /\ items \in Seq(Taken)
  BY TakenItems, ChosenInOrder DEF PostInv, Places, Current
<1>2. Current \in DOMAIN media /\ media # <<>> /\ \A k \in DOMAIN ids : k # Current
  BY <1>1
<1>3. media[Current] \in Medium /\ media[Current].of = Chosen[Current]
  <2>1. media[Current].of = Chosen[Current]
    BY <1>2 DEF PostInv, Places
  <2> QED BY <2>1, <1>1, <1>2
<1>4. items[media[Current].of] = Item
  BY <1>1, <1>3 DEF Item
<1>5. items[media[Current].of] \in Taken
  BY <1>1, <1>3 DEF Medium
<1>6. Item.size \in Nat
  BY <1>4, <1>5, PostingAssumption DEF Taken
<1> QED BY <1>1, <1>2, <1>3, <1>4, <1>6 DEF PostInv, NoneBefore

LEMMA StillSending ==
  ASSUME PostInv, pc \in {"append", "check", "await"}, media' = media
  PROVE  Sending /\ Sent = media[Current]
  BY OnItsWay, TakenItems DEF PostInv, Places, Sending, Sent

LEMMA SendingMore ==
  ASSUME PostInv, pc \in {"append", "check", "await"},
         NEW new \in Medium, new.of = media[Current].of,
         media' = [media EXCEPT ![Current] = new]
  PROVE  Sending /\ Sent = new
<1>1. /\ media' \in Seq(Medium) /\ Len(media') = Len(media)
      /\ media'[Current] = new
      /\ \A k \in DOMAIN media : k # Current => media'[k] = media[k]
      /\ \A k \in DOMAIN media' : k <= Len(Chosen) /\ media'[k].of = Chosen[k]
  BY OnItsWay, Continued
<1>2. Len(media) = Len(ids) + 1
  BY DEF PostInv, Places
<1> QED BY <1>1, <1>2, OnItsWay DEF Sending, Sent

LEMMA SendingFirst ==
  ASSUME PostInv, pc = "upload", NEW got \in Nat, NEW phase \in Phase,
         media' = Append(media, [of |-> Chosen[Len(ids) + 1], got |-> got, phase |-> phase])
  PROVE  /\ Sending /\ Sent.got = got /\ Sent.phase = phase
         /\ Item.size \in Nat /\ created = <<>>
<1>1. DOMAIN ids \subseteq DOMAIN media
  BY TakenItems DEF PostInv, Places
<1>2. Sending /\ Sent.got = got /\ Sent.phase = phase
  BY <1>1, Begun DEF Sending, Sent
<1> QED BY <1>2, SendingOne DEF PostInv, NoneBefore

(* The size of the item an upload begins with.                             *)
LEMMA ItemSize ==
  ASSUME PostInv, pc = "upload"
  PROVE  Item.size \in Nat
<1>1. /\ Chosen \in Seq(DOMAIN items) /\ items \in Seq(Taken)
      /\ Len(ids) + 1 \in 1..Len(Chosen)
  BY TakenItems, ChosenInOrder DEF PostInv, Places
<1>2. items[Chosen[Len(ids) + 1]] \in Taken
  BY <1>1
<1> QED BY <1>2, PostingAssumption DEF Item, Taken

LEMMA UploadKeeps ==
  ASSUME PostInv, Upload
  PROVE  PostInv'
<1>1. /\ Sending /\ Sent.got = Item.size /\ Sent.phase = "ready"
      /\ Item.size \in Nat /\ created = <<>>
  BY ItemSize, SendingFirst DEF Upload, TakesWhole, Phase
<1>2. ids' = Append(ids, Len(ids) + 1) /\ Onward(ids')
  BY <1>1 DEF Upload, Uploaded, Sending
<1> QED BY <1>1, <1>2, UploadEnds
        DEF Upload, Keep, PostInv, Arguments, TypeOK, Next, Caller

LEMMA UploadToMastodonKeeps ==
  ASSUME PostInv, UploadToMastodon
  PROVE  PostInv'
<1>1. CASE TakesWhole("ready") /\ Uploaded(media') /\ UNCHANGED waited
  <2>1. /\ Sending /\ Sent.got = Item.size /\ Sent.phase = "ready"
        /\ Item.size \in Nat /\ created = <<>>
    BY <1>1, ItemSize, SendingFirst DEF UploadToMastodon, TakesWhole, Phase
  <2>2. ids' = Append(ids, Len(ids) + 1) /\ Onward(ids')
    BY <1>1, <2>1 DEF Uploaded, Sending
  <2> QED BY <1>1, <2>1, <2>2, UploadEnds
          DEF UploadToMastodon, Keep, PostInv, Arguments, TypeOK, Next, Caller
<1>2. CASE TakesWhole("processing") /\ pc' = "check" /\ waited' = 0 /\ UNCHANGED ids
  <2>1. /\ Sending /\ Sent.got = Item.size /\ Sent.phase = "processing"
        /\ Item.size \in Nat /\ created = <<>>
    BY <1>2, ItemSize, SendingFirst DEF UploadToMastodon, TakesWhole, Phase
  <2> QED BY <1>2, <2>1, UploadGoesOn, WaitRuns
          DEF UploadToMastodon, Keep, PostInv, Arguments, TypeOK, Next, Caller
<1> QED BY <1>1, <1>2 DEF UploadToMastodon

LEMMA CheckOnMastodonKeeps ==
  ASSUME PostInv, CheckOnMastodon
  PROVE  PostInv'
<1>1. /\ Sending /\ Sent = media[Current] /\ Sent.got = Item.size /\ created = <<>>
      /\ pc = "check" /\ target = "mastodon"
  BY StillSending, OnItsWay DEF CheckOnMastodon, Keep, PostInv, Uploads, Whole
<1>2. CASE Uploaded(media) /\ UNCHANGED waited
  <2>1. ids' = Append(ids, Len(ids) + 1) /\ Onward(ids')
    BY <1>1, <1>2 DEF Uploaded, PostInv, Places
  <2> QED BY <1>1, <1>2, <2>1, UploadEnds
          DEF CheckOnMastodon, Keep, PostInv, Arguments, TypeOK, Next, Caller
<1>3. CASE /\ media[Current].phase = "processing"
           /\ IF waited > Ceiling THEN GiveUp /\ UNCHANGED waited
              ELSE SleepThen(PollInterval, "check")
           /\ UNCHANGED ids
  <2>1. PollInterval \in LongestWait /\ waited \in Nat /\ Ceiling \in Nat
    BY WaitRuns, OneSleepMore, PostingAssumption DEF LongestWait, PostInv, TypeOK
  <2>2. /\ waited' \in Nat /\ \E w \in LongestWait : waited' \in 0..(Ceiling + w)
        /\ pc' \in {"check", "error"}
    <3>1. CASE waited' = waited /\ pc' = "error"
      BY <3>1, WaitRuns
    <3>2. CASE waited <= Ceiling /\ waited' = waited + PollInterval /\ pc' = "check"
      BY <3>2, <2>1, OneSleepMore
    <3> QED BY <1>3, <2>1, <3>1, <3>2 DEF GiveUp, SleepThen
  <2> QED BY <1>1, <1>3, <2>2, UploadGoesOn
          DEF CheckOnMastodon, Keep, PostInv, Arguments, TypeOK, Next, Caller
<1> QED BY <1>2, <1>3 DEF CheckOnMastodon

LEMMA InitUploadKeeps ==
  ASSUME PostInv, InitUpload
  PROVE  PostInv'
<1>1. Sending /\ Sent.got = 0 /\ Item.size \in Nat /\ created = <<>>
  BY SendingFirst DEF InitUpload, Phase
<1>2. waited' \in Nat /\ \E w \in LongestWait : waited' \in 0..(Ceiling + w)
  BY WaitRuns DEF InitUpload, Keep
<1>3. pc' = "append" /\ offset' = 0 /\ target = "x"
  BY DEF InitUpload, Chunked
<1>4. Sent.got = IF offset' < Item.size THEN offset' ELSE Item.size
  BY <1>1, <1>3
<1> QED BY <1>1, <1>2, <1>3, <1>4, UploadGoesOn
        DEF InitUpload, Keep, PostInv, Arguments, TypeOK, Next, Caller

(* X holds as much of the item as was sent in whole segments, and in the   *)
(* end all of it.                                                          *)
LEMMA AppendSegmentKeeps ==
  ASSUME PostInv, AppendSegment
  PROVE  PostInv'
<1> DEFINE more == IF offset + ChunkSize > Item.size THEN Item.size - offset ELSE ChunkSize
           new == [media[Current] EXCEPT !.got = @ + more]
<1>1. /\ Item.size \in Nat /\ created = <<>> /\ media[Current] \in Medium
      /\ offset \in Nat /\ ChunkSize \in Nat /\ pc = "append" /\ target = "x"
      /\ offset < Item.size /\ media[Current].got = offset
  BY OnItsWay, PostingAssumption
     DEF AppendSegment, PostInv, TypeOK, Uploads, MoreSegments, Phases
<1>2. /\ more \in Nat
      /\ offset + more = IF offset + ChunkSize < Item.size
                         THEN offset + ChunkSize ELSE Item.size
  BY <1>1
<1>3. /\ new \in Medium /\ new.of = media[Current].of
      /\ new.got = IF offset + ChunkSize < Item.size THEN offset + ChunkSize ELSE Item.size
  <2> HIDE DEF more
  <2> QED BY <1>1, <1>2 DEF Medium
<1>4. media' = [media EXCEPT ![Current] = new]
  BY DEF AppendSegment
<1>5. Sending /\ Sent = new
  <2> HIDE DEF new
  <2> QED BY <1>1, <1>3, <1>4, SendingMore
<1>6. waited' \in Nat /\ \E w \in LongestWait : waited' \in 0..(Ceiling + w)
  BY WaitRuns DEF AppendSegment, Keep
<1>7. pc' = "append" /\ offset' = offset + ChunkSize /\ offset' \in Nat
  BY <1>1 DEF AppendSegment, Keep
<1>8. Sent.got = IF offset' < Item.size THEN offset' ELSE Item.size
  BY <1>3, <1>5, <1>7
<1> HIDE DEF new, more
<1> QED BY <1>1, <1>5, <1>6, <1>7, <1>8, UploadGoesOn
        DEF AppendSegment, Keep, PostInv, Arguments, TypeOK, Next, Caller

(* What X reports, and when what it reports means that media are ready.    *)
LEMMA Reported ==
  ASSUME NEW phase \in Phase, phase # "open", NEW report \in Reports(phase)
  PROVE  /\ report \in Infos
         /\ report = NoInfo \/ report.state \in DoneStates => phase = "ready"
<1>0. 0 \in Nat /\ CheckAfters \subseteq Nat
  BY PostingAssumption
<1>1. CASE phase = "processing"
  <2>1. report \in {[state |-> "in_progress", after |-> s] : s \in CheckAfters}
    BY <1>1 DEF Reports
  <2>2. PICK s \in CheckAfters : report = [state |-> "in_progress", after |-> s]
    BY <2>1
  <2>3. /\ report \in ProcessingInfo /\ report.after \in CheckAfters
        /\ report.state \notin DoneStates
    BY <2>2, <1>0 DEF ProcessingInfo, DoneStates
  <2> QED BY <2>3, NoInfoAssumption DEF Infos
<1>2. CASE phase = "failed"
  <2>1. report = [state |-> "failed", after |-> 0]
    BY <1>2 DEF Reports
  <2>2. /\ report \in ProcessingInfo /\ report.after = 0
        /\ report.state \notin DoneStates
    BY <2>1, <1>0 DEF ProcessingInfo, DoneStates
  <2> QED BY <2>2, NoInfoAssumption DEF Infos
<1>3. CASE phase = "ready"
  <2>1. report \in {NoInfo} \cup {[state |-> s, after |-> 0] : s \in {"", "succeeded"}}
    BY <1>3 DEF Reports
  <2>2. CASE report = NoInfo
    BY <2>2, <1>3 DEF Infos
  <2>3. CASE report # NoInfo
    <3>1. PICK s \in {"", "succeeded"} : report = [state |-> s, after |-> 0]
      BY <2>1, <2>3
    <3>2. report \in ProcessingInfo /\ report.after = 0
      BY <3>1, <1>0 DEF ProcessingInfo
    <3> QED BY <3>2, <1>3 DEF Infos
  <2> QED BY <2>2, <2>3
<1> QED BY <1>1, <1>2, <1>3 DEF Phase

LEMMA FinalizeKeeps ==
  ASSUME PostInv, Finalize
  PROVE  PostInv'
<1>1. PICK phase \in {"ready", "processing"} : media' = [media EXCEPT ![Current].phase = phase]
  BY DEF Finalize
<1> DEFINE new == [media[Current] EXCEPT !.phase = phase]
<1>2. /\ Item.size \in Nat /\ created = <<>> /\ media[Current] \in Medium
      /\ Current = Len(ids) + 1 /\ pc = "append" /\ target = "x"
      /\ media[Current].got = Item.size /\ phase \in Phase /\ phase # "open"
  BY OnItsWay DEF Finalize, PostInv, Uploads, Phases, Phase
<1>3. /\ new \in Medium /\ new.of = media[Current].of
      /\ new.got = Item.size /\ new.phase = phase
  BY <1>2 DEF Medium
<1>4. Sending /\ Sent = new
  <2>1. media' = [media EXCEPT ![Current] = new]
    BY <1>1
  <2> HIDE DEF new
  <2> QED BY <1>2, <1>3, <2>1, SendingMore
<1>5. Sent.got = Item.size /\ Sent.phase = phase
  BY <1>3, <1>4
<1>6. info' \in Reports(phase)
  <2>1. media'[Current].phase = phase
    BY <1>2, <1>5 DEF Sent
  <2> QED BY <2>1 DEF Finalize
<1>7. /\ info' \in Infos
      /\ info' = NoInfo \/ info'.state \in DoneStates => phase = "ready"
  BY <1>2, <1>6, Reported
<1>8. /\ waited' = 0 /\ waited' \in Nat /\ waited' <= Ceiling
      /\ \E w \in LongestWait : waited' \in 0..(Ceiling + w)
  BY WaitRuns, PostingAssumption DEF Finalize
<1>9. CASE info' = NoInfo
  <2>1. ids' = Append(ids, Len(ids) + 1) /\ Onward(ids')
    BY <1>2, <1>9 DEF Finalize, Uploaded, Current
  <2> HIDE DEF new
  <2> QED BY <1>2, <1>4, <1>5, <1>7, <1>8, <1>9, <2>1, UploadEnds
          DEF Finalize, Keep, PostInv, TypeOK, Next, Caller
<1>10. CASE info' # NoInfo
  <2>1. pc' = "await" /\ UNCHANGED ids
    BY <1>10 DEF Finalize
  <2> HIDE DEF new
  <2> QED BY <1>2, <1>4, <1>5, <1>7, <1>8, <1>10, <2>1, UploadGoesOn
          DEF Finalize, Keep, PostInv, TypeOK, Next, Caller
<1> QED BY <1>9, <1>10

LEMMA AwaitProcessingKeeps ==
  ASSUME PostInv, AwaitProcessing
  PROVE  PostInv'
<1>1. /\ Sending /\ Sent = media[Current] /\ Sent.got = Item.size /\ created = <<>>
      /\ pc = "await" /\ target = "x" /\ Sent.phase # "open"
      /\ info.state \in DoneStates => Sent.phase = "ready"
  BY StillSending, OnItsWay
     DEF AwaitProcessing, Keep, PostInv, Uploads, Whole, Phases
<1>2. /\ info \in Infos /\ info' = info /\ offset' \in Nat /\ cancelled' \in BOOLEAN
      /\ UNCHANGED <<arguments, taken, items, created>>
  BY DEF AwaitProcessing, Keep, PostInv, Arguments, TypeOK
<1>3. Wait \in LongestWait /\ waited <= Ceiling /\ waited \in Nat /\ Ceiling \in Nat
  <2>1. info \in ProcessingInfo /\ info.after \in CheckAfters \cup {0}
    BY <1>2 DEF AwaitProcessing, Infos
  <2>2. info.after \in Nat
    BY <2>1 DEF ProcessingInfo
  <2>3. Wait \in LongestWait
    BY <2>1, <2>2 DEF Wait, LongestWait
  <2>4. waited <= Ceiling
    BY <1>1 DEF PostInv, WaitsEnd
  <2>5. waited \in Nat /\ Ceiling \in Nat
    BY WaitRuns, PostingAssumption, LongestWait \subseteq Nat
       DEF PostInv, TypeOK, LongestWait
  <2> QED BY <2>3, <2>4, <2>5
<1>4. CASE info.state \in DoneStates /\ Uploaded(media) /\ UNCHANGED waited
  <2>1. ids' = Append(ids, Len(ids) + 1) /\ Onward(ids')
    BY <1>1, <1>4 DEF Uploaded, PostInv, Places
  <2> QED BY <1>1, <1>2, <1>4, <2>1, UploadEnds DEF Next, Caller
<1>5. CASE /\ info.state \notin DoneStates
           /\ IF info.state = "failed" THEN GiveUp /\ UNCHANGED waited
              ELSE SleepThen(Wait, IF WithinCeiling(waited + Wait) THEN "check" ELSE "error")
           /\ UNCHANGED ids
  <2>1. /\ waited' \in Nat /\ \E w \in LongestWait : waited' \in 0..(Ceiling + w)
        /\ pc' \in {"check", "error"} /\ (pc' = "check" => waited' <= Ceiling)
    <3>1. CASE waited' = waited /\ pc' = "error"
      BY <3>1, WaitRuns
    <3>2. CASE /\ waited' = waited + Wait
               /\ pc' = IF WithinCeiling(waited + Wait) THEN "check" ELSE "error"
      <4> HIDE DEF Wait
      <4> QED BY <3>2, <1>3, OneSleepMore DEF WithinCeiling
    <3> QED BY <1>5, <3>1, <3>2 DEF GiveUp, SleepThen
  <2> QED BY <1>1, <1>2, <1>5, <2>1, UploadGoesOn DEF Next, Caller
<1> QED BY <1>4, <1>5 DEF AwaitProcessing

LEMMA CheckStatusKeeps ==
  ASSUME PostInv, CheckStatus
  PROVE  PostInv'
<1>1. /\ Sending /\ Sent = media[Current] /\ Sent.got = Item.size /\ created = <<>>
      /\ pc = "check" /\ target = "x" /\ Sent.phase # "open" /\ waited <= Ceiling
      /\ Sent.phase \in Phase
  BY StillSending, OnItsWay
     DEF CheckStatus, Keep, PostInv, Uploads, Whole, Phases, WaitsEnd, Medium
<1>2. /\ info' \in Infos
      /\ info' = NoInfo \/ info'.state \in DoneStates => Sent.phase = "ready"
  BY <1>1, Reported DEF CheckStatus
<1>3. waited' \in Nat /\ \E w \in LongestWait : waited' \in 0..(Ceiling + w)
  BY WaitRuns DEF CheckStatus, Keep
<1> QED BY <1>1, <1>2, <1>3, UploadGoesOn
        DEF CheckStatus, Keep, PostInv, TypeOK, Next, Caller

(* The post shows what was uploaded: on Mastodon the platform sees to it   *)
(* that all of it is ready, on the others the adapter.                     *)
LEMMA CreateStatusKeeps ==
  ASSUME PostInv, CreateStatus
  PROVE  PostInv'
<1>1. /\ pc = "status" /\ pc' = "answering" /\ created = <<>>
      /\ created' = Append(created, ids)
      /\ UNCHANGED <<arguments, taken, items, uploads, cancelled>>
  BY DEF CreateStatus, Keep, PostInv, NoneBefore
<1>2. Chosen' = Chosen /\ TypeOK' /\ Arguments' /\ ItemsOrdered'
  BY <1>1, Fixed, TakenItems, WaitRuns DEF PostInv, TypeOK, Arguments, uploads
<1>3. NoneBefore' /\ WaitsEnd' /\ Phases'
  BY <1>1 DEF NoneBefore, WaitsEnd, Phases
<1>4. Places'
  BY <1>1, <1>2 DEF PostInv, Places, uploads
<1>5. Uploads'
  <2>1. \A k \in DOMAIN ids' : Whole(k)' = Whole(k)
    BY <1>1 DEF Whole, uploads
  <2> QED BY <1>1, <2>1 DEF PostInv, Uploads, uploads, arguments
<1>6. CreatedOnce'
  <2>1. created' = <<ids>>
    BY <1>1
  <2>2. Len(ids) = Len(Chosen) /\ Len(media) = Len(ids) /\ DOMAIN media = DOMAIN ids
    BY <1>1, TakenItems DEF PostInv, Places
  <2>3. \A k \in DOMAIN ids : media[k].phase = "ready"
    <3>1. CASE target = "mastodon"
      <4>1. \A i \in DOMAIN ids : media[ids[i]].phase = "ready"
        BY <3>1 DEF CreateStatus
      <4> QED BY <4>1 DEF PostInv, Places
    <3>2. CASE target # "mastodon"
      BY <3>2 DEF PostInv, Uploads
    <3> QED BY <3>1, <3>2
  <2> QED BY <1>1, <1>2, <2>1, <2>2, <2>3 DEF CreatedOnce, uploads
<1> QED BY <1>2, <1>3, <1>4, <1>5, <1>6 DEF PostInv

(* What a platform makes of media changes nothing that is relied on: only  *)
(* media it still works on change, and none of those is shown.             *)
LEMMA ProcessKeeps ==
  ASSUME PostInv, NEW outcome \in {"ready", "failed"}, Process(outcome)
  PROVE  PostInv'
<1> DEFINE new == [media[Current] EXCEPT !.phase = outcome]
<1>1. /\ media # <<>> /\ media[Current].phase = "processing"
      /\ UNCHANGED <<arguments, taken, items, pc, ids, offset, info, waited, created, cancelled>>
  BY DEF Process, Keep
<1>2. Current \in DOMAIN media /\ media[Current] \in Medium /\ Len(media) \in Nat
      /\ DOMAIN ids = 1..Len(ids) /\ DOMAIN media = 1..Len(media) /\ Len(ids) \in Nat
  BY <1>1, TakenItems DEF PostInv, Current
<1>3a. \A k \in DOMAIN ids : k \in DOMAIN media
  <2>1. Len(ids) <= Len(media)
    BY DEF PostInv, Places
  <2> QED BY <1>2, <2>1
<1>3. /\ new \in Medium /\ new.of = media[Current].of
      /\ new.got = media[Current].got /\ new.phase = outcome
  BY <1>2 DEF Medium, Phase
<1>4. /\ media' \in Seq(Medium) /\ Len(media') = Len(media)
      /\ media'[Current] = new
      /\ \A k \in DOMAIN media : k # Current => media'[k] = media[k]
      /\ \A k \in DOMAIN media' : k <= Len(Chosen) /\ media'[k].of = Chosen[k]
  <2>1. media' = [media EXCEPT ![Current] = new]
    BY DEF Process
  <2> HIDE DEF new
  <2> QED BY <1>1, <1>3, <2>1, Continued
<1>5. TypeOK' /\ Arguments' /\ ItemsOrdered' /\ Chosen' = Chosen
  BY <1>1, <1>4, Fixed, TakenItems, WaitRuns DEF PostInv, TypeOK, Arguments
<1>6. created = <<>>
  BY <1>1, <1>2 DEF PostInv, CreatedOnce
<1>7. WaitsEnd' /\ NoneBefore' /\ CreatedOnce'
  BY <1>1, <1>6 DEF PostInv, WaitsEnd, NoneBefore, CreatedOnce, arguments
<1>8. Current' = Current /\ media'[Current'].phase = outcome /\ DOMAIN media' = DOMAIN media
  BY <1>2, <1>3, <1>4 DEF Current
<1>9. Phases'
  <2>1. pc = "prepare" => FALSE
    BY <1>1 DEF PostInv, Phases
  <2>2. pc = "await" /\ info # NoInfo /\ info.state \in DoneStates => FALSE
    BY <1>1 DEF PostInv, Phases
  <2> QED BY <1>1, <1>8, <2>1, <2>2 DEF PostInv, Phases, arguments, DoneStates
<1>10. Places'
  BY <1>1, <1>4, <1>5 DEF PostInv, Places
<1>11. Uploads'
  <2>1. \A k \in DOMAIN media : media'[k].got = media[k].got /\ media'[k].of = media[k].of
    <3> HIDE DEF new
    <3> QED BY <1>3, <1>4
  <2>2. \A k \in DOMAIN media : Whole(k)' = Whole(k)
    BY <1>1, <2>1 DEF Whole
  <2>3. ASSUME NEW k \in DOMAIN ids, target # "mastodon"
        PROVE  media'[k].phase = "ready"
    <3>1. media[k].phase = "ready" /\ k \in DOMAIN media
      BY <1>3a, <2>3 DEF PostInv, Uploads
    <3> QED BY <1>1, <1>4, <3>1
  <2>4. Item' = Item
    BY <1>1, <1>5 DEF Item
  <2>6. \A k \in DOMAIN ids : Whole(k)
    BY DEF PostInv, Uploads
  <2>7. \A k \in DOMAIN ids' : Whole(k)' /\ (target' # "mastodon" => media'[k].phase = "ready")
    BY <1>1, <1>3a, <2>2, <2>3, <2>6 DEF arguments
  <2>8. pc' \in {"check", "await"} => Whole(Current)'
    <3>1. Whole(Current)' = (media'[Current].got = items'[media'[Current].of].size)
      BY <1>8 DEF Whole
    <3> QED BY <3>1, <1>1, <1>2, <2>1 DEF PostInv, Uploads, Whole
  <2>9. pc' = "append" =>
          media'[Current'].got = IF MoreSegments' THEN offset' ELSE Item'.size
    BY <1>1, <1>2, <1>8, <2>1, <2>4 DEF PostInv, Uploads, MoreSegments
  <2> QED BY <2>7, <2>8, <2>9 DEF Uploads
<1> QED BY <1>5, <1>7, <1>9, <1>10, <1>11 DEF PostInv

LEMMA PostInvariance == Spec => []PostInv
<1>1. Init => PostInv
  <2> SUFFICES ASSUME Init PROVE PostInv
    OBVIOUS
  <2>1. /\ LongestWait \subseteq Nat /\ DefaultWait \in LongestWait /\ Ceiling \in Nat
        /\ attached \in Seq(Attachments)
    BY PostingAssumption DEF LongestWait, Init
  <2>2. /\ Len(items) = 0 /\ Len(ids) = 0 /\ Len(media) = 0
        /\ DOMAIN items = {} /\ DOMAIN ids = {} /\ DOMAIN media = {}
    BY DEF Init
  <2>3. TypeOK
    <3>1. waited \in 0..(Ceiling + DefaultWait)
      BY <2>1 DEF Init
    <3>2. taken \in 0..Len(attached) /\ offset \in Nat
      <4>1. Len(attached) \in Nat
        BY <2>1
      <4> QED BY <4>1 DEF Init
    <3>3. /\ items \in Seq([from : 1..taken, kind : {"image", "video"}, size : Sizes])
          /\ ids \in Seq(1..Len(media))
          /\ media \in Seq([of : DOMAIN items, got : Nat,
                            phase : {"open", "processing", "ready", "failed"}])
      BY DEF Init
    <3>4. cancelled \in BOOLEAN
      BY DEF Init
    <3> QED BY <2>1, <3>1, <3>2, <3>3, <3>4 DEF TypeOK, Init
  <2>4. Arguments /\ ItemsOrdered /\ WaitsEnd /\ Phases
    BY <2>2 DEF Init, Arguments, Infos, ItemsOrdered, Videos, WaitsEnd, Phases
  <2>5. Places /\ Uploads /\ NoneBefore /\ CreatedOnce
    BY <2>2 DEF Init, Places, Uploads, NoneBefore, CreatedOnce
  <2> QED BY <2>3, <2>4, <2>5 DEF PostInv
<1>2. PostInv /\ [Next]_vars => PostInv'
  <2> SUFFICES ASSUME PostInv, [Next]_vars PROVE PostInv'
    OBVIOUS
  <2>1. CASE Prepare  BY <2>1, PrepareKeeps
  <2>2. CASE Begin
    BY <2>2, BetweenUploadsKeeps
       DEF Begin, Keep, GiveUp, uploads, PostInv, TypeOK
  <2>3. CASE ResolveRef
    BY <2>3, BetweenUploadsKeeps DEF ResolveRef, Keep, uploads, PostInv, TypeOK
  <2>4. CASE RequestFails
    BY <2>4, BetweenUploadsKeeps DEF RequestFails, Keep, GiveUp, uploads, PostInv, TypeOK
  <2>5. CASE Upload  BY <2>5, UploadKeeps
  <2>6. CASE UploadToMastodon  BY <2>6, UploadToMastodonKeeps
  <2>7. CASE CheckOnMastodon  BY <2>7, CheckOnMastodonKeeps
  <2>8. CASE InitUpload  BY <2>8, InitUploadKeeps
  <2>9. CASE AppendSegment  BY <2>9, AppendSegmentKeeps
  <2>10. CASE Finalize  BY <2>10, FinalizeKeeps
  <2>11. CASE AwaitProcessing  BY <2>11, AwaitProcessingKeeps
  <2>12. CASE DereferenceNil
    BY <2>12, BetweenUploadsKeeps DEF DereferenceNil, Keep, uploads, PostInv, TypeOK
  <2>13. CASE CheckStatus  BY <2>13, CheckStatusKeeps
  <2>14. CASE CreateStatus  BY <2>14, CreateStatusKeeps
  <2>15. CASE ReturnID
    BY <2>15, BetweenUploadsKeeps DEF ReturnID, Keep, uploads, PostInv, TypeOK
  <2>16. CASE NoAnswer
    BY <2>16, BetweenUploadsKeeps DEF NoAnswer, GiveUp, Keep, uploads, PostInv, TypeOK
  <2>17. CASE Cancel
    BY <2>17, BetweenUploadsKeeps DEF Cancel, Keep, uploads, PostInv, TypeOK
  <2>18. CASE \E outcome \in {"ready", "failed"} : Process(outcome)
    BY <2>18, ProcessKeeps
  <2>19. CASE UNCHANGED vars
    BY <2>19, BetweenUploadsKeeps DEF vars, uploads, PostInv, TypeOK
  <2> QED BY <2>1, <2>2, <2>3, <2>4, <2>5, <2>6, <2>7, <2>8, <2>9, <2>10, <2>11,
             <2>12, <2>13, <2>14, <2>15, <2>16, <2>17, <2>18, <2>19 DEF Next, Caller
<1> QED BY <1>1, <1>2, PTL DEF Spec

(* Types; and however often a platform reports that it is not done, and    *)
(* whatever wait it suggests, no wait exceeds its deadline by more than    *)
(* one sleep (awaitMedia of mastodon.go, awaitProcessing of upload.go).    *)
THEOREM WaitsAreBounded == Spec => []TypeOK
  BY PostInvariance, PTL DEF PostInv

(* A post shows no media that was sent in part, is still processed or      *)
(* could not be, whatever the size of a segment (uploadChunked) and        *)
(* whichever requests fail or answers come late.                           *)
THEOREM OnlyWholeMedia == Spec => []MediaWhole
<1>1. PostInv => MediaWhole  BY CreatedIsWhole
<1> QED BY <1>1, PostInvariance, PTL

(* A post carries what could be prepared of the attachments, in the order  *)
(* of the user's, cut only where the platform has no room (prepareMedia of *)
(* engine.go, buildEmbed of bluesky.go, uploadMedia of twitter).           *)
THEOREM AllAttached == Spec => []AttachmentsKept
<1>1. PostInv => AttachmentsKept  BY CreatedHasAll
<1> QED BY <1>1, PostInvariance, PTL
=============================================================================
