------------------------------- MODULE Posting ------------------------------
(***************************************************************************)
(* One copy from the attachments of the original to the answer of the      *)
(* target: prepareMedia of internal/feed/engine.go, then one call of       *)
(* target.Post in the adapters of Mastodon, Bluesky and X, request by      *)
(* request, with uploads in parts and the wait for media that a platform   *)
(* still works on.  Any request may fail, all fail once the context is     *)
(* cancelled, and a platform may work on media for ever.                   *)
(*                                                                         *)
(* Time passes in platform.Sleep only.  Left out: descriptions of images   *)
(* (an error there is only logged), text, facets, aspect ratios.           *)
(***************************************************************************)
EXTENDS Naturals, Sequences

CONSTANTS
  AttachmentLists,  \* what an original may carry
  Sizes,            \* of prepared media, in bytes
  ChunkSize,        \* uploadChunkSize
  MaxMedia,         \* maxMediaPerTweet and maxImages
  Ceiling,          \* processingPollCeiling, and awaitMedia's deadline
  CheckAfters,      \* check_after_secs that X may suggest
  DefaultWait,      \* defaultProcessingCheckAfter
  PollInterval,     \* mediaPollInterval
  NoInfo            \* a result without processing_info

Attachments == [kind : {"image", "video", "gif", "audio"}, url : BOOLEAN, poster : BOOLEAN]

ASSUME PostingAssumption ==
  /\ AttachmentLists \subseteq Seq(Attachments)
  /\ Sizes \subseteq Nat /\ CheckAfters \subseteq Nat
  /\ {ChunkSize, MaxMedia, DefaultWait, PollInterval} \subseteq Nat \ {0}
  /\ Ceiling \in Nat

(* result.ProcessingInfo; without it the pointer is nil.                   *)
ProcessingInfo == [state : {"in_progress", "failed", "", "succeeded"}, after : Nat]

ASSUME NoInfoAssumption == NoInfo \notin ProcessingInfo

VARIABLES
  target,      \* the platform posted to
  video,       \* limits.Video of the target
  isReply,     \* out.IsReply with a ParentTargetID
  attached,    \* post.Media
  taken,       \* how many of them prepareMedia has gone through
  items,       \* the prepared attachments, each with the place it came from
  pc,          \* where the call is; "ok", "error", "dead" when it is over
  ids,         \* identifiers of what was uploaded, places in media
  media,       \* the platform's side of the uploads
  offset,      \* of uploadChunked
  info,        \* result.ProcessingInfo
  waited,      \* time since the deadline was set
  created,     \* the posts the platform created
  cancelled    \* the context

arguments == <<target, video, isReply, attached>>
uploads   == <<ids, media, offset, info, waited>>
vars      == <<arguments, taken, items, pc, uploads, created, cancelled>>

Over == pc \in {"ok", "error", "dead"}

(***************************************************************************)
(* Preparing attachments.                                                  *)
(***************************************************************************)
(* What prepareAttachment can make of an attachment: itself, its poster    *)
(* frame, or nothing, which drops it.                                      *)
PosterOf(a) == IF a.poster THEN {"image", "nothing"} ELSE {"nothing"}

VideoOf(a) == IF video /\ a.url
              THEN {"video", "nothing"} \cup PosterOf(a) ELSE PosterOf(a)

PreparedAs(a) ==
  CASE a.kind = "image" -> IF a.url THEN {"image", "nothing"} ELSE {"nothing"}
    [] a.kind \in {"video", "gif"} -> VideoOf(a)
    [] OTHER -> {"nothing"}

(* One round of prepareMedia; nothing can be fetched once it is cancelled. *)
Prepare ==
  /\ pc = "prepare" /\ taken < Len(attached) /\ taken' = taken + 1
  /\ \E as \in PreparedAs(attached[taken']), size \in Sizes :
       /\ cancelled => as = "nothing"
       /\ items' = IF as = "nothing" THEN items
                   ELSE Append(items, [from |-> taken', kind |-> as, size |-> size])
  /\ UNCHANGED <<arguments, pc, uploads, created, cancelled>>

(***************************************************************************)
(* What is uploaded: places in items.                                      *)
(***************************************************************************)
Offered == [i \in DOMAIN items |-> i]
FirstOf(n, s) == SubSeq(s, 1, IF n < Len(s) THEN n ELSE Len(s))
Videos == {i \in DOMAIN items : items[i].kind = "video"}
FirstVideo == CHOOSE i \in Videos : \A j \in Videos : i <= j

(* Mutated form: Bluesky's images are not capped.                          *)
ChosenUncapped ==
  CASE target = "mastodon" -> Offered
    [] target = "x" -> FirstOf(MaxMedia, Offered)
    [] target = "bluesky" -> IF Videos # {} THEN <<FirstVideo>> ELSE Offered

(* On Bluesky the first video wins over all images; what is prepared is    *)
(* one or the other, so without a video all of it are images.              *)
Chosen ==
  CASE target = "mastodon" -> Offered
    [] target = "x" -> FirstOf(MaxMedia, Offered)
    [] target = "bluesky" -> IF Videos # {} THEN <<FirstVideo>>
                             ELSE FirstOf(MaxMedia, Offered)

Item == items[Chosen[Len(ids) + 1]]
Chunked == target = "x" /\ Item.kind # "image"
Current == Len(media)

(***************************************************************************)
(* Shared steps.                                                           *)
(***************************************************************************)
Keep(rest) == UNCHANGED <<arguments, taken, items, rest>>

(* To the next upload, or with all of them done to the post itself.        *)
Onward(uploaded) ==
  pc' = IF Len(uploaded) = Len(Chosen) THEN "status" ELSE "upload"

(* The current upload is done and its identifier kept.                     *)
Uploaded(m) == ids' = Append(ids, Len(m)) /\ Onward(ids')

GiveUp == pc' = "error"

(* A platform takes all of an item in one request.                         *)
TakesWhole(phase) ==
  media' = Append(media, [of |-> Chosen[Len(ids) + 1], got |-> Item.size,
                          phase |-> phase])

(* platform.Sleep, then go on at pc = next.                                *)
SleepThen(wait, next) ==
  IF cancelled THEN GiveUp /\ UNCHANGED waited
  ELSE waited' = waited + wait /\ pc' = next

(***************************************************************************)
(* A call of target.Post.                                                  *)
(***************************************************************************)
(* Retry looks at the context first; Bluesky resolves a parent first.      *)
Begin ==
  /\ pc = "prepare" /\ taken = Len(attached)
  /\ IF cancelled THEN GiveUp
     ELSE IF target = "bluesky" /\ isReply THEN pc' = "parent" ELSE Onward(ids)
  /\ Keep(<<uploads, created, cancelled>>)

ResolveRef ==
  /\ pc = "parent" /\ ~cancelled /\ Onward(ids)
  /\ Keep(<<uploads, created, cancelled>>)

(* Any request but Mastodon's question about media: an error ends the call.*)
RequestFails ==
  /\ \/ pc \in {"parent", "upload", "append", "status"}
     \/ pc = "check" /\ target = "x"
  /\ GiveUp /\ Keep(<<uploads, created, cancelled>>)

(* uploadSimple and uploadBlob.                                            *)
Upload ==
  /\ pc = "upload" /\ target # "mastodon" /\ ~Chunked /\ ~cancelled
  /\ TakesWhole("ready") /\ Uploaded(media')
  /\ Keep(<<offset, info, waited, created, cancelled>>)

(* UploadMedia: an answer without a URL means that it is still processed.  *)
UploadToMastodon ==
  /\ pc = "upload" /\ target = "mastodon" /\ ~cancelled
  /\ \/ TakesWhole("ready") /\ Uploaded(media') /\ UNCHANGED waited
     \/ TakesWhole("processing") /\ pc' = "check" /\ waited' = 0 /\ UNCHANGED ids
  /\ Keep(<<offset, info, created, cancelled>>)

(* awaitMedia, one turn: only 206 means wait, and any other answer or an   *)
(* error leaves the question to the request that posts the status.  When   *)
(* cancelled, the request has failed, or it has not and the wait is cut.   *)
CheckOnMastodon ==
  /\ pc = "check" /\ target = "mastodon"
  /\ \/ Uploaded(media) /\ UNCHANGED waited
     \/ /\ media[Current].phase = "processing"
        /\ IF waited > Ceiling THEN GiveUp /\ UNCHANGED waited
           ELSE SleepThen(PollInterval, "check")
        /\ UNCHANGED ids
  /\ Keep(<<media, offset, info, created, cancelled>>)

(* uploadChunked: INIT, then the segments, then FINALIZE.                  *)
InitUpload ==
  /\ pc = "upload" /\ Chunked /\ ~cancelled
  /\ media' = Append(media, [of |-> Chosen[Len(ids) + 1], got |-> 0,
                             phase |-> "open"])
  /\ offset' = 0 /\ pc' = "append"
  /\ Keep(<<ids, info, waited, created, cancelled>>)

(* Mutated form: a last segment shorter than the others is not sent.       *)
MoreFullSegments == offset + ChunkSize <= Item.size

MoreSegments == offset < Item.size

AppendSegment ==
  /\ pc = "append" /\ MoreSegments /\ ~cancelled
  /\ media' = [media EXCEPT ![Current].got =
                 @ + IF offset + ChunkSize > Item.size
                     THEN Item.size - offset ELSE ChunkSize]
  /\ offset' = offset + ChunkSize
  /\ Keep(<<pc, ids, info, waited, created, cancelled>>)

(* What X reports of media in a phase; media that needs no processing may  *)
(* come without processing_info.                                           *)
Reports(phase) ==
  CASE phase = "processing" -> {[state |-> "in_progress", after |-> s] : s \in CheckAfters}
    [] phase = "failed" -> {[state |-> "failed", after |-> 0]}
    [] OTHER -> {NoInfo} \cup {[state |-> s, after |-> 0] : s \in {"", "succeeded"}}

(* awaitProcessing returns at once on a result without processing_info.    *)
Finalize ==
  /\ pc = "append" /\ ~MoreSegments /\ ~cancelled
  /\ \E phase \in {"ready", "processing"} :
       media' = [media EXCEPT ![Current].phase = phase]
  /\ info' \in Reports(media'[Current].phase)
  /\ waited' = 0
  /\ IF info' = NoInfo THEN Uploaded(media) ELSE pc' = "await" /\ UNCHANGED ids
  /\ Keep(<<offset, created, cancelled>>)

(* Mutated forms: nothing waits when X suggests no time; the deadline is   *)
(* not looked at.                                                          *)
SuggestedWait == info.after
WithinCeilingAlways(t) == t >= 0

Wait == IF info.after <= 0 THEN DefaultWait ELSE info.after
WithinCeiling(t) == t <= Ceiling
DoneStates == {"", "succeeded"}

(* awaitProcessing, from the switch on the state to the deadline.          *)
AwaitProcessing ==
  /\ pc = "await" /\ info # NoInfo
  /\ \/ info.state \in DoneStates /\ Uploaded(media) /\ UNCHANGED waited
     \/ /\ info.state \notin DoneStates
        /\ IF info.state = "failed" THEN GiveUp /\ UNCHANGED waited
           ELSE SleepThen(Wait, IF WithinCeiling(waited + Wait) THEN "check" ELSE "error")
        /\ UNCHANGED ids
  /\ Keep(<<media, offset, info, created, cancelled>>)

(* result.ProcessingInfo.State of a STATUS answer without processing_info: *)
(* a nil pointer, and the process ends.                                    *)
DereferenceNil ==
  /\ pc = "await" /\ info = NoInfo /\ pc' = "dead"
  /\ Keep(<<uploads, created, cancelled>>)

CheckStatus ==
  /\ pc = "check" /\ target = "x" /\ ~cancelled
  /\ info' \in Reports(media[Current].phase) /\ pc' = "await"
  /\ Keep(<<ids, media, offset, waited, created, cancelled>>)

(* PostStatus, CreateTweet, RepoCreateRecord.  Mastodon takes no status    *)
(* with media it is not done with.                                         *)
CreateStatus ==
  /\ pc = "status" /\ ~cancelled
  /\ target = "mastodon" => \A i \in DOMAIN ids : media[ids[i]].phase = "ready"
  /\ created' = Append(created, ids) /\ pc' = "answering"
  /\ Keep(<<uploads, cancelled>>)

ReturnID == /\ pc = "answering" /\ pc' = "ok"
            /\ Keep(<<uploads, created, cancelled>>)

(* Mutated form: the request is repeated.                                  *)
RepeatRequest == /\ pc = "answering" /\ pc' = "status"
                 /\ Keep(<<uploads, created, cancelled>>)

(* The answer is lost, or X names no identifier in it.                     *)
NoAnswer == /\ pc = "answering" /\ GiveUp
            /\ Keep(<<uploads, created, cancelled>>)

(***************************************************************************)
(* The surroundings.                                                       *)
(***************************************************************************)
Process(outcome) ==
  /\ media # <<>> /\ media[Current].phase = "processing"
  /\ media' = [media EXCEPT ![Current].phase = outcome]
  /\ Keep(<<pc, ids, offset, info, waited, created, cancelled>>)

Cancel == /\ ~cancelled /\ ~Over /\ cancelled' = TRUE
          /\ Keep(<<pc, uploads, created>>)

Init ==
  /\ target \in {"mastodon", "bluesky", "x"}
  /\ video \in BOOLEAN /\ isReply \in BOOLEAN /\ attached \in AttachmentLists
  /\ taken = 0 /\ items = <<>> /\ pc = "prepare"
  /\ ids = <<>> /\ media = <<>> /\ offset = 0 /\ info = NoInfo /\ waited = 0
  /\ created = <<>> /\ cancelled = FALSE

Caller == \/ Prepare \/ Begin \/ ResolveRef \/ RequestFails
          \/ Upload \/ UploadToMastodon \/ CheckOnMastodon
          \/ InitUpload \/ AppendSegment \/ Finalize
          \/ AwaitProcessing \/ DereferenceNil \/ CheckStatus
          \/ CreateStatus \/ ReturnID \/ NoAnswer

Next == Caller \/ Cancel \/ \E outcome \in {"ready", "failed"} : Process(outcome)

(* The caller is one goroutine: it runs on, its requests come back and its *)
(* timers fire.  Nothing obliges a platform to finish with the media.      *)
Spec == Init /\ [][Next]_vars /\ WF_vars(Caller)

(***************************************************************************)
(* What must hold.                                                         *)
(***************************************************************************)
LongestWait == {DefaultWait, PollInterval} \cup CheckAfters

(* Types; no wait goes on for longer than its deadline and one sleep more. *)
TypeOK ==
  /\ taken \in 0..Len(attached)
  /\ items \in Seq([from : 1..taken, kind : {"image", "video"}, size : Sizes])
  /\ pc \in {"prepare", "parent", "upload", "append", "await", "check",
             "status", "answering", "ok", "error", "dead"}
  /\ ids \in Seq(1..Len(media))
  /\ media \in Seq([of : DOMAIN items, got : Nat,
                    phase : {"open", "processing", "ready", "failed"}])
  /\ offset \in Nat /\ cancelled \in BOOLEAN
  /\ \E w \in LongestWait : waited \in 0..(Ceiling + w)

(* A post carries what the user attached, in that order: nothing that      *)
(* could be prepared is missing unless the platform has no room for it,    *)
(* Bluesky gets one video or only images, and a target without video gets  *)
(* none.                                                                   *)
AttachmentsKept ==
  \A n \in DOMAIN created :
    LET parts == [i \in DOMAIN created[n] |-> items[media[created[n][i]].of]]
        Kinds(s) == {s[i].kind : i \in DOMAIN s}
    IN /\ \A i, j \in DOMAIN parts : i < j => parts[i].from < parts[j].from
       /\ ~video => "video" \notin Kinds(parts)
       /\ IF target = "bluesky" /\ "video" \in Kinds(items)
          THEN Len(parts) = 1 /\ Kinds(parts) = {"video"}
          ELSE Len(parts) = IF target # "mastodon" /\ Len(items) > MaxMedia
                            THEN MaxMedia ELSE Len(items)

(* A post never shows media that was sent in part, or that the platform    *)
(* is still processing or could not process.                               *)
MediaWhole ==
  \A n \in DOMAIN created : \A i \in DOMAIN created[n] :
    LET m == media[created[n][i]]
    IN m.got = items[m.of].size /\ m.phase = "ready"

(* The engine's view of a call: the adapters create at most one post, and  *)
(* return an identifier only of a post that is there.                      *)
Call == INSTANCE PostCall
          WITH call <- IF Over \/ pc = "answering" THEN pc ELSE "posting",
               copies <- Len(created)
ImplementsPostCall == Call!Spec

(* Whatever a platform answers, and though it may process media for ever,  *)
(* the call ends: the engine is not kept from its other posts.             *)
CallEnds == <>Over

(* What awaitProcessing's comment promises, that it polls until the media  *)
(* is ready: it comes back with that or with an error.                     *)
PollsUntilReady == pc # "dead"
=============================================================================
