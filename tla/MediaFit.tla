------------------------------ MODULE MediaFit ------------------------------
(***************************************************************************)
(* One attachment made to fit one platform: prepareAttachment with         *)
(* prepareImage, prepareVideo and preparePoster of internal/feed/          *)
(* engine.go, over Fetch of internal/media/download.go and FitImage and    *)
(* TranscodeVideo of transform.go.  A file is its format, its size and its *)
(* long edge (of a video: its width); what an encoder makes of it can have *)
(* any number of bytes.                                                    *)
(*                                                                         *)
(* Left out: names, MIME types, descriptions, the duration of a video and  *)
(* the height ffmpeg gives it.                                             *)
(***************************************************************************)
EXTENDS Integers

CONSTANTS
  Attachments,   \* what a post may carry
  MediaLimits,   \* what a platform may accept; 0 or less means any number
  EncodedSizes,  \* what an encoder may produce
  FetchLimit,    \* DefaultFetchLimit
  MinEdge,       \* the smallest edge tried, 320
  VideoEdge,     \* TranscodeVideo's edge without a limit, 1280
  Qualities,     \* Len(jpegQualities)
  NoFile

Files == [format : {"jpeg", "png", "gif", "mp4"}, bytes : Nat, edge : Nat \ {0}]
AttachmentForms == [kind : {"image", "video", "gif", "audio"},
                    file : Files \cup {NoFile}, poster : Files \cup {NoFile}]
LimitForms == [bytes : Int, videoBytes : Int, edge : Int, video : BOOLEAN]

ASSUME MediaAssumption ==
  /\ Attachments \subseteq AttachmentForms /\ MediaLimits \subseteq LimitForms
  /\ EncodedSizes \subseteq Nat \ {0}
  /\ {FetchLimit, MinEdge, VideoEdge, Qualities} \subseteq Nat \ {0}
  /\ NoFile \notin Files

VARIABLES
  attachment, limits,  \* the arguments of prepareAttachment
  stage,     \* "idle", "fetch", "encode", "ready", "dropped"
  as,        \* what is being made: "image" or "video"
  file,      \* what was fetched, or is to be
  edges,     \* the long edges left to try, 0 for the file's own
  quality,   \* which of the qualities is tried
  prepared   \* the result, or NoFile

mediaVars == <<attachment, limits, stage, as, file, edges, quality, prepared>>

Smaller(a, b) == IF a < b THEN a ELSE b

(***************************************************************************)
(* What is fetched.                                                        *)
(***************************************************************************)
Get(kind, wanted) ==
  /\ as' = kind /\ file' = wanted
  /\ stage' = IF wanted = NoFile THEN "dropped" ELSE "fetch"

PrepareAttachment(a, l) ==
  /\ stage = "idle" /\ attachment' = a /\ limits' = l
  /\ CASE a.kind = "image" -> Get("image", a.file)
       [] a.kind \in {"video", "gif"} ->
            IF l.video /\ a.file # NoFile
            THEN Get("video", a.file) ELSE Get("image", a.poster)
       [] OTHER -> stage' = "dropped" /\ UNCHANGED <<as, file>>
  /\ UNCHANGED <<edges, quality, prepared>>

FetchFails == /\ stage = "fetch" /\ stage' = "dropped"
              /\ UNCHANGED <<attachment, limits, as, file, edges, quality, prepared>>

(***************************************************************************)
(* The edges to try.                                                       *)
(***************************************************************************)
(* Mutated form: the edges are fractions of the image's, not of the limit. *)
DimensionPlanOfCurrent(max, current) ==
  IF max <= 0 THEN {0}
  ELSE {d \in {current, (current * 3) \div 4, current \div 2} : d >= MinEdge}

DimensionPlan(max, current) ==
  IF max <= 0 THEN {0}
  ELSE LET plan == {d \in {max, (max * 3) \div 4, max \div 2, max \div 3} :
                      d >= MinEdge /\ d < current}
       IN IF plan = {} THEN {Smaller(current, max)} ELSE plan

VideoPlan(max) ==
  LET edge == IF max <= 0 THEN VideoEdge ELSE max
  IN {d \in {edge, (edge * 2) \div 3, edge \div 2} : d >= MinEdge}

(* The plans run from large to small.                                      *)
Trying(d) == d \in edges /\ \A e \in edges : e <= d

(***************************************************************************)
(* The outcome.                                                            *)
(***************************************************************************)
Within(limit, n) == limit <= 0 \/ n <= limit
Budget == IF as = "video" THEN limits.videoBytes ELSE limits.bytes

Return(f) == stage' = "ready" /\ prepared' = f
             /\ UNCHANGED <<attachment, limits, as, file, edges, quality>>

(* An image is dropped; a video falls back to its poster frame.            *)
CannotFit ==
  /\ IF as = "video" THEN Get("image", attachment.poster)
     ELSE stage' = "dropped" /\ UNCHANGED <<as, file>>
  /\ UNCHANGED <<attachment, limits, edges, quality, prepared>>

(***************************************************************************)
(* FitImage up to its loop, TranscodeVideo up to its loop.                 *)
(***************************************************************************)
StartLoop(plan) ==
  /\ edges' = plan /\ quality' = 1 /\ stage' = "encode"
  /\ UNCHANGED <<attachment, limits, as, file, prepared>>

Fits == Within(limits.bytes, file.bytes) /\ Within(limits.edge, file.edge)
TooManyBytes == ~Within(limits.bytes, file.bytes) /\ Within(limits.edge, file.edge)

Fetched ==
  /\ stage = "fetch" /\ file.bytes \in 1..FetchLimit
  /\ \/ as = "image" /\ Fits /\ Return(file)
     \/ as = "image" /\ file.format = "gif" /\ TooManyBytes /\ CannotFit
     \/ /\ as = "image" /\ ~Fits /\ ~(file.format = "gif" /\ TooManyBytes)
        /\ StartLoop(DimensionPlan(limits.edge, file.edge))
     \/ as = "video" /\ StartLoop(VideoPlan(limits.edge))

(* The file cannot be decoded, or there is no ffmpeg.                      *)
Unreadable == stage = "fetch" /\ file.bytes \in 1..FetchLimit /\ CannotFit

(***************************************************************************)
(* The loops.                                                              *)
(***************************************************************************)
Encoded(d) == {[format |-> IF as = "video" THEN "mp4" ELSE "jpeg", bytes |-> size,
                edge |-> IF d = 0 THEN file.edge ELSE Smaller(file.edge, d)] :
               size \in EncodedSizes}

(* On to the next quality, or to the next edge.                            *)
NextAttempt(d) ==
  /\ IF as = "image" /\ quality < Qualities
     THEN quality' = quality + 1 /\ UNCHANGED edges
     ELSE quality' = 1 /\ edges' = edges \ {d}
  /\ UNCHANGED <<attachment, limits, stage, as, file, prepared>>

Encode ==
  /\ stage = "encode"
  /\ \E d \in edges : /\ Trying(d)
                      /\ \E f \in Encoded(d) :
                           IF Within(Budget, f.bytes) THEN Return(f) ELSE NextAttempt(d)

(* ffmpeg fails or takes too long, the next attempt follows; an error of   *)
(* the JPEG encoder ends the loop.                                         *)
EncodeFails ==
  /\ stage = "encode"
  /\ \E d \in edges : Trying(d) /\ IF as = "video" THEN NextAttempt(d) ELSE CannotFit

NothingLeft == stage = "encode" /\ edges = {} /\ CannotFit

MediaInit ==
  /\ attachment \in Attachments /\ limits \in MediaLimits
  /\ stage = "idle" /\ as = "image" /\ file = NoFile
  /\ edges = {} /\ quality = 1 /\ prepared = NoFile

MediaStep == FetchFails \/ Fetched \/ Unreadable \/ Encode \/ EncodeFails \/ NothingLeft

MediaNext == MediaStep \/ \E a \in Attachments, l \in MediaLimits : PrepareAttachment(a, l)

MediaSpec == MediaInit /\ [][MediaNext]_mediaVars

(***************************************************************************)
(* What must hold.                                                         *)
(***************************************************************************)
(* Whatever the encoders make of it, what is uploaded is within the bytes  *)
(* and the edge the platform accepts and never larger than the original; a *)
(* video goes only where videos are accepted, and an animated GIF becomes  *)
(* a still image only because of its edge.                                 *)
MediaFits ==
  prepared # NoFile =>
    /\ Within(Budget, prepared.bytes) /\ Within(limits.edge, prepared.edge)
    /\ prepared.edge <= file.edge
    /\ as = "video" => limits.video
    /\ as = "image" /\ file.format = "gif" /\ prepared.format # "gif" =>
         ~Within(limits.edge, file.edge)
=============================================================================
