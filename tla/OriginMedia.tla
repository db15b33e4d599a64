----------------------------- MODULE OriginMedia ----------------------------
(***************************************************************************)
(* What the adapters make of what their platforms attach to a post:        *)
(* mediaFromAttachment of internal/platform/mastodon/mastodon.go,          *)
(* mediaFromTweet and bestMP4 of twitter/twitter.go, and the embeds of     *)
(* bluesky/record.go.  An item is its type, its file and a still image,    *)
(* each perhaps missing, and its variants, in which X offers a video.      *)
(* The result is an attachment of MediaFit, or NoFile.                     *)
(*                                                                         *)
(* Left out: descriptions and dimensions, and all but one item of a post   *)
(* (module Posting follows several).                                       *)
(***************************************************************************)
EXTENDS MediaFit, Slices

MediaFromAttachment(item) ==
  [kind |-> CASE item.type = "video" -> "video"
              [] item.type = "gifv" -> "gif"
              [] item.type = "audio" -> "audio"
              [] OTHER -> "image",
   file |-> item.file, poster |-> item.preview]

(* An image or a video without a blob is skipped; none has a still image.  *)
MediaFromRecord(item) ==
  IF item.file = NoFile THEN NoFile
  ELSE [kind |-> item.type, file |-> item.file, poster |-> NoFile]

Playable(variants) ==
  Pick(variants, {i \in DOMAIN variants : /\ variants[i].file # NoFile
                                          /\ variants[i].type = "video/mp4"})

(* Mutated form: the last one in the list.                                 *)
BestMP4Last(variants) ==
  LET mp4 == Playable(variants)
  IN IF mp4 = <<>> THEN NoFile ELSE mp4[Len(mp4)].file

(* The first of those with the highest bit rate.                           *)
BestMP4(variants) ==
  LET mp4 == Playable(variants)
      Beats(i, j) == mp4[i].rate > mp4[j].rate \/ (mp4[i].rate = mp4[j].rate /\ i <= j)
  IN IF mp4 = <<>> THEN NoFile
     ELSE mp4[CHOOSE i \in DOMAIN mp4 : \A j \in DOMAIN mp4 : Beats(i, j)].file

MediaFromTweet(item) ==
  LET best == BestMP4(item.variants)
  IN [kind |-> CASE item.type = "video" -> "video"
                 [] item.type = "animated_gif" -> "gif"
                 [] OTHER -> "image",
      file |-> CASE item.type = "video" -> best
                 [] item.type = "animated_gif" /\ best # NoFile -> best
                 [] OTHER -> item.file,
      poster |-> item.preview]
=============================================================================
