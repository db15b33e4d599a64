----------------------------- MODULE MCPosting ------------------------------
(* An instance of Posting for TLC: up to three attachments of every kind,  *)
(* a poster frame or none, a size below and one above that of a segment.   *)
EXTENDS Posting

Image   == [kind |-> "image", url |-> TRUE, poster |-> FALSE]
Clip    == [kind |-> "video", url |-> TRUE, poster |-> TRUE]
Poster  == [kind |-> "video", url |-> FALSE, poster |-> TRUE]
Gif     == [kind |-> "gif", url |-> TRUE, poster |-> FALSE]
Audio   == [kind |-> "audio", url |-> TRUE, poster |-> FALSE]

MCAttachments == { <<>>, <<Image, Image, Image>>, <<Image, Clip>>,
                   <<Clip, Poster, Image>>, <<Audio, Gif>> }
=============================================================================
