------------------------------ MODULE MCEngine ------------------------------
(* Instances of Engine for TLC.  Mastodon and Bluesky mirror each other, X *)
(* is a second target of both, so that one text may reach it from either,  *)
(* and is read, but nothing goes anywhere from it.                         *)
EXTENDS Engine

CONSTANTS m, b, x                \* Mastodon, Bluesky, X
CONSTANTS short, long, empty     \* texts: empty is a post that is only media
CONSTANTS hashShort, hashLong

MCRoutes2 == [p \in Platforms |-> IF p = m THEN <<b>> ELSE <<m>>]
MCRoutes3 == [p \in Platforms |->
                CASE p = m -> <<b, x>> [] p = b -> <<m, x>> [] p = x -> <<>>]

MCHash == [t \in Texts |->
             CASE t = short -> hashShort
               [] t = long  -> hashLong
               [] t = empty -> NoHash]

(* Bluesky holds less than Mastodon: what is long there is cut to short.   *)
MCFit == [p \in Platforms |-> [t \in Texts |->
            IF p = b /\ t = long THEN short ELSE t]]

Allow(publish, refuse, expire, lost, dbError, cancel, crash, disconnect) ==
  [k \in Kinds |->
     CASE k = "publish" -> publish [] k = "refuse" -> refuse
       [] k = "expire" -> expire [] k = "lost" -> lost
       [] k = "dbError" -> dbError [] k = "cancel" -> cancel
       [] k = "crash" -> crash [] k = "disconnect" -> disconnect]

(* One post, a crash and two of the three other faults, each way; one post *)
(* whose hash expires; one whose attempts all fail or lose their answers;  *)
(* two posts, one of them perhaps a reply, with a refusal and a lost       *)
(* answer.                                                                 *)
MCEngineBudgets == { Allow(1, 0, 0, 1, 1, 0, 1, 0), Allow(1, 0, 0, 1, 0, 1, 1, 0),
                     Allow(1, 0, 0, 0, 1, 1, 1, 0), Allow(1, 0, 1, 0, 1, 0, 1, 0),
                     Allow(1, 2, 0, 2, 0, 0, 0, 0), Allow(2, 1, 0, 1, 0, 0, 0, 0) }
=============================================================================
