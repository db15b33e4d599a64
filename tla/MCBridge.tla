------------------------------ MODULE MCBridge ------------------------------
(* Instances of Bridge for TLC: Mastodon is polled, Bluesky is followed.   *)
EXTENDS Bridge, MCEngine

MCPageSize == [p \in Pollers |-> 3]
MCReplies == [p \in Platforms |-> TRUE]
MCNoReplies == [p \in Platforms |-> FALSE]

(* One post and three kinds of trouble; three posts and a lost connection; *)
(* two posts that may say the same, or reply, with a refusal and a hash    *)
(* that expires; one post with a lost answer, a store error or a crash.    *)
MCBridgeBudgets == { Allow(1, 0, 0, 0, 1, 1, 0, 1), Allow(1, 0, 0, 0, 1, 0, 1, 1),
                     Allow(1, 0, 0, 0, 0, 1, 1, 1), Allow(3, 0, 0, 0, 0, 0, 0, 1),
                     Allow(2, 1, 1, 0, 0, 0, 0, 0), Allow(1, 1, 0, 1, 1, 0, 0, 0),
                     Allow(1, 0, 0, 1, 0, 0, 1, 0) }

(* Bounds: three posts and a lost connection only where all are written on *)
(* the followed platform; words only in two posts, without a stop and a    *)
(* lost connection (else they are media).                                  *)
ThreeAreFollowed ==
  Cardinality(UserPosts) = 3 /\ happened["disconnect"] > 0 =>
    \A o \in UserPosts : o.plat \in Streams
WordsAreFew ==
  \/ \A o \in UserPosts : Hash[o.text] = NoHash
  \/ Cardinality(UserPosts) <= 2 /\ happened["disconnect"] = 0 /\ happened["cancel"] = 0

(* Two posts with a refusal, and either a lost connection or a stop.       *)
MCLiveBudgets == { Allow(2, 1, 0, 0, 0, 0, 0, 1), Allow(2, 1, 0, 0, 0, 1, 0, 0) }

MCOneStop  == { Allow(1, 0, 0, 0, 0, 1, 0, 0) }
MCOneCrash == { Allow(1, 0, 0, 0, 0, 0, 1, 0) }
MCQuiet    == { Allow(2, 0, 0, 0, 0, 0, 0, 0) }
MCRefused  == { Allow(1, 2, 0, 0, 1, 0, 0, 0) }
=============================================================================
