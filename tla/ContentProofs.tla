---------------------------- MODULE ContentProofs ---------------------------
(***************************************************************************)
(* What of one post arrives, for every configuration file, environment,    *)
(* text, list of entities and attachment of the forms ContentAssumption    *)
(* allows, and for every limit of the platforms.                           *)
(***************************************************************************)
EXTENDS Content, MarkupProofs

(***************************************************************************)
(* Preparing an attachment: whatever limits an operator sets and whatever  *)
(* the encoders produce, it is uploaded within the limits or not at all.   *)
(***************************************************************************)
(* The edges left are within the limit, 0 only where there is none.        *)
EdgesAllowed ==
  stage = "encode" => /\ edges \subseteq Nat
                      /\ as = "image" => \A d \in edges : IF limits.edge <= 0 THEN d = 0
                                                          ELSE d \in 1..limits.edge
                      /\ as = "video" => \A d \in edges :
                            d > 0 /\ (limits.edge > 0 => d <= limits.edge)

(* A GIF is encoded only for its edge.                                     *)
GifTooLarge ==
  stage = "encode" /\ as = "image" /\ file.format = "gif" => ~Within(limits.edge, file.edge)

VideoWanted ==
  as = "video" /\ stage \in {"fetch", "encode", "ready"} => limits.video

MediaTypeOK ==
  /\ attachment \in AttachmentForms /\ limits \in LimitForms
  /\ stage \in {"idle", "fetch", "encode", "ready", "dropped"}
  /\ as \in {"image", "video"} /\ file \in Files \cup {NoFile}
  /\ stage \in {"fetch", "encode", "ready"} => file \in Files
  /\ prepared \in Files \cup {NoFile} /\ (prepared # NoFile => stage = "ready")

(* What is fetched is the attachment's own file, or its still image.       *)
FromAttachment ==
  LET moving == attachment.kind \in {"video", "gif"}
  IN IF stage = "idle" THEN as = "image" /\ file = NoFile
     ELSE /\ as = "video" => moving /\ file = attachment.file /\ file # NoFile
          /\ as = "image" => file = CASE attachment.kind = "image" -> attachment.file
                                     [] moving -> attachment.poster
                                     [] OTHER -> NoFile

MediaInv == /\ MediaTypeOK /\ EdgesAllowed /\ GifTooLarge /\ VideoWanted /\ MediaFits
            /\ FromAttachment

LEMMA PlanAllowed ==
  ASSUME NEW max \in Int, NEW current \in Nat \ {0}
  PROVE  /\ DimensionPlan(max, current) \subseteq Nat
         /\ \A d \in DimensionPlan(max, current) :
              IF max <= 0 THEN d = 0 ELSE d \in 1..max
  BY MediaAssumption DEF DimensionPlan, Smaller

LEMMA VideoPlanAllowed ==
  ASSUME NEW max \in Int
  PROVE  /\ VideoPlan(max) \subseteq Nat
         /\ \A d \in VideoPlan(max) : d > 0 /\ (max > 0 => d <= max)
  BY MediaAssumption DEF VideoPlan

LEMMA Starts == MediaInit => MediaInv
  BY MediaAssumption
  DEF MediaInit, MediaInv, MediaTypeOK, EdgesAllowed, GifTooLarge, VideoWanted, MediaFits,
      FromAttachment

LEMMA Dropped == ASSUME MediaInv, CannotFit, stage \in {"fetch", "encode"} PROVE MediaInv'
  <1> USE MediaAssumption DEF MediaInv, MediaTypeOK
  <1>1. CASE as = "video"
    <2>1. attachment.poster \in Files \cup {NoFile}
      BY DEF AttachmentForms
    <2>2. FromAttachment'
      BY <1>1 DEF CannotFit, Get, FromAttachment
    <2> QED BY <1>1, <2>1, <2>2
            DEF CannotFit, Get, EdgesAllowed, GifTooLarge, VideoWanted, MediaFits
  <1>2. CASE as # "video"
    BY <1>2 DEF CannotFit, EdgesAllowed, GifTooLarge, VideoWanted, MediaFits, FromAttachment
  <1> QED BY <1>1, <1>2

LEMMA PreparationStarts ==
  ASSUME MediaInv, NEW a \in AttachmentForms, NEW l \in LimitForms, PrepareAttachment(a, l)
  PROVE  MediaInv'
  <1> USE MediaAssumption DEF MediaInv, MediaTypeOK, PrepareAttachment
  <1>1. CASE a.kind = "image"
    BY <1>1 DEF Get, AttachmentForms, EdgesAllowed, GifTooLarge, VideoWanted, MediaFits,
                FromAttachment
  <1>2. CASE a.kind \in {"video", "gif"} /\ l.video /\ a.file # NoFile
    BY <1>2 DEF Get, AttachmentForms, EdgesAllowed, GifTooLarge, VideoWanted, MediaFits,
                FromAttachment
  <1>3. CASE a.kind \in {"video", "gif"} /\ ~(l.video /\ a.file # NoFile)
    BY <1>3 DEF Get, AttachmentForms, EdgesAllowed, GifTooLarge, VideoWanted, MediaFits,
                FromAttachment
  <1>4. CASE a.kind \notin {"image", "video", "gif"}
    BY <1>4 DEF AttachmentForms, EdgesAllowed, GifTooLarge, VideoWanted, MediaFits,
                FromAttachment
  <1> QED BY <1>1, <1>2, <1>3, <1>4

LEMMA MediaStepKeeps == MediaInv /\ (MediaStep \/ UNCHANGED mediaVars) => MediaInv'
  <1> SUFFICES ASSUME MediaInv, MediaStep \/ UNCHANGED mediaVars PROVE MediaInv'
    OBVIOUS
  <1>0. limits.edge \in Int /\ limits.bytes \in Int /\ limits.videoBytes \in Int
    BY DEF LimitForms, MediaInv, MediaTypeOK
  <1>2. CASE FetchFails
    BY <1>2 DEF FetchFails, MediaInv, MediaTypeOK, EdgesAllowed, GifTooLarge,
                VideoWanted, MediaFits, FromAttachment
  <1>3. CASE Fetched
    <2>1. file \in Files /\ stage = "fetch"
      BY <1>3 DEF Fetched, MediaInv, MediaTypeOK
    <2>2. CASE as = "image" /\ Fits /\ Return(file)
      BY <1>0, <2>1, <2>2 DEF Return, Fits, Files, Budget, MediaInv, MediaTypeOK,
         EdgesAllowed, GifTooLarge, VideoWanted, MediaFits, FromAttachment
    <2>3. CASE CannotFit
      BY <2>1, <2>3, Dropped
    <2>4. CASE /\ as = "image" /\ ~Fits /\ ~(file.format = "gif" /\ TooManyBytes)
               /\ StartLoop(DimensionPlan(limits.edge, file.edge))
      <3>1. EdgesAllowed'
        BY <1>0, <2>1, <2>4, PlanAllowed DEF StartLoop, EdgesAllowed, Files
      <3>2. GifTooLarge'
        BY <2>4 DEF StartLoop, GifTooLarge, Fits, TooManyBytes
      <3> QED BY <2>1, <2>4, <3>1, <3>2
              DEF StartLoop, MediaInv, MediaTypeOK, VideoWanted, MediaFits, FromAttachment
    <2>5. CASE as = "video" /\ StartLoop(VideoPlan(limits.edge))
      <3>1. EdgesAllowed'
        BY <1>0, <2>5, VideoPlanAllowed DEF StartLoop, EdgesAllowed
      <3> QED BY <2>1, <2>5, <3>1
              DEF StartLoop, MediaInv, MediaTypeOK, GifTooLarge, VideoWanted, MediaFits,
                  FromAttachment
    <2> QED BY <1>3, <2>2, <2>3, <2>4, <2>5 DEF Fetched
  <1>4. CASE Unreadable
    BY <1>4, Dropped DEF Unreadable
  <1>5. ASSUME NEW d \in edges, stage = "encode", NextAttempt(d) PROVE MediaInv'
    BY <1>5 DEF NextAttempt, MediaInv, MediaTypeOK, EdgesAllowed, GifTooLarge,
                VideoWanted, MediaFits, FromAttachment
  <1>6. CASE Encode
    <2>1. PICK d \in edges : \E f \in Encoded(d) :
            IF Within(Budget, f.bytes) THEN Return(f) ELSE NextAttempt(d)
      BY <1>6 DEF Encode
    <2>0. PICK f \in Encoded(d) : IF Within(Budget, f.bytes) THEN Return(f) ELSE NextAttempt(d)
      BY <2>1
    <2>2. CASE Within(Budget, f.bytes) /\ Return(f)
      <3>1. file \in Files /\ d \in Nat /\ (d = 0 => limits.edge <= 0)
            /\ (limits.edge > 0 => d <= limits.edge)
        <4>0. file \in Files /\ stage = "encode" /\ d \in Nat
          BY <1>6 DEF Encode, MediaInv, MediaTypeOK, EdgesAllowed
        <4>1. CASE as = "image"
          <5>1. IF limits.edge <= 0 THEN d = 0 ELSE d \in 1..limits.edge
            BY <4>0, <4>1 DEF MediaInv, EdgesAllowed
          <5> QED BY <1>0, <4>0, <5>1
        <4>2. CASE as = "video"
          <5>1. d > 0 /\ (limits.edge > 0 => d <= limits.edge)
            BY <4>0, <4>2 DEF MediaInv, EdgesAllowed
          <5> QED BY <1>0, <4>0, <5>1
        <4> QED BY <4>1, <4>2 DEF MediaInv, MediaTypeOK
      <3>2. f \in Files /\ f.edge <= file.edge /\ Within(limits.edge, f.edge)
        <4>0. file.edge \in Nat \ {0}
          BY <3>1 DEF Files
        <4>1. PICK size \in EncodedSizes :
                f = [format |-> IF as = "video" THEN "mp4" ELSE "jpeg", bytes |-> size,
                     edge |-> IF d = 0 THEN file.edge ELSE Smaller(file.edge, d)]
          BY DEF Encoded
        <4>2. size \in Nat
          BY MediaAssumption
        <4>3. f.edge \in Nat \ {0} /\ f.edge <= file.edge /\ (d # 0 => f.edge <= d)
          BY <3>1, <4>0, <4>1 DEF Smaller
        <4>4. Within(limits.edge, f.edge)
          BY <1>0, <3>1, <4>3 DEF Within
        <4>5. f \in Files
          BY <4>1, <4>2, <4>3 DEF Files
        <4> QED BY <4>3, <4>4, <4>5
      <3> QED BY <1>6, <2>2, <3>1, <3>2
              DEF Encode, Return, Budget, MediaInv, MediaTypeOK, EdgesAllowed, GifTooLarge,
                  VideoWanted, MediaFits, FromAttachment
    <2> QED BY <1>5, <1>6, <2>0, <2>2 DEF Encode
  <1>7. CASE EncodeFails
    BY <1>5, <1>7, Dropped DEF EncodeFails
  <1>8. CASE NothingLeft
    BY <1>8, Dropped DEF NothingLeft
  <1>9. CASE UNCHANGED mediaVars
    BY <1>9 DEF mediaVars, MediaInv, MediaTypeOK, EdgesAllowed, GifTooLarge, VideoWanted,
                MediaFits, Within, Budget, FromAttachment
  <1> QED BY <1>2, <1>3, <1>4, <1>6, <1>7, <1>8, <1>9 DEF MediaStep

(* No attachment is uploaded beyond what its platform accepts, whatever    *)
(* the limits, the files and the encoders.                                 *)
THEOREM FittedMediaFits == MediaSpec => []MediaFits
  <1>1. MediaInv => MediaFits
    BY DEF MediaInv
  <1>2. MediaInv /\ [MediaNext]_mediaVars => MediaInv'
    <2> SUFFICES ASSUME MediaInv, [MediaNext]_mediaVars PROVE MediaInv'
      OBVIOUS
    <2>1. ASSUME NEW a \in Attachments, NEW l \in MediaLimits, PrepareAttachment(a, l)
          PROVE  MediaInv'
      BY <2>1, MediaAssumption, PreparationStarts
    <2> QED BY <2>1, MediaStepKeeps DEF MediaNext
  <1> QED BY <1>1, <1>2, Starts, PTL DEF MediaSpec

(***************************************************************************)
(* The configuration.                                                      *)
(***************************************************************************)
LEMMA LoadedConfig ==
  ASSUME NEW f, NEW env \in SUBSET STRING, ConfigForm(f)
  PROVE  LET loaded == Load(f, env, Defaults)
         IN /\ loaded.config.enabled = f.enabled /\ loaded.config.routes = f.routes
            /\ loaded.config.set = f.set \cup env
            /\ loaded.config.limits \in [Names -> LimitForms]
            /\ loaded.valid <=> Validate(loaded.config)
<1> DEFINE c1 == ApplyDefaults(f, Defaults)
           c2 == ApplyEnv(c1, env)
<1>1. /\ f.limits \in [Names -> LimitForms] /\ Defaults \in [Names -> LimitForms]
      /\ f \in [enabled : SUBSET Names, set : SUBSET STRING, routes : {f.routes},
                limits : [Names -> LimitForms]]
  BY ContentAssumption DEF ConfigForm
<1>2. ASSUME NEW p \in Names PROVE DefaultLimit(f.limits[p], Defaults[p]) \in LimitForms
  <2>1. f.limits[p] \in LimitForms /\ Defaults[p] \in LimitForms
    BY <1>1
  <2> QED BY <2>1 DEF DefaultLimit, LimitForms
<1>3. /\ c1.enabled = f.enabled /\ c1.routes = f.routes /\ c1.set = f.set
      /\ c1 \in [enabled : SUBSET Names, set : SUBSET STRING, routes : {f.routes},
                 limits : [Names -> LimitForms]]
  BY <1>1, <1>2 DEF ApplyDefaults
<1>4. /\ c2.enabled = f.enabled /\ c2.routes = f.routes /\ c2.set = f.set \cup env
      /\ c2.limits = c1.limits
  <2> HIDE DEF c1
  <2> QED BY <1>3 DEF ApplyEnv
<1>5. Load(f, env, Defaults) = [config |-> c2, valid |-> Validate(c2)]
  BY DEF Load
<1> HIDE DEF c1, c2
<1> QED BY <1>3, <1>4, <1>5

HoldsEnough(c) ==
  /\ c.enabled # {}
  /\ \A p \in c.enabled : /\ Required[p] \subseteq c.set
                          /\ p = "twitter" => Bearer \in c.set \/ OAuth1 \subseteq c.set

(* Whatever Validate lets pass is enough for the constructors, but for the *)
(* session that Bluesky may refuse.                                        *)
LEMMA ValidMeansComplete ==
  ASSUME NEW c, c.enabled \subseteq Names, NEW session
  PROVE  /\ Validate(c) <=> HoldsEnough(c)
         /\ Validate(c) => (ReachesLogin(c) <=> "bluesky" \in c.enabled)
         /\ Validate(c) => (BuildPlatforms(c, session) <=>
                              ("bluesky" \in c.enabled => session = "opened"))
<1>1. /\ Required["mastodon"] = {"mastodon server", "mastodon token"}
      /\ Required["bluesky"] = {"bluesky handle", "bluesky password"}
      /\ Required["twitter"] = {"twitter user"}
  BY DEF Required
<1>2. /\ NewMastodon(c) <=> Required["mastodon"] \subseteq c.set
      /\ CanLogIn(c) <=> Required["bluesky"] \subseteq c.set
  BY <1>1, Zenon DEF NewMastodon, CanLogIn
<1>a. NewTwitter(c) <=> /\ Required["twitter"] \subseteq c.set
                        /\ Bearer \in c.set \/ OAuth1 \subseteq c.set
  BY <1>1, Zenon DEF NewTwitter, UsesOAuth1
<1>3. Validate(c) <=>
        /\ c.enabled # {} /\ \A p \in c.enabled : Required[p] \subseteq c.set
        /\ "twitter" \in c.enabled => Bearer \in c.set \/ OAuth1 \subseteq c.set
  BY DEF Validate, UsesOAuth1
<1>4. Validate(c) <=> HoldsEnough(c)
  BY <1>3 DEF HoldsEnough
<1>5. Validate(c) => (ReachesLogin(c) <=> "bluesky" \in c.enabled)
  BY <1>2, <1>3 DEF ReachesLogin
<1>6. Validate(c) => (BuildPlatforms(c, session) <=>
                       ("bluesky" \in c.enabled => session = "opened"))
  BY <1>2, <1>3, <1>a DEF BuildPlatforms, NewBluesky
<1> QED BY <1>4, <1>5, <1>6

(* The platforms that can be written to.                                   *)
LEMMA WritableAreTargets ==
  ASSUME NEW c, c.enabled \subseteq Names
  PROVE  /\ WritablePlatforms(c) \in Seq(Names)
         /\ {WritablePlatforms(c)[i] : i \in DOMAIN WritablePlatforms(c)} = Targets(c)
         /\ Len(WritablePlatforms(c)) <= 3
         /\ \A p \in Names \ Targets(c) : Len(WritablePlatforms(c)) <= 2
<1> DEFINE K == {i \in DOMAIN AllPlatforms : /\ AllPlatforms[i] \in c.enabled
                                             /\ AllPlatforms[i] = "twitter" => UsesOAuth1(c)}
<1>1. /\ AllPlatforms \in Seq(Names) /\ DOMAIN AllPlatforms = 1..3 /\ Len(AllPlatforms) = 3
      /\ AllPlatforms[1] = "mastodon" /\ AllPlatforms[2] = "bluesky"
      /\ AllPlatforms[3] = "twitter"
  BY DEF AllPlatforms, Names
<1>2. WritablePlatforms(c) = Pick(AllPlatforms, K) /\ K \in SUBSET (DOMAIN AllPlatforms)
  BY DEF WritablePlatforms
<1>3. {AllPlatforms[i] : i \in K} = Targets(c)
  <2>1. \A p \in Names : \E i \in 1..3 : AllPlatforms[i] = p
    BY <1>1 DEF Names
  <2>2. \A p \in c.enabled : p \in Names
    OBVIOUS
  <2> QED BY <1>1, <2>1, <2>2 DEF Targets, CanPost
<1>4. IsFiniteSet(DOMAIN AllPlatforms) /\ Cardinality(DOMAIN AllPlatforms) = 3
  <2> DEFINE n == 3
  <2>1. n \in Nat /\ DOMAIN AllPlatforms = 1..n
    BY <1>1
  <2> HIDE DEF n
  <2>2. IsFiniteSet(DOMAIN AllPlatforms) /\ Cardinality(DOMAIN AllPlatforms) = n
    BY <2>1, FirstNumbers
  <2> QED BY <2>2 DEF n
<1>5. ASSUME NEW p \in Names \ Targets(c) PROVE K # 1..3
  <2>1. PICK i \in 1..3 : AllPlatforms[i] = p
    BY <1>1 DEF Names
  <2>2. i \notin K
    BY <1>3, <2>1
  <2> QED BY <2>2
<1> HIDE DEF K
<1>a. AllPlatforms \in Seq(Names)
  BY <1>1
<1>6. /\ WritablePlatforms(c) \in Seq(Names) /\ Len(WritablePlatforms(c)) = Cardinality(K)
      /\ Cardinality(K) \in Nat /\ Cardinality(K) <= Len(AllPlatforms)
  BY <1>a, <1>2, PickIsSeq
<1>7. /\ \A k \in DOMAIN WritablePlatforms(c) : \E i \in K : WritablePlatforms(c)[k] = AllPlatforms[i]
      /\ \A i \in K : \E k \in DOMAIN WritablePlatforms(c) : WritablePlatforms(c)[k] = AllPlatforms[i]
  BY <1>a, <1>2, PickedElements
<1>8. ASSUME NEW p \in Names \ Targets(c) PROVE Len(WritablePlatforms(c)) <= 2
  <2>1. Cardinality(K) # 3
    BY <1>1, <1>2, <1>4, <1>5, FS_Subset
  <2> QED BY <1>1, <1>6, <2>1
<1>9. {WritablePlatforms(c)[i] : i \in DOMAIN WritablePlatforms(c)} = Targets(c)
  <2> DEFINE W == WritablePlatforms(c)
             T == Targets(c)
  <2>1. /\ \A k \in DOMAIN W : W[k] \in {AllPlatforms[i] : i \in K}
        /\ \A p \in {AllPlatforms[i] : i \in K} : \E k \in DOMAIN W : W[k] = p
    BY <1>7
  <2>2. \A k \in DOMAIN W : W[k] \in T
    BY <1>3, <2>1
  <2>3. \A p \in T : \E k \in DOMAIN W : W[k] = p
    BY <1>3, <2>1
  <2> HIDE DEF W, T
  <2>4. {W[i] : i \in DOMAIN W} = T
    BY <2>2, <2>3
  <2> QED BY <2>4 DEF W, T
<1> QED BY <1>1, <1>6, <1>8, <1>9

LEMMA RoutesLeadToTargets ==
  ASSUME NEW c, c.enabled \subseteq Names,
         c.routes \in [DOMAIN c.routes -> Seq(STRING)], NEW origin \in Names
  PROVE  LET list == TargetsFor(c, origin)
             reached == {list[i] : i \in DOMAIN list}
         IN /\ reached \subseteq Targets(c) \ {origin}
            /\ origin \notin DOMAIN c.routes =>
                 reached = Targets(c) \ {origin} /\ Len(list) <= 2
<1> DEFINE list == TargetsFor(c, origin)
           W == WritablePlatforms(c)
<1>0. /\ W \in Seq(Names) /\ {W[i] : i \in DOMAIN W} = Targets(c) /\ Len(W) <= 3
      /\ \A p \in Names \ Targets(c) : Len(W) <= 2
  BY WritableAreTargets
<1>1. \A name : Writable(c, name) <=> name \in Targets(c)
  BY <1>0 DEF Writable
<1>2. CASE origin \in DOMAIN c.routes
  <2> DEFINE wanted == c.routes[origin]
             K == {i \in OthersIn(wanted, origin) : Valid(wanted[i]) /\ Writable(c, wanted[i])}
  <2>1. wanted \in Seq(STRING) /\ list = Pick(wanted, K)
    BY <1>2 DEF TargetsFor
  <2>2. K \in SUBSET (DOMAIN wanted) /\ \A i \in K : wanted[i] \in Targets(c) \ {origin}
    BY <1>1 DEF OthersIn
  <2> HIDE DEF K, wanted
  <2>3. \A k \in DOMAIN list : \E i \in K : list[k] = wanted[i]
    BY <2>1, <2>2, PickedElements
  <2>4. {list[i] : i \in DOMAIN list} \subseteq Targets(c) \ {origin}
    BY <2>2, <2>3
  <2> QED BY <1>2, <2>3, <2>4
<1>3. CASE origin \notin DOMAIN c.routes
  <2> DEFINE K == OthersIn(W, origin)
  <2>1. list = Pick(W, K)
    BY <1>3 DEF TargetsFor
  <2>2. K \in SUBSET (DOMAIN W) /\ {W[i] : i \in K} = Targets(c) \ {origin}
    BY <1>0 DEF OthersIn
  <2>3. W \in Seq(Names)
    BY <1>0
  <2>4. Targets(c) \subseteq Names /\ (origin \in Targets(c) => K # DOMAIN W)
    <3>1. Targets(c) \subseteq Names
      BY DEF Targets
    <3>2. ASSUME origin \in Targets(c) PROVE K # DOMAIN W
      <4>1. PICK i \in DOMAIN W : W[i] = origin
        BY <1>0, <3>2
      <4> QED BY <4>1 DEF OthersIn
    <3> QED BY <3>1, <3>2
  <2>a. DOMAIN W = 1..Len(W) /\ Len(W) \in Nat
    <3> HIDE DEF W
    <3> QED BY <1>0
  <2> HIDE DEF K, W, list
  <2>5. /\ list \in Seq(Names) /\ {list[i] : i \in DOMAIN list} = {W[i] : i \in K}
        /\ Len(list) = Cardinality(K) /\ Cardinality(K) \in Nat /\ Cardinality(K) <= Len(W)
    <3>1. /\ list \in Seq(Names) /\ Len(list) = Cardinality(K)
          /\ Cardinality(K) \in Nat /\ Cardinality(K) <= Len(W)
      BY <2>1, <2>2, <2>3, PickIsSeq
    <3>2. /\ \A k \in DOMAIN list : \E i \in K : list[k] = W[i]
          /\ \A i \in K : \E k \in DOMAIN list : list[k] = W[i]
      BY <2>1, <2>2, <2>3, PickedElements
    <3> QED BY <3>1, <3>2
  <2>6. Len(list) <= 2
    <3>1. CASE origin \in Targets(c)
      <4>1. IsFiniteSet(DOMAIN W) /\ Cardinality(DOMAIN W) = Len(W)
        BY <2>a, FirstNumbers
      <4>2. Cardinality(K) # Len(W)
        BY <2>2, <2>4, <3>1, <4>1, FS_Subset
      <4> QED BY <1>0, <2>a, <2>5, <4>2
    <3>2. CASE origin \notin Targets(c)
      BY <1>0, <2>5, <2>a, <3>2
    <3> QED BY <3>1, <3>2
  <2> QED BY <1>3, <2>2, <2>5, <2>6 DEF list
<1> QED BY <1>2, <1>3

(***************************************************************************)
(* What is attached.                                                       *)
(***************************************************************************)
MP4s(variants) ==
  {v \in {variants[i] : i \in DOMAIN variants} : v.type = "video/mp4" /\ v.file # NoFile}

(* One that beats every other is found.                                    *)
BeatsIn(mp4, i, j) == mp4[i].rate > mp4[j].rate \/ (mp4[i].rate = mp4[j].rate /\ i <= j)
BeatsUpTo(mp4, i, k) == \A j \in 1..k : BeatsIn(mp4, i, j)

LEMMA OneBeatsAll ==
  ASSUME NEW mp4 \in Seq(Variant), Len(mp4) # 0
  PROVE  \E i \in 1..Len(mp4) : BeatsUpTo(mp4, i, Len(mp4))
<1> DEFINE n == Len(mp4)
           good == {k \in 0..n : k = 0 \/ \E i \in 1..k : BeatsUpTo(mp4, i, k)}
<1>0. n \in Nat /\ \A i \in 1..n : mp4[i] \in Variant
  OBVIOUS
<1>1. n \in Nat /\ \A i \in 1..n : mp4[i].rate \in Int
  BY <1>0 DEF Variant
<1>2. 0 \in good
  BY <1>1
<1>3. ASSUME NEW k \in 1..n, k - 1 \in good PROVE k \in good
  <2>1. k \in 0..n /\ k \in 1..k /\ \A j \in 1..k : j = k \/ j \in 1..(k - 1)
    BY <1>1
  <2>2. CASE k - 1 = 0
    <3>1. BeatsUpTo(mp4, k, k)
      BY <1>1, <2>1, <2>2 DEF BeatsUpTo, BeatsIn
    <3> QED BY <2>1, <3>1
  <2>3. CASE k - 1 # 0
    <3>1. PICK i \in 1..(k - 1) : BeatsUpTo(mp4, i, k - 1)
      BY <1>3, <2>3
    <3>2. i \in 1..k /\ i \in 1..n /\ i < k
      BY <1>1
    <3>3. CASE mp4[k].rate > mp4[i].rate
      <4>1. BeatsUpTo(mp4, k, k)
        <5>1. ASSUME NEW j \in 1..(k - 1) PROVE BeatsIn(mp4, k, j)
          <6>1. mp4[i].rate >= mp4[j].rate /\ j \in 1..n
            BY <1>1, <3>1, <3>2 DEF BeatsUpTo, BeatsIn
          <6> QED BY <1>1, <3>2, <3>3, <6>1 DEF BeatsIn
        <5> QED BY <1>1, <2>1, <5>1 DEF BeatsUpTo, BeatsIn
      <4> QED BY <2>1, <4>1
    <3>4. CASE ~(mp4[k].rate > mp4[i].rate)
      <4>1. BeatsIn(mp4, i, k)
        BY <1>1, <3>2, <3>4 DEF BeatsIn
      <4>2. BeatsUpTo(mp4, i, k)
        BY <2>1, <3>1, <4>1 DEF BeatsUpTo
      <4> QED BY <2>1, <3>2, <4>2
    <3> QED BY <3>3, <3>4
  <2> QED BY <2>2, <2>3
<1>4. n \in good
  <2>1. n \in 0..n
    BY <1>1
  <2> HIDE DEF good
  <2> QED BY <1>1, <1>2, <1>3, <2>1, Counting
<1> QED BY <1>4

LEMMA BestMP4IsBest ==
  ASSUME NEW variants \in Seq(Variant)
  PROVE  IF MP4s(variants) = {} THEN BestMP4(variants) = NoFile
         ELSE \E v \in MP4s(variants) : /\ v.file = BestMP4(variants)
                                        /\ \A w \in MP4s(variants) : w.rate <= v.rate
<1> DEFINE K == {i \in DOMAIN variants : /\ variants[i].file # NoFile
                                         /\ variants[i].type = "video/mp4"}
           mp4 == Playable(variants)
<1>1. mp4 = Pick(variants, K) /\ K \in SUBSET (DOMAIN variants)
  BY DEF Playable
<1>2. \A v : v \in MP4s(variants) <=> \E i \in K : v = variants[i]
  BY DEF MP4s
<1>3. BestMP4(variants) = IF mp4 = <<>> THEN NoFile
                          ELSE mp4[CHOOSE i \in DOMAIN mp4 : \A j \in DOMAIN mp4 : BeatsIn(mp4, i, j)].file
  BY DEF BestMP4, BeatsIn
<1> HIDE DEF K, mp4
<1>4. mp4 \in Seq(Variant) /\ Len(mp4) = Cardinality(K) /\ Cardinality(K) \in Nat
  BY <1>1, PickIsSeq
<1>5. /\ \A k \in DOMAIN mp4 : \E i \in K : mp4[k] = variants[i]
      /\ \A i \in K : \E k \in DOMAIN mp4 : mp4[k] = variants[i]
  BY <1>1, PickedElements
<1>6. DOMAIN mp4 = 1..Len(mp4)
  BY <1>4
<1>7. CASE Len(mp4) = 0
  <2>1. mp4 = <<>> /\ DOMAIN mp4 = {}
    BY <1>4, <1>7
  <2>2. MP4s(variants) = {}
    BY <1>2, <1>5, <2>1
  <2> QED BY <1>3, <2>1, <2>2
<1>8. CASE Len(mp4) # 0
  <2>1. mp4 # <<>>
    BY <1>8
  <2> DEFINE Best(i) == \A j \in DOMAIN mp4 : BeatsIn(mp4, i, j)
             best == CHOOSE i \in DOMAIN mp4 : Best(i)
  <2>2. \E i \in DOMAIN mp4 : Best(i)
    BY <1>4, <1>6, <1>8, OneBeatsAll DEF BeatsUpTo
  <2>3. best \in DOMAIN mp4 /\ Best(best)
    <3> HIDE DEF Best
    <3> QED BY <2>2
  <2>4. BestMP4(variants) = mp4[best].file
    BY <1>3, <2>1
  <2> HIDE DEF best
  <2>5. mp4[best] \in MP4s(variants)
    BY <1>2, <1>5, <2>3
  <2>6. ASSUME NEW w \in MP4s(variants) PROVE w.rate <= mp4[best].rate
    <3>1. PICK k \in DOMAIN mp4 : mp4[k] = w
      BY <1>2, <1>5
    <3>0. mp4[k] \in Variant /\ mp4[best] \in Variant
      BY <1>4, <2>3
    <3>2. mp4[k].rate \in Int /\ mp4[best].rate \in Int
      BY <3>0 DEF Variant
    <3> QED BY <2>3, <3>1, <3>2 DEF BeatsIn
  <2> QED BY <2>4, <2>5, <2>6
<1> QED BY <1>7, <1>8

(***************************************************************************)
(* The invariant.  What is in use was loaded, what was read is what the    *)
(* adapter makes of the post, and a copy is the cut text and, prepared for *)
(* its target, the attachment that was read.                               *)
(***************************************************************************)
BeforeRead == {"start", "refused", "running", "passed"}
CopySteps == {"copying", "posted"}

GivenIsCase == \E family \in Cases : given \in family

ConfigLoaded ==
  IF step = "start" THEN config = given.file /\ login = "none"
  ELSE LET loaded == Load(given.file, given.env, Defaults)
       IN /\ config = loaded.config /\ login \in Answers(loaded)
          /\ step = "refused" <=> ~(loaded.valid /\ BuildPlatforms(loaded.config, login))

(* What an adapter makes of the item of a post.                            *)
MediaOf(post) ==
  IF post.item = NoFile THEN NoFile
  ELSE CASE post.origin = "mastodon" -> MediaFromAttachment(post.item)
         [] post.origin = "bluesky" -> MediaFromRecord(post.item)
         [] post.origin = "twitter" -> MediaFromTweet(post.item)

(* And of its text.                                                        *)
TextOf(post) ==
  CASE post.origin = "mastodon" -> StripHTML(Rendered(post.text))
    [] post.origin = "bluesky" -> post.text
    [] post.origin = "twitter" -> ExpandTweetURLs(post.text, post.entities)

PostRead ==
  /\ body \in Seq(Chars)
  /\ body = IF step \in BeforeRead THEN <<>> ELSE TextOf(Post)
  /\ media = IF step \in BeforeRead THEN NoFile ELSE MediaOf(Post)
  /\ step = "passed" => ~Unread
  /\ step \in {"read"} \cup CopySteps => Unread

CopyMade ==
  /\ goal \in Names \cup {"none"}
  /\ step \in CopySteps => goal \in Names /\ out = Truncate(body, TextMax[goal])
  /\ facets = IF step = "posted" /\ goal = "bluesky" THEN FindLinks(out) ELSE <<>>

MediaPrepared ==
  IF step \in CopySteps /\ media # NoFile
  THEN attachment = media /\ limits = config.limits[goal] /\ stage # "idle"
  ELSE stage = "idle"

ContentInv ==
  /\ step \in BeforeRead \cup {"read"} \cup CopySteps
  /\ GivenIsCase /\ ConfigLoaded /\ PostRead /\ CopyMade /\ MediaPrepared /\ MediaInv
LEMMA GivenForm ==
  ASSUME GivenIsCase
  PROVE  ConfigForm(given.file) /\ given.env \in SUBSET STRING /\ PostForm(Post)
<1>1. PICK family \in Cases : given \in family
  BY DEF GivenIsCase
<1>2. given \in [file : {given.file}, env : SUBSET STRING, post : {given.post}]
      /\ ConfigForm(given.file) /\ PostForm(given.post)
  BY <1>1, ContentAssumption
<1> QED BY <1>2 DEF Post

LEMMA ConfigInUse ==
  ASSUME GivenIsCase, ConfigLoaded
  PROVE  /\ config.enabled = given.file.enabled /\ config.enabled \subseteq Names
         /\ config.routes = given.file.routes
         /\ config.routes \in [DOMAIN config.routes -> Seq(STRING)]
         /\ step # "start" =>
              /\ config.set = given.file.set \cup given.env
              /\ config.limits \in [Names -> LimitForms]
              /\ login \in IF Validate(config) /\ ReachesLogin(config)
                           THEN {"opened", "failed"} ELSE {"none"}
              /\ step = "refused" <=> ~(Validate(config) /\ BuildPlatforms(config, login))
<1> DEFINE loaded == Load(given.file, given.env, Defaults)
<1>1. ConfigForm(given.file) /\ given.env \in SUBSET STRING
  BY GivenForm
<1>2. given.file.enabled \subseteq Names
      /\ given.file.routes \in [DOMAIN given.file.routes -> Seq(STRING)]
  BY <1>1 DEF ConfigForm
<1>3. /\ loaded.config.enabled = given.file.enabled
      /\ loaded.config.routes = given.file.routes
      /\ loaded.config.set = given.file.set \cup given.env
      /\ loaded.config.limits \in [Names -> LimitForms]
      /\ loaded.valid <=> Validate(loaded.config)
  BY <1>1, LoadedConfig
<1>4. CASE step = "start"
  BY <1>2, <1>4 DEF ConfigLoaded
<1>5. CASE step # "start"
  <2>1. /\ config = loaded.config
        /\ login \in IF loaded.valid /\ ReachesLogin(config) THEN {"opened", "failed"} ELSE {"none"}
        /\ step = "refused" <=> ~(loaded.valid /\ BuildPlatforms(config, login))
    BY <1>5 DEF ConfigLoaded, Answers
  <2> HIDE DEF loaded
  <2> QED BY <1>2, <1>3, <1>5, <2>1
<1> QED BY <1>4, <1>5

LEMMA MediaOfForm ==
  ASSUME NEW p, PostForm(p)
  PROVE  MediaOf(p) \in AttachmentForms \cup {NoFile}
<1> DEFINE item == p.item
<1>1. p.origin \in Names /\ p.item \in Items(p.origin) \cup {NoFile}
  BY DEF PostForm
<1>2. CASE item = NoFile
  BY <1>2 DEF MediaOf
<1>3. CASE item # NoFile /\ p.origin = "mastodon"
  <2>1. item.file \in Files \cup {NoFile} /\ item.preview \in Files \cup {NoFile}
    BY <1>1, <1>3 DEF Items
  <2>2. MediaOf(p) = MediaFromAttachment(item)
    BY <1>3 DEF MediaOf
  <2> HIDE DEF item
  <2> QED BY <2>1, <2>2 DEF MediaFromAttachment, AttachmentForms
<1>4. CASE item # NoFile /\ p.origin = "bluesky"
  <2>1. item.file \in Files \cup {NoFile} /\ item.type \in {"image", "video"}
    BY <1>1, <1>4 DEF Items, ItemTypes
  <2>2. MediaOf(p) = MediaFromRecord(item)
    BY <1>4 DEF MediaOf
  <2> HIDE DEF item
  <2> QED BY <2>1, <2>2 DEF MediaFromRecord, AttachmentForms
<1>5. CASE item # NoFile /\ p.origin = "twitter"
  <2>1. /\ item.file \in Files \cup {NoFile} /\ item.preview \in Files \cup {NoFile}
        /\ item.variants \in Seq(Variant)
    BY <1>1, <1>5 DEF Items
  <2>2. MediaOf(p) = MediaFromTweet(item)
    BY <1>5 DEF MediaOf
  <2>3. BestMP4(item.variants) \in Files \cup {NoFile}
    <3> DEFINE l == item.variants
    <3>1. \A v \in MP4s(l) : v \in Variant
      BY <2>1 DEF MP4s
    <3>2. \A v \in MP4s(l) : v.file \in Files \cup {NoFile}
      BY <3>1 DEF Variant
    <3> HIDE DEF l
    <3>3. l \in Seq(Variant)
      BY <2>1 DEF l
    <3>4. BestMP4(l) \in Files \cup {NoFile}
      BY <3>2, <3>3, BestMP4IsBest
    <3> QED BY <3>4 DEF l
  <2> HIDE DEF item
  <2> QED BY <2>1, <2>2, <2>3 DEF MediaFromTweet, AttachmentForms
<1> QED BY <1>1, <1>2, <1>3, <1>4, <1>5 DEF Names

LEMMA ContentStarts == ContentInit => ContentInv
<1> SUFFICES ASSUME ContentInit PROVE ContentInv
  OBVIOUS
<1>1. AnyAttachment \in Attachments /\ AnyLimits \in MediaLimits
  BY ContentAssumption DEF AnyAttachment, AnyLimits
<1>2. MediaInit
  BY <1>1 DEF ContentInit, MediaInit
<1>3. MediaInv
  BY <1>2, Starts
<1>4. step = "start" /\ config = given.file /\ login = "none" /\ GivenIsCase /\ stage = "idle"
  BY DEF ContentInit, GivenIsCase
<1>5. PostRead
  <2>1. body \in Seq(Chars) /\ body = <<>> /\ media = NoFile
    BY DEF ContentInit
  <2> QED BY <1>4, <2>1 DEF PostRead, BeforeRead, CopySteps
<1>6. CopyMade
  BY <1>4 DEF ContentInit, CopyMade, CopySteps
<1> QED BY <1>3, <1>4, <1>5, <1>6
        DEF ContentInv, ConfigLoaded, MediaPrepared, BeforeRead, CopySteps

(* What the adapters make of the text is text.                             *)
LEMMA TextIsRead ==
  ASSUME PostForm(Post), Read
  PROVE  body' \in Seq(Chars) /\ body' = TextOf(Post) /\ media' = MediaOf(Post)
<1>1. /\ Post.origin \in Names /\ Post.text \in Seq(STRING) /\ Post.entities \in Seq(Entities)
  BY DEF PostForm
<1>2. Post.text \in Seq(Chars)
  BY <1>1, Literals, SeqMonotonic
<1>3. CASE Post.origin = "mastodon"
  <2>1. ToPostMastodon
    BY <1>3 DEF Read
  <2>2. StripHTML(Rendered(Post.text)) \in Seq(Chars)
    BY <1>2, RenderedIsText, StripHTMLIsText
  <2> QED BY <1>3, <2>1, <2>2 DEF ToPostMastodon, Converted, MediaOf, TextOf
<1>4. CASE Post.origin = "bluesky"
  <2>1. ToPostBluesky
    BY <1>4 DEF Read
  <2> QED BY <1>2, <1>4, <2>1 DEF ToPostBluesky, Converted, MediaOf, TextOf
<1>5. CASE Post.origin = "twitter"
  <2>1. ToPostTwitter
    BY <1>5 DEF Read
  <2>2. ExpandTweetURLs(Post.text, Post.entities) \in Seq(Chars)
    BY <1>1, <1>2, ExpandTweetURLsIsText
  <2> QED BY <1>5, <2>1, <2>2 DEF ToPostTwitter, Converted, MediaOf, TextOf
<1> QED BY <1>1, <1>3, <1>4, <1>5 DEF Names

(* Where a copy goes.                                                      *)
LEMMA GoalIsTarget ==
  ASSUME GivenIsCase, ConfigLoaded, NEW origin \in Names, NEW i \in DOMAIN Routes(origin)
  PROVE  Routes(origin)[i] \in Targets(config) /\ Routes(origin)[i] \in Names
<1> DEFINE list == Routes(origin)
<1>1. config.enabled \subseteq Names /\ config.routes \in [DOMAIN config.routes -> Seq(STRING)]
  BY ConfigInUse
<1>2. {list[k] : k \in DOMAIN list} \subseteq Targets(config) \ {origin}
  BY <1>1, RoutesLeadToTargets DEF Routes
<1>3. Targets(config) \subseteq Names
  BY <1>1 DEF Targets
<1> HIDE DEF list
<1>4. list[i] \in Targets(config)
  BY <1>2 DEF list
<1> QED BY <1>3, <1>4 DEF list

LEMMA StartUpKeeps == ASSUME ContentInv, StartUp PROVE ContentInv'
<1>1. /\ step = "start" /\ UNCHANGED <<given, body, media, goal, out, facets>>
      /\ UNCHANGED mediaVars /\ step' \in {"running", "refused"}
  BY DEF StartUp
<1>2. ConfigLoaded'
  BY <1>1 DEF StartUp, ConfigLoaded
<1>3. MediaInv'
  BY <1>1, MediaStepKeeps DEF ContentInv
<1>4. GivenIsCase' /\ CopyMade'
  BY <1>1 DEF ContentInv, GivenIsCase, CopyMade, CopySteps
<1>5. PostRead'
  BY <1>1 DEF ContentInv, PostRead, BeforeRead, CopySteps
<1>6. MediaPrepared'
  BY <1>1 DEF ContentInv, MediaPrepared, CopySteps, mediaVars
<1> QED BY <1>1, <1>2, <1>3, <1>4, <1>5, <1>6 DEF ContentInv, BeforeRead

(* The configuration, the case and what is kept of them.                   *)
LEMMA ConfigKept ==
  ASSUME GivenIsCase, ConfigLoaded, UNCHANGED <<given, config, login>>,
         step # "start", step # "refused", step' # "start", step' # "refused"
  PROVE  GivenIsCase' /\ ConfigLoaded'
  BY DEF GivenIsCase, ConfigLoaded, Answers

LEMMA ReadKeeps == ASSUME ContentInv, Read \/ PassOver PROVE ContentInv'
<1>1. /\ step = "running" /\ UNCHANGED <<given, config, login, goal, out, facets>>
      /\ UNCHANGED mediaVars /\ step' = IF Unread THEN "read" ELSE "passed"
      /\ Unread' = Unread /\ Post' = Post
  BY DEF Read, PassOver, Unread, Post
<1>2. GivenIsCase' /\ ConfigLoaded'
  BY <1>1, ConfigKept DEF ContentInv
<1>3. MediaInv'
  BY <1>1, MediaStepKeeps DEF ContentInv
<1>4. CopyMade'
  BY <1>1 DEF ContentInv, CopyMade, CopySteps
<1>5. PostRead'
  <2>1. PostForm(Post)
    BY GivenForm DEF ContentInv
  <2>2. CASE Read
    <3>1. body' \in Seq(Chars) /\ body' = TextOf(Post) /\ media' = MediaOf(Post)
      BY <2>1, <2>2, TextIsRead
    <3>2. step' = "read" /\ Unread
      BY <2>2 DEF Read
    <3> QED BY <1>1, <3>1, <3>2 DEF PostRead, BeforeRead, CopySteps
  <2>3. CASE PassOver
    <3>1. step' = "passed" /\ ~Unread /\ UNCHANGED <<body, media>>
      BY <2>3 DEF PassOver
    <3> QED BY <1>1, <3>1 DEF ContentInv, PostRead, BeforeRead, CopySteps
  <2> QED BY <2>2, <2>3
<1>6. MediaPrepared'
  BY <1>1 DEF ContentInv, MediaPrepared, CopySteps, mediaVars
<1> QED BY <1>1, <1>2, <1>3, <1>4, <1>5, <1>6 DEF ContentInv, BeforeRead

LEMMA CopyKeeps == ASSUME ContentInv, Copy PROVE ContentInv'
<1>1. /\ step = "read" /\ step' = "copying" /\ UNCHANGED <<given, config, login, body, media, facets>>
      /\ Unread' = Unread /\ Post' = Post
  BY DEF Copy, Unread, Post
<1>2. GivenIsCase' /\ ConfigLoaded'
  BY <1>1, ConfigKept DEF ContentInv
<1>3. PostForm(Post) /\ Post.origin \in Names
  <2>1. PostForm(Post)
    BY GivenForm DEF ContentInv
  <2> QED BY <2>1 DEF PostForm
<1>4. PICK i \in DOMAIN Routes(Post.origin) :
        /\ goal' = Routes(Post.origin)[i]
        /\ out' = Truncate(body, TextMax[goal'])
        /\ IF media = NoFile THEN UNCHANGED mediaVars
           ELSE PrepareAttachment(media, config.limits[goal'])
  BY DEF Copy
<1>5. goal' \in Names
  BY <1>3, <1>4, GoalIsTarget DEF ContentInv
<1>6. config.limits[goal'] \in LimitForms
  <2>1. config.limits \in [Names -> LimitForms]
    BY <1>1, ConfigInUse DEF ContentInv
  <2> QED BY <1>5, <2>1
<1>7. media \in AttachmentForms \cup {NoFile}
  BY <1>1, <1>3, MediaOfForm DEF ContentInv, PostRead, BeforeRead
<1>8. MediaInv'
  BY <1>4, <1>6, <1>7, MediaStepKeeps, PreparationStarts DEF ContentInv
<1>9. PostRead'
  BY <1>1 DEF ContentInv, PostRead, BeforeRead, CopySteps
<1>10. CopyMade'
  BY <1>1, <1>4, <1>5 DEF ContentInv, CopyMade, CopySteps
<1>11. MediaPrepared'
  <2>1. CASE media = NoFile
    BY <1>1, <1>4, <2>1 DEF ContentInv, MediaPrepared, CopySteps, mediaVars
  <2>2. CASE media # NoFile
    <3>1. PrepareAttachment(media, config.limits[goal'])
      BY <1>4, <2>2
    <3>2. attachment' = media /\ limits' = config.limits[goal'] /\ stage' # "idle"
      BY <3>1 DEF PrepareAttachment, Get
    <3> QED BY <1>1, <2>2, <3>2 DEF MediaPrepared, CopySteps
  <2> QED BY <2>1, <2>2
<1> QED BY <1>1, <1>2, <1>8, <1>9, <1>10, <1>11 DEF ContentInv, CopySteps

LEMMA MediaStepsGoOn ==
  ASSUME MediaStep
  PROVE  UNCHANGED <<attachment, limits>> /\ stage # "idle" /\ stage' # "idle"
<1>1. ASSUME CannotFit PROVE UNCHANGED <<attachment, limits>> /\ stage' # "idle"
  BY <1>1 DEF CannotFit, Get
<1>2. ASSUME NEW f, Return(f) PROVE UNCHANGED <<attachment, limits>> /\ stage' # "idle"
  BY <1>2 DEF Return
<1>3. ASSUME NEW d, NextAttempt(d)
      PROVE  UNCHANGED <<attachment, limits>> /\ stage' = stage
  BY <1>3 DEF NextAttempt
<1>4. CASE FetchFails
  BY <1>4 DEF FetchFails
<1>5. CASE Fetched
  BY <1>1, <1>2, <1>5 DEF Fetched, StartLoop
<1>6. CASE Unreadable
  BY <1>1, <1>6 DEF Unreadable
<1>7. CASE Encode
  <2>1. PICK d \in edges : \E f \in Encoded(d) :
                             IF Within(Budget, f.bytes) THEN Return(f) ELSE NextAttempt(d)
    BY <1>7 DEF Encode
  <2>2. PICK f \in Encoded(d) : Return(f) \/ NextAttempt(d)
    BY <2>1
  <2>3. stage = "encode"
    BY <1>7 DEF Encode
  <2> QED BY <1>2, <1>3, <2>2, <2>3
<1>8. CASE EncodeFails
  BY <1>1, <1>3, <1>8 DEF EncodeFails
<1>9. CASE NothingLeft
  BY <1>1, <1>9 DEF NothingLeft
<1> QED BY <1>4, <1>5, <1>6, <1>7, <1>8, <1>9 DEF MediaStep

LEMMA PrepareKeeps == ASSUME ContentInv, Prepare PROVE ContentInv'
<1>1. /\ step = "copying" /\ UNCHANGED <<given, config, login, step, body, media, goal, out, facets>>
      /\ MediaStep /\ Unread' = Unread /\ Post' = Post
  BY DEF Prepare, Unread, Post
<1>2. GivenIsCase' /\ ConfigLoaded'
  BY <1>1, ConfigKept DEF ContentInv
<1>3. MediaInv'
  BY <1>1, MediaStepKeeps DEF ContentInv
<1>4. PostRead'
  BY <1>1 DEF ContentInv, PostRead
<1>5. CopyMade'
  BY <1>1 DEF ContentInv, CopyMade
<1>6. MediaPrepared'
  <2>1. UNCHANGED <<attachment, limits>> /\ stage # "idle" /\ stage' # "idle"
    BY <1>1, MediaStepsGoOn
  <2> QED BY <1>1, <2>1 DEF ContentInv, MediaPrepared
<1> QED BY <1>1, <1>2, <1>3, <1>4, <1>5, <1>6 DEF ContentInv

LEMMA PublishKeeps == ASSUME ContentInv, Publish PROVE ContentInv'
<1>1. /\ step = "copying" /\ step' = "posted"
      /\ UNCHANGED <<given, config, login, body, media, goal, out>>
      /\ UNCHANGED mediaVars /\ Unread' = Unread /\ Post' = Post
      /\ facets' = IF goal = "bluesky" THEN FindLinks(out) ELSE <<>>
  BY DEF Publish, Unread, Post
<1>2. GivenIsCase' /\ ConfigLoaded'
  BY <1>1, ConfigKept DEF ContentInv
<1>3. MediaInv'
  BY <1>1, MediaStepKeeps DEF ContentInv
<1>4. PostRead'
  BY <1>1 DEF ContentInv, PostRead, BeforeRead, CopySteps
<1>5. CopyMade'
  BY <1>1 DEF ContentInv, CopyMade, CopySteps
<1>6. MediaPrepared'
  BY <1>1 DEF ContentInv, MediaPrepared, CopySteps, mediaVars
<1> QED BY <1>1, <1>2, <1>3, <1>4, <1>5, <1>6 DEF ContentInv, CopySteps

LEMMA NothingHappens == ASSUME ContentInv, UNCHANGED contentVars PROVE ContentInv'
<1>1. UNCHANGED <<given, config, login, step, body, media, goal, out, facets>> /\ UNCHANGED mediaVars
  BY DEF contentVars
<1>2. MediaInv'
  BY <1>1, MediaStepKeeps DEF ContentInv
<1>3. PostRead'
  BY <1>1 DEF ContentInv, PostRead, Unread, Post
<1>4. GivenIsCase' /\ ConfigLoaded' /\ CopyMade'
  BY <1>1 DEF ContentInv, GivenIsCase, ConfigLoaded, Answers, CopyMade
<1>5. MediaPrepared'
  BY <1>1 DEF ContentInv, MediaPrepared, mediaVars
<1> QED BY <1>1, <1>2, <1>3, <1>4, <1>5 DEF ContentInv

LEMMA ContentInvHolds == ContentSpec => []ContentInv
<1>1. ContentInv /\ [ContentNext]_contentVars => ContentInv'
  BY StartUpKeeps, ReadKeeps, CopyKeeps, PrepareKeeps, PublishKeeps, NothingHappens
  DEF ContentNext
<1> QED BY <1>1, ContentStarts, PTL DEF ContentSpec

(***************************************************************************)
(* The theorems.                                                           *)
(***************************************************************************)
(* main.go starts a process exactly when the file and the environment      *)
(* together hold what the enabled platforms need and Bluesky, where it is  *)
(* enabled, accepts the login: what Validate lets pass lacks nothing that  *)
(* a constructor asks for, and where something is missing no login is      *)
(* tried.                                                                  *)
THEOREM CompleteStarts == ContentSpec => []StartsWhenComplete
<1>1. ContentInv => StartsWhenComplete
  <2> SUFFICES ASSUME ContentInv, step # "start" PROVE StartsWhenComplete
    BY DEF StartsWhenComplete
  <2>1. /\ config.enabled = given.file.enabled /\ config.enabled \subseteq Names
        /\ config.set = given.file.set \cup given.env
        /\ login \in IF Validate(config) /\ ReachesLogin(config)
                     THEN {"opened", "failed"} ELSE {"none"}
        /\ step = "refused" <=> ~(Validate(config) /\ BuildPlatforms(config, login))
    BY ConfigInUse DEF ContentInv
  <2>2. /\ Validate(config) <=> HoldsEnough(config)
        /\ Validate(config) => (ReachesLogin(config) <=> "bluesky" \in config.enabled)
        /\ Validate(config) => (BuildPlatforms(config, login) <=>
                                  ("bluesky" \in config.enabled => login = "opened"))
    BY <2>1, ValidMeansComplete
  <2>3. /\ login # "none" <=> HoldsEnough(config) /\ "bluesky" \in config.enabled
        /\ step = "refused" <=> ~HoldsEnough(config) \/ login = "failed"
    BY <2>1, <2>2
  <2> QED BY <2>1, <2>3, Zenon DEF StartsWhenComplete, HoldsEnough
<1> QED BY <1>1, ContentInvHolds, PTL

(* TargetsFor, whatever an operator wrote as a route, leads only to        *)
(* platforms that can be posted to, never back to the origin, and where    *)
(* nothing was written to all of the others.                               *)
THEOREM RoutesLeadAway == ContentSpec => []RoutesSound
<1>1. ContentInv => RoutesSound
  <2> SUFFICES ASSUME ContentInv, step \notin {"start", "refused"}, NEW origin \in Names
               PROVE  LET reached == {Routes(origin)[i] : i \in DOMAIN Routes(origin)}
                      IN /\ reached \subseteq Targets(config) \ {origin}
                         /\ origin \notin DOMAIN given.file.routes =>
                              /\ reached = Targets(config) \ {origin}
                              /\ Len(Routes(origin)) <= 2
    BY Zenon DEF RoutesSound
  <2>1. /\ config.enabled \subseteq Names /\ config.routes = given.file.routes
        /\ config.routes \in [DOMAIN config.routes -> Seq(STRING)]
    BY ConfigInUse DEF ContentInv
  <2> QED BY <2>1, RoutesLeadToTargets DEF Routes
<1> QED BY <1>1, ContentInvHolds, PTL

(* Truncate leaves a text that fits alone, and cuts another at the last    *)
(* place within the limit that is not inside a URL.                        *)
THEOREM CopiesFit == ContentSpec => []TextFits
<1>1. ContentInv => TextFits
  <2> SUFFICES ASSUME ContentInv, step = "posted" PROVE TextFits
    BY DEF TextFits
  <2> DEFINE max == TextMax[goal]
  <2>1. goal \in Names /\ out = Truncate(body, max) /\ body \in Seq(Chars)
    BY DEF ContentInv, CopyMade, PostRead, CopySteps
  <2>2. max \in Nat \ {0}
    BY <2>1, ContentAssumption
  <2> HIDE DEF max
  <2>3. /\ Len(out) <= max
        /\ out = IF Len(body) <= max THEN body
                 ELSE TrimSpace(SubSeq(body, 1, LastCut(body, max))) \o <<Ellipsis>>
    BY <2>1, <2>2, TruncatedTextFits
  <2> QED BY <2>3 DEF TextFits, LastCut, InUrl, max
<1> QED BY <1>1, ContentInvHolds, PTL

(* trimLinkEnd stops where an address may end, and nowhere else.           *)
LEMMA AddressEnds ==
  ASSUME NEW S, NEW s \in Seq(S), NEW i \in 1..Len(s), NEW e \in i..Len(s),
         \A k \in i..e : ~IsSpace(s[k]), NEW j \in i..e
  PROVE  Address(SubSeq(s, i, j)) <=> ~GivenUp(SubSeq(s, i, e), j - i + 1)
<1> DEFINE a == SubSeq(s, i, j)
           raw == SubSeq(s, i, e)
           n == j - i + 1
<1>1. i \in Nat /\ j \in Nat /\ e \in Nat /\ 1 <= i /\ i <= j /\ j <= e /\ e <= Len(s)
  OBVIOUS
<1>2. /\ Len(a) = n /\ DOMAIN a = 1..n /\ n \in Nat /\ n >= 1
      /\ \A k \in 1..n : a[k] = raw[k] /\ a[k] = s[i + k - 1] /\ i + k - 1 \in i..e
  BY <1>1
<1>3. \A k \in DOMAIN a : ~IsSpace(a[k])
  BY <1>2
<1> HIDE DEF a, raw, n
<1>4. ASSUME NEW c PROVE Cardinality({k \in DOMAIN a : a[k] = c}) = Counted(raw, n, c)
  <2>1. {k \in DOMAIN a : a[k] = c} = {k \in 1..n : raw[k] = c}
    BY <1>2
  <2> QED BY <2>1 DEF Counted
<1>5. /\ a[Len(a)] = raw[n]
      /\ \A c : Counted(raw, n, c) \in Nat
  <2>1. ASSUME NEW c PROVE Counted(raw, n, c) \in Nat
    <3>1. IsFiniteSet(1..n)
      BY <1>2, FirstNumbers
    <3>2. IsFiniteSet({k \in 1..n : raw[k] = c})
      BY <3>1, FS_Subset
    <3> QED BY <3>2, FS_CardinalityType DEF Counted
  <2> QED BY <1>2, <2>1
<1>6. Address(a) <=> /\ raw[n] \notin {".", Ellipsis}
                     /\ raw[n] = ")" => Counted(raw, n, ")") <= Counted(raw, n, "(")
  BY <1>3, <1>4, <1>5 DEF Address
<1>7. Address(a) <=> ~GivenUp(raw, n)
  <2>1. Counted(raw, n, ")") <= Counted(raw, n, "(") <=> ~(Counted(raw, n, "(") < Counted(raw, n, ")"))
    <3>1. Counted(raw, n, ")") \in Nat /\ Counted(raw, n, "(") \in Nat
      BY <1>5
    <3> QED BY <3>1
  <2> QED BY <1>6, <2>1 DEF GivenUp
<1> QED BY <1>7 DEF a, raw, n

(* Where urlPattern finds a URL there is one link, as long as trimLinkEnd  *)
(* leaves it, and elsewhere there is none.                                 *)
LEMMA OneLink ==
  ASSUME NEW S, NEW s \in Seq(S), NEW i \in DOMAIN s
  PROVE  /\ UrlStart(s, i) <=> \E j \in i..Len(s) : LinkFromTo(s, i, j)
         /\ UrlStart(s, i) => \A j \in i..Len(s) : LinkFromTo(s, i, j) => SubSeq(s, i, j) = LinkAt(s, i)
<1> DEFINE Begins == /\ s[i] = "scheme" /\ i + 1 \in DOMAIN s /\ ~IsSpace(s[i + 1])
                    /\ ~\E k \in 1..(i - 1) : s[k] = "scheme" /\ \A m \in k..i : ~IsSpace(s[m])
           Longest(j) == /\ Address(SubSeq(s, i, j))
                      /\ \A m \in (j + 1)..Len(s) : ~Address(SubSeq(s, i, m))
<1>1. DOMAIN s = 1..Len(s) /\ Len(s) \in Nat /\ i \in 1..Len(s)
  OBVIOUS
<1>2. UrlStart(s, i) <=> Begins
  BY <1>1 DEF UrlStart
<1>3. \A j : LinkFromTo(s, i, j) <=> Begins /\ Longest(j)
  BY DEF LinkFromTo
<1> HIDE DEF Begins, Longest
<1>4. ASSUME UrlStart(s, i)
      PROVE  \E l \in i..Len(s) : /\ Longest(l) /\ SubSeq(s, i, l) = LinkAt(s, i)
                                  /\ \A j \in i..Len(s) : Longest(j) => j = l
  <2> DEFINE e == UrlEnd(s, i)
             raw == SubSeq(s, i, e)
             n == LinkLength(raw)
             l == i + n - 1
  <2>1. s[i] = "scheme" /\ ~IsSpace(s[i])
    BY <1>4 DEF UrlStart, IsSpace, Space, Newline
  <2>2. /\ e \in i..Len(s) /\ \A k \in i..e : ~IsSpace(s[k])
        /\ e = Len(s) \/ IsSpace(s[e + 1])
    BY <1>1, <2>1, UrlEnds
  <2> HIDE DEF e
  <2>b. e \in Nat /\ i \in Nat /\ 1 <= i /\ i <= e /\ e <= Len(s)
    <3>1. e \in i..Len(s) /\ i \in 1..Len(s) /\ Len(s) \in Nat
      BY <1>1, <2>2
    <3> QED BY <3>1
  <2>3. raw \in Seq(S) /\ Len(raw) = e - i + 1 /\ Len(raw) # 0 /\ raw[1] = "scheme"
    BY <1>1, <2>1, <2>b
  <2>4. \A j \in i..e : Address(SubSeq(s, i, j)) <=> ~GivenUp(raw, j - i + 1)
    BY <1>1, <2>2, AddressEnds
  <2>5. LinkAt(s, i) = SubSeq(raw, 1, n)
    BY DEF LinkAt, e
  <2>a. ASSUME NEW j \in i..e PROVE SubSeq(s, i, j) = SubSeq(raw, 1, j - i + 1)
    <3> DEFINE x == SubSeq(s, i, j)
               y == SubSeq(raw, 1, j - i + 1)
               c == j - i + 1
    <3>1. c \in 1..Len(raw) /\ c \in Nat /\ j \in Nat /\ i <= j /\ j <= Len(s)
      BY <1>1, <2>3, <2>b
    <3>2. \A k \in 1..c : i + k - 1 \in i..e /\ 1 + k - 1 = k
      BY <1>1, <2>b, <3>1
    <3>3. \A k \in 1..(e - i + 1) : raw[k] = s[i + k - 1]
      BY <1>1, <2>b
    <3> HIDE DEF raw
    <3>4. x \in Seq(S) /\ Len(x) = c /\ \A k \in 1..c : x[k] = s[i + k - 1]
      BY <1>1, <2>b, <3>1
    <3>5. y \in Seq(S) /\ Len(y) = c /\ \A k \in 1..c : y[k] = raw[k]
      BY <2>3, <3>1, <3>2
    <3>6. ASSUME NEW k \in 1..c PROVE x[k] = y[k]
      <4>1. k \in 1..(e - i + 1)
        BY <2>3, <2>b, <3>1
      <4> QED BY <3>3, <3>4, <3>5, <4>1
    <3> HIDE DEF x, y, c
    <3>7. x = y
      BY <3>1, <3>4, <3>5, <3>6
    <3> QED BY <3>7 DEF x, y
  <2> HIDE DEF raw
  <2>6. n \in 1..Len(raw) /\ Left(raw, n)
    BY <2>3, LinkKeepsItsScheme, LinkLengthIs
  <2> HIDE DEF n
  <2>7. n \in Nat /\ i \in Nat /\ e \in Nat /\ l \in i..e /\ l - i + 1 = n /\ l \in i..Len(s)
    BY <1>1, <2>3, <2>6, <2>b
  <2> HIDE DEF l
  <2>8. Address(SubSeq(s, i, l))
    BY <2>4, <2>6, <2>7 DEF Left
  <2>9. ASSUME NEW m \in (l + 1)..Len(s) PROVE ~Address(SubSeq(s, i, m))
    <3>1. CASE m \in i..e
      <4>1. m - i + 1 \in (n + 1)..Len(raw)
        BY <2>3, <2>7, <3>1
      <4>2. GivenUp(raw, m - i + 1)
        BY <2>6, <4>1 DEF Left
      <4> QED BY <2>4, <3>1, <4>2
    <3>2. CASE m \notin i..e
      <4> DEFINE b == SubSeq(s, i, m)
                 k == e + 1 - i + 1
      <4>1. e # Len(s) /\ e + 1 <= m /\ m <= Len(s) /\ m \in Nat
        <5>1. m \in Nat /\ l + 1 <= m /\ m <= Len(s) /\ l \in Nat /\ i <= l /\ Len(s) \in Nat
          BY <1>1, <2>7, <2>b
        <5>2. ~(m <= e)
          BY <2>b, <3>2, <5>1
        <5> QED BY <2>b, <5>1, <5>2
      <4>2. k \in DOMAIN b /\ b[k] = s[e + 1]
        <5>1. Len(b) = m - i + 1 /\ DOMAIN b = 1..(m - i + 1) /\ \A q \in 1..(m - i + 1) : b[q] = s[i + q - 1]
          BY <1>1, <2>b, <4>1
        <5>2. k \in 1..(m - i + 1) /\ i + k - 1 = e + 1
          BY <2>b, <4>1
        <5> QED BY <5>1, <5>2
      <4>3. IsSpace(b[k])
        BY <2>2, <4>1, <4>2
      <4> HIDE DEF b, k
      <4>4. ~Address(b)
        BY <4>2, <4>3 DEF Address
      <4> QED BY <4>4 DEF b
    <3> QED BY <3>1, <3>2
  <2>10. Longest(l) /\ SubSeq(s, i, l) = LinkAt(s, i)
    BY <2>5, <2>7, <2>8, <2>9, <2>a DEF Longest
  <2>11. ASSUME NEW j \in i..Len(s), Longest(j) PROVE j = l
    <3>1. ~(j \in (l + 1)..Len(s))
      BY <2>9, <2>11 DEF Longest
    <3>2. ~(l \in (j + 1)..Len(s))
      BY <2>8, <2>11 DEF Longest
    <3> QED BY <1>1, <2>7, <3>1, <3>2
  <2> QED BY <2>7, <2>10, <2>11
<1>5. UrlStart(s, i) <=> \E j \in i..Len(s) : LinkFromTo(s, i, j)
  BY <1>2, <1>3, <1>4
<1>6. ASSUME UrlStart(s, i), NEW j \in i..Len(s), LinkFromTo(s, i, j)
      PROVE  SubSeq(s, i, j) = LinkAt(s, i)
  BY <1>3, <1>4, <1>6
<1> QED BY <1>5, <1>6

(* FindLinks finds the links of a text, as LinksOf describes them.         *)
LEMMA LinksAreFound ==
  ASSUME NEW S, NEW s \in Seq(S)
  PROVE  FindLinks(s) = LinksOf(s)
<1> DEFINE K == {i \in DOMAIN s : \E j \in i..Len(s) : LinkFromTo(s, i, j)}
           starts == Ascending(K)
           End(i) == CHOOSE j \in i..Len(s) : LinkFromTo(s, i, j)
<1>1. K = LinkStarts(s)
  BY OneLink DEF LinkStarts
<1>2. starts \in Seq(K)
  <2>1. K \in SUBSET (1..Len(s)) /\ Len(s) \in Nat
    OBVIOUS
  <2> HIDE DEF K
  <2> QED BY <2>1, AscendingGoesUp
<1>3. ASSUME NEW i \in K PROVE SubSeq(s, i, End(i)) = LinkAt(s, i)
  <2>1. i \in DOMAIN s /\ \E j \in i..Len(s) : LinkFromTo(s, i, j)
    OBVIOUS
  <2>2. End(i) \in i..Len(s) /\ LinkFromTo(s, i, End(i))
    BY <2>1
  <2> HIDE DEF End
  <2> QED BY <2>1, <2>2, OneLink
<1>4. LinksOf(s) = [k \in DOMAIN starts |->
                      [at |-> starts[k], url |-> SubSeq(s, starts[k], End(starts[k]))]]
  BY DEF LinksOf
<1>5. FindLinks(s) = [k \in DOMAIN starts |-> [at |-> starts[k], url |-> LinkAt(s, starts[k])]]
  BY <1>1 DEF FindLinks, LinkStarts, LinkAt
<1> HIDE DEF K, starts, End
<1>6. \A k \in DOMAIN starts : starts[k] \in K
  BY <1>2
<1> QED BY <1>3, <1>4, <1>5, <1>6

(* The links that linkFacets marks in a copy are those of its text, each   *)
(* without the sentence's punctuation (trimLinkEnd), and the first ones of *)
(* the post, whole: wherever Truncate cuts, it neither shortens an address *)
(* nor lets the ellipsis become a part of one.  That takes a host behind   *)
(* every scheme: a bare one is no link, until an ellipsis follows it.      *)
THEOREM LinksStayWhole == ContentSpec => [](HostsFollow(body) => LinksWhole)
<1>1. ContentInv => (HostsFollow(body) => LinksWhole)
  <2> SUFFICES ASSUME ContentInv, HostsFollow(body), step = "posted", goal = "bluesky"
               PROVE  LinksWhole
    BY DEF LinksWhole
  <2> DEFINE max == TextMax[goal]
  <2>1. /\ goal \in Names /\ out = Truncate(body, max) /\ body \in Seq(Chars)
        /\ facets = FindLinks(out)
    BY DEF ContentInv, CopyMade, PostRead, CopySteps
  <2>2. max \in Nat \ {0}
    BY <2>1, ContentAssumption
  <2> HIDE DEF max
  <2>3. /\ Len(FindLinks(out)) <= Len(FindLinks(body))
        /\ Addresses(out) = SubSeq(Addresses(body), 1, Len(FindLinks(out)))
    BY <2>1, <2>2, TruncateKeepsLinks
  <2>4. FindLinks(out) = LinksOf(out) /\ FindLinks(body) = LinksOf(body)
    <3>1. out \in Seq(Chars)
      BY <2>1, <2>2, TruncateIsText
    <3> QED BY <2>1, <3>1, LinksAreFound
  <2> QED BY <2>1, <2>3, <2>4 DEF LinksWhole, Addresses
<1> QED BY <1>1, ContentInvHolds, PTL

(* What prepareAttachment hands to the target of a copy is within the      *)
(* limits that are configured for it.                                      *)
THEOREM CopiedMediaFits == ContentSpec => []MediaFits
<1>1. ContentInv => MediaFits
  BY DEF ContentInv, MediaInv
<1> QED BY <1>1, ContentInvHolds, PTL

(* What BestShown asks of one item.                                        *)
Shows(item, kind, shown, dropped) ==
  LET moving == item.type \in {"video", "animated_gif", "gifv"}
      mp4s == MP4s(item.variants)
  IN /\ kind = "video" => IF mp4s = {} THEN shown = item.file
                          ELSE \E v \in mp4s : /\ v.file = shown
                                               /\ \A w \in mp4s : w.rate <= v.rate
     /\ kind = "image" => shown \in {NoFile, IF moving THEN item.preview ELSE item.file}
     /\ dropped /\ shown = NoFile =>
          \/ item.type = "audio"
          \/ (IF moving THEN item.preview ELSE item.file) = NoFile

(* What FromAttachment says of one attachment.                             *)
TakenFrom(a, kind, shown) ==
  LET moving == a.kind \in {"video", "gif"}
  IN /\ kind \in {"image", "video"}
     /\ kind = "video" => moving /\ shown = a.file /\ shown # NoFile
     /\ kind = "image" => shown = CASE a.kind = "image" -> a.file
                                    [] moving -> a.poster
                                    [] OTHER -> NoFile

LEMMA TakenIsBest ==
  ASSUME NEW p, PostForm(p), p.item # NoFile, MediaOf(p) # NoFile,
         NEW kind, NEW shown, NEW dropped \in BOOLEAN, TakenFrom(MediaOf(p), kind, shown)
  PROVE  Shows(p.item, kind, shown, dropped)
<1> DEFINE item == p.item
           a == MediaOf(p)
           mp4s == MP4s(item.variants)
<1>1. p.origin \in Names /\ item \in Items(p.origin)
  BY DEF PostForm
<1>2. CASE p.origin = "mastodon"
  <2>1. /\ item.type \in {"image", "video", "gifv", "audio", "unknown"}
        /\ item.variants = <<>>
    BY <1>1, <1>2 DEF Items, ItemTypes
  <2>2. a = MediaFromAttachment(item)
    BY <1>2 DEF MediaOf
  <2>3. mp4s = {}
    BY <2>1 DEF MP4s
  <2> HIDE DEF item, mp4s
  <2>4. /\ a.file = item.file /\ a.poster = item.preview
        /\ a.kind = CASE item.type = "video" -> "video"
                      [] item.type = "gifv" -> "gif"
                      [] item.type = "audio" -> "audio"
                      [] OTHER -> "image"
    BY <2>2 DEF MediaFromAttachment
  <2> HIDE DEF a
  <2>5. TakenFrom(a, kind, shown)
    BY DEF a
  <2>6. Shows(item, kind, shown, dropped)
    BY <2>1, <2>3, <2>4, <2>5 DEF TakenFrom, Shows, mp4s
  <2> QED BY <2>6 DEF item
<1>3. CASE p.origin = "bluesky"
  <2>1. item.type \in {"image", "video"} /\ item.variants = <<>> /\ item.preview = NoFile
    BY <1>1, <1>3 DEF Items, ItemTypes
  <2>2. a = MediaFromRecord(item) /\ a # NoFile
    BY <1>3 DEF MediaOf
  <2>3. mp4s = {}
    BY <2>1 DEF MP4s
  <2> HIDE DEF item, mp4s
  <2>4. item.file # NoFile /\ a = [kind |-> item.type, file |-> item.file, poster |-> NoFile]
    BY <2>2 DEF MediaFromRecord
  <2>5. a.file = item.file /\ a.poster = NoFile /\ a.kind = item.type
    BY <2>4
  <2> HIDE DEF a
  <2>6. TakenFrom(a, kind, shown)
    BY DEF a
  <2>7. Shows(item, kind, shown, dropped)
    BY <2>1, <2>3, <2>4, <2>5, <2>6 DEF TakenFrom, Shows, mp4s
  <2> QED BY <2>7 DEF item
<1>4. CASE p.origin = "twitter"
  <2> DEFINE best == BestMP4(item.variants)
  <2>1. item.type \in {"photo", "video", "animated_gif"} /\ item.variants \in Seq(Variant)
    BY <1>1, <1>4 DEF Items, ItemTypes
  <2>2. a = MediaFromTweet(item)
    BY <1>4 DEF MediaOf
  <2>3. IF mp4s = {} THEN best = NoFile
        ELSE \E v \in mp4s : v.file = best /\ \A w \in mp4s : w.rate <= v.rate
    <3> HIDE DEF item
    <3> QED BY <2>1, BestMP4IsBest
  <2>4. \A v \in mp4s : v.file # NoFile
    BY DEF MP4s
  <2> HIDE DEF item, mp4s
  <2>5. /\ a.poster = item.preview
        /\ a.kind = CASE item.type = "video" -> "video"
                      [] item.type = "animated_gif" -> "gif"
                      [] OTHER -> "image"
        /\ a.file = CASE item.type = "video" -> best
                      [] item.type = "animated_gif" /\ best # NoFile -> best
                      [] OTHER -> item.file
    BY <2>2 DEF MediaFromTweet
  <2> HIDE DEF a, best
  <2>6. TakenFrom(a, kind, shown)
    BY DEF a
  <2>7. mp4s = MP4s(item.variants)
    BY DEF mp4s
  <2>8. kind = "video" => IF mp4s = {} THEN shown = item.file
                          ELSE \E v \in mp4s : v.file = shown /\ \A w \in mp4s : w.rate <= v.rate
    <3>1. ASSUME kind = "video", mp4s # {} PROVE shown = best
      <4>1. best # NoFile
        BY <2>3, <2>4, <3>1
      <4> QED BY <2>1, <2>5, <2>6, <3>1, <4>1 DEF TakenFrom
    <3>2. ASSUME kind = "video", mp4s = {} PROVE shown = item.file
      BY <2>1, <2>3, <2>5, <2>6, <3>2 DEF TakenFrom
    <3> QED BY <2>3, <3>1, <3>2
  <2>9. /\ kind = "image" => shown = IF item.type = "photo" THEN item.file ELSE item.preview
        /\ kind \in {"image", "video"} /\ (kind = "video" => shown # NoFile)
    BY <2>1, <2>5, <2>6 DEF TakenFrom
  <2>10. Shows(item, kind, shown, dropped)
    BY <2>1, <2>7, <2>8, <2>9 DEF Shows
  <2> QED BY <2>10 DEF item
<1> QED BY <1>1, <1>2, <1>3, <1>4 DEF Names

(* What is shown of an attachment is the best its origin has of it: the    *)
(* choice the adapters make (mediaFromAttachment, mediaFromTweet, bestMP4, *)
(* the embeds of Bluesky) and then prepareAttachment.                      *)
THEOREM BestIsShown == ContentSpec => []BestShown
<1>1. ContentInv => BestShown
  <2> SUFFICES ASSUME ContentInv, step \in CopySteps, Post.item # NoFile PROVE BestShown
    BY DEF BestShown, CopySteps
  <2>1. PostForm(Post) /\ media = MediaOf(Post)
    BY GivenForm DEF ContentInv, PostRead, BeforeRead, CopySteps
  <2>2. FromAttachment /\ as \in {"image", "video"} /\ MediaPrepared
    BY DEF ContentInv, MediaInv, MediaTypeOK
  <2>3. Shows(Post.item, as, file, stage = "dropped")
    <3>1. CASE media = NoFile
      <4>1. stage = "idle" /\ as = "image" /\ file = NoFile
        BY <2>2, <3>1 DEF MediaPrepared, FromAttachment
      <4> QED BY <4>1 DEF Shows
    <3>2. CASE media # NoFile
      <4>1. attachment = MediaOf(Post) /\ stage # "idle"
        BY <2>1, <2>2, <3>2 DEF MediaPrepared
      <4>2. TakenFrom(MediaOf(Post), as, file)
        BY <2>2, <4>1 DEF FromAttachment, TakenFrom
      <4> DEFINE d == stage = "dropped"
      <4>3. d \in BOOLEAN
        OBVIOUS
      <4> HIDE DEF d
      <4>4. Shows(Post.item, as, file, d)
        BY <2>1, <3>2, <4>2, <4>3, TakenIsBest
      <4> QED BY <4>4 DEF d
    <3> QED BY <3>1, <3>2
  <2> QED BY <2>3, Zenon DEF BestShown, Shows, MP4s
<1> QED BY <1>1, ContentInvHolds, PTL

(* Types; and every link that linkFacets marks lies within the text that   *)
(* is published, so the offsets of a record are offsets into its text.     *)
THEOREM ContentTypeCorrect == ContentSpec => []ContentTypeOK
<1>1. ContentInv => ContentTypeOK
  <2> SUFFICES ASSUME ContentInv PROVE ContentTypeOK
    OBVIOUS
  <2>1. config.enabled \subseteq Names /\ login \in {"none", "opened", "failed"}
    BY ConfigInUse DEF ContentInv, ConfigLoaded
  <2>2. CopyMade /\ body \in Seq(Chars) /\ step \in BeforeRead \cup {"read"} \cup CopySteps
    BY DEF ContentInv, PostRead
  <2>3. ASSUME NEW k \in DOMAIN facets
        PROVE  facets[k].at + Len(facets[k].url) - 1 \in 1..Len(out)
    <3>1. step = "posted" /\ facets = FindLinks(out)
      BY <2>2, <2>3 DEF CopyMade
    <3>2. goal \in Names /\ out = Truncate(body, TextMax[goal])
      BY <2>2, <3>1 DEF CopyMade, CopySteps
    <3>3. TextMax[goal] \in Nat \ {0}
      BY <3>2, ContentAssumption
    <3>4. out \in Seq(Chars)
      BY <2>2, <3>2, <3>3, TruncateIsText
    <3>5. k \in DOMAIN FindLinks(out)
      BY <2>3, <3>1
    <3>6. FindLinks(out)[k].at + Len(FindLinks(out)[k].url) - 1 \in 1..Len(out)
      BY <3>4, <3>5, LinksLieWithin
    <3> QED BY <3>1, <3>6
  <2>4. goal \in Names \cup {"none"}
    BY <2>2 DEF CopyMade
  <2> QED BY <2>1, <2>2, <2>3, <2>4 DEF ContentTypeOK, BeforeRead, CopySteps
<1> QED BY <1>1, ContentInvHolds, PTL

(***************************************************************************)
(* Identifiers: comparing them digit by digit compares their numbers.      *)
(***************************************************************************)
IsValue(f, id) ==
  f = [k \in 0..Len(id) |-> IF k = 0 THEN 0 ELSE 10 * f[k - 1] + id[k]]
Value(id) == CHOOSE f : IsValue(f, id)

LEMMA ValueOfDigits ==
  ASSUME NEW id \in Seq(Digits)
  PROVE  /\ Number(id) = Value(id)[Len(id)]
         /\ \A k \in 0..Len(id) : Value(id)[k] \in Nat
         /\ Value(id)[0] = 0
         /\ \A k \in 1..Len(id) : Value(id)[k] = 10 * Value(id)[k - 1] + id[k]
<1> DEFINE n == Len(id)
           append == [k \in 1..n |-> [x \in Nat |-> 10 * x + id[k]]]
           v == Value(id)
<1>1. n \in Nat /\ DOMAIN id = 1..n /\ \A k \in 1..n : id[k] \in Nat
  BY DEF Digits
<1>2. StaysIn(append, n, Nat)
  BY <1>1 DEF StaysIn
<1>3. PICK f \in [0..n -> Nat] : Follows(f, 0, append, n)
  <2> HIDE DEF append
  <2> QED BY <1>1, <1>2, Recursion
<1>4. IsValue(f, id)
  <2>1. f[0] = 0 /\ \A k \in 1..n : f[k] = append[k][f[k - 1]]
    BY <1>3 DEF Follows
  <2>2. ASSUME NEW k \in 0..n
        PROVE  f[k] = IF k = 0 THEN 0 ELSE 10 * f[k - 1] + id[k]
    <3>1. CASE k = 0
      BY <2>1, <3>1
    <3>2. CASE k # 0
      <4>1. k \in 1..n /\ k - 1 \in 0..n
        BY <1>1, <3>2
      <4>2. f[k - 1] \in Nat
        BY <1>3, <4>1
      <4> QED BY <2>1, <3>2, <4>1, <4>2
    <3> QED BY <3>1, <3>2
  <2> QED BY <1>3, <2>2 DEF IsValue
<1>5. IsValue(v, id)
  BY <1>4 DEF Value
<1>6. Number(id) = v[n]
  BY DEF Number, Value, IsValue
<1> HIDE DEF v
<1>7. v = [k \in 0..n |-> IF k = 0 THEN 0 ELSE 10 * v[k - 1] + id[k]]
  BY <1>5 DEF IsValue
<1>8. v[0] = 0 /\ \A k \in 1..n : v[k] = 10 * v[k - 1] + id[k]
  <2>1. 0 \in 0..n /\ \A k \in 1..n : k \in 0..n /\ k # 0
    BY <1>1
  <2> QED BY <1>7, <2>1
<1> DEFINE good == {k \in 0..n : v[k] \in Nat}
<1>9. 0 \in good
  BY <1>1, <1>8
<1>10. ASSUME NEW k \in 1..n, k - 1 \in good PROVE k \in good
  BY <1>1, <1>8, <1>10
<1>11. \A k \in 0..n : k \in good
  <2> HIDE DEF good
  <2> QED BY <1>1, <1>9, <1>10, Counting
<1> QED BY <1>6, <1>8, <1>11 DEF v

(* Zeros in front count for nothing.                                       *)
LEMMA LeadingZeros ==
  ASSUME NEW id \in Seq(Digits), NEW a \in 1..(Len(id) + 1), \A j \in 1..(a - 1) : id[j] = 0
  PROVE  Value(id)[a - 1] = 0
<1> DEFINE v == Value(id)
           good == {k \in 0..(a - 1) : v[k] = 0}
<1>1. v[0] = 0 /\ \A k \in 1..Len(id) : v[k] = 10 * v[k - 1] + id[k]
  BY ValueOfDigits
<1>2. a - 1 \in Nat /\ Len(id) \in Nat /\ a \in Nat
  OBVIOUS
<1> HIDE DEF v
<1>3. 0 \in good
  BY <1>1, <1>2
<1>4. ASSUME NEW k \in 1..(a - 1), k - 1 \in good PROVE k \in good
  BY <1>1, <1>2, <1>4
<1>5. \A k \in 0..(a - 1) : k \in good
  <2> HIDE DEF good
  <2> QED BY <1>2, <1>3, <1>4, Counting
<1>6. a - 1 \in good
  <2>1. a - 1 \in 0..(a - 1)
    BY <1>2
  <2> HIDE DEF good
  <2> QED BY <1>5, <2>1
<1> QED BY <1>6 DEF v

LEMMA SameNumber ==
  ASSUME NEW id \in Seq(Digits), id # <<>>
  PROVE  LET c == CanonicalID(id)
         IN /\ c \in Seq(Digits) /\ Len(c) # 0
            /\ Len(c) = 1 \/ c[1] # 0
            /\ Number(c) = Number(id)
<1> DEFINE n == Len(id)
           zeros == {i \in DOMAIN id : \A j \in 1..i : id[j] = 0}
           c == CanonicalID(id)
<1>1. n \in Nat /\ n # 0 /\ DOMAIN id = 1..n
  OBVIOUS
<1>2. \/ zeros = DOMAIN id /\ c = <<0>>
      \/ \E a \in 1..n : /\ id[a] # 0 /\ \A j \in 1..(a - 1) : id[j] = 0
                         /\ c = SubSeq(id, a, n)
  BY CanonicalStarts
<1> HIDE DEF c
<1>3. CASE zeros = DOMAIN id /\ c = <<0>>
  <2>1. n \in zeros /\ \A j \in 1..n : id[j] = 0
    BY <1>1, <1>3
  <2>2. Value(id)[n + 1 - 1] = 0
    <3>1. n + 1 \in 1..(n + 1) /\ n + 1 - 1 = n
      BY <1>1
    <3> QED BY <2>1, <3>1, LeadingZeros
  <2>3. Number(id) = 0
    BY <1>1, <2>2, ValueOfDigits
  <2>4. c \in Seq(Digits) /\ Len(c) = 1 /\ c[1] = 0
    BY <1>3 DEF Digits
  <2>5. Number(c) = 0
    BY SMTT(30), <2>4, ValueOfDigits
  <2> QED BY <2>3, <2>4, <2>5 DEF c
<1>4. ASSUME NEW a \in 1..n, id[a] # 0, \A j \in 1..(a - 1) : id[j] = 0, c = SubSeq(id, a, n)
      PROVE  c \in Seq(Digits) /\ Len(c) # 0 /\ c[1] # 0 /\ Number(c) = Number(id)
  <2>1. /\ c \in Seq(Digits) /\ Len(c) = n - a + 1 /\ c[1] = id[a]
        /\ \A k \in 1..(n - a + 1) : c[k] = id[a - 1 + k]
    BY <1>1, <1>4
  <2> DEFINE v == Value(id)
             w == Value(c)
             m == n - a + 1
             good == {k \in 0..m : w[k] = v[a - 1 + k]}
  <2>2. /\ v[0] = 0 /\ \A k \in 1..n : v[k] = 10 * v[k - 1] + id[k]
        /\ Number(id) = v[n] /\ v[a - 1] = 0
    <3>1. a \in 1..(n + 1)
      BY <1>1
    <3> QED BY <1>4, <3>1, ValueOfDigits, LeadingZeros
  <2>3. w[0] = 0 /\ (\A k \in 1..m : w[k] = 10 * w[k - 1] + c[k]) /\ Number(c) = w[m]
    BY <2>1, ValueOfDigits
  <2> HIDE DEF v, w
  <2>4. 0 \in good
    BY <1>1, <2>2, <2>3
  <2>5. ASSUME NEW k \in 1..m, k - 1 \in good PROVE k \in good
    <3>1. a - 1 + k \in 1..n /\ a - 1 + k - 1 = a - 1 + (k - 1) /\ k \in 0..m
      BY <1>1
    <3>2. w[k - 1] = v[a - 1 + (k - 1)] /\ c[k] = id[a - 1 + k]
      BY <2>1, <2>5
    <3>3. v[a - 1 + k] = 10 * v[a - 1 + (k - 1)] + id[a - 1 + k]
      BY <2>2, <3>1
    <3> QED BY <2>3, <3>1, <3>2, <3>3
  <2>6. m \in good
    <3>1. m \in Nat /\ m \in 0..m
      BY <1>1
    <3> HIDE DEF good, m
    <3> QED BY <2>4, <2>5, <3>1, Counting
  <2>7. a - 1 + m = n
    BY <1>1
  <2>8. Number(c) = Number(id)
    BY <2>2, <2>3, <2>6, <2>7
  <2>9. Len(c) # 0 /\ c[1] # 0
    BY <1>1, <1>4, <2>1
  <2> QED BY <2>1, <2>8, <2>9
<1> QED BY <1>2, <1>3, <1>4 DEF c

LEMMA AnotherDigit ==
  ASSUME NEW p \in Nat, NEW q \in Nat, NEW a \in 0..9, NEW b \in 0..9,
         p > q \/ (p = q /\ a > b)
  PROVE  10 * p + a > 10 * q + b
  OBVIOUS

(* A longer number without zeros in front is greater.                      *)
LEMMA LongerIsGreater ==
  ASSUME NEW x \in Seq(Digits), NEW y \in Seq(Digits), Len(x) > Len(y), x[1] # 0
  PROVE  Number(x) > Number(y)
<1> DEFINE n == Len(x)
           m == Len(y)
           d == n - m
           v == Value(x)
           w == Value(y)
           positive == {k \in 0..n : k = 0 \/ v[k] > 0}
           good == {k \in 0..m : v[d + k] > w[k]}
<1>1. /\ n \in Nat /\ m \in Nat /\ d \in Nat /\ d >= 1 /\ d + m = n /\ n >= 1
      /\ (\A k \in 1..n : x[k] \in 0..9) /\ \A k \in 1..m : y[k] \in 0..9
  BY DEF Digits
<1>2. /\ Number(x) = v[n] /\ (\A k \in 0..n : v[k] \in Nat) /\ v[0] = 0
      /\ \A k \in 1..n : v[k] = 10 * v[k - 1] + x[k]
  BY ValueOfDigits
<1>3. /\ Number(y) = w[m] /\ (\A k \in 0..m : w[k] \in Nat) /\ w[0] = 0
      /\ \A k \in 1..m : w[k] = 10 * w[k - 1] + y[k]
  BY ValueOfDigits
<1> HIDE DEF v, w, n, m, d
<1>4. 0 \in positive
  BY <1>1
<1>5. ASSUME NEW k \in 1..n, k - 1 \in positive PROVE k \in positive
  <2>1. k \in 0..n /\ k - 1 \in 0..n /\ v[k - 1] \in Nat /\ x[k] \in 0..9
    BY <1>1, <1>2
  <2>2. v[k] = 10 * v[k - 1] + x[k] /\ (k = 1 => x[k] > 0)
    BY <1>1, <1>2, <2>1
  <2>3. k - 1 # 0 => v[k - 1] > 0
    BY <1>5
  <2>4. 10 * v[k - 1] + x[k] > 0
    <3> DEFINE p == v[k - 1]
               a == x[k]
    <3>1. p \in Nat /\ a \in 0..9 /\ k \in Nat /\ (k = 1 => a > 0) /\ (k - 1 # 0 => p > 0)
      BY <2>1, <2>2, <2>3
    <3> HIDE DEF p, a
    <3>2. 10 * p + a > 0
      BY <3>1
    <3> QED BY <3>2 DEF p, a
  <2> QED BY <2>1, <2>2, <2>4
<1>6. d \in positive
  <2>1. d \in 0..n
    BY <1>1
  <2> HIDE DEF positive
  <2> QED BY <1>1, <1>4, <1>5, <2>1, Counting
<1>7. 0 \in good
  <2>1. v[d] > 0
    BY <1>1, <1>6
  <2> QED BY <1>1, <1>3, <2>1
<1>8. ASSUME NEW k \in 1..m, k - 1 \in good PROVE k \in good
  <2>1. /\ d + k \in 1..n /\ d + k - 1 = d + (k - 1) /\ d + (k - 1) \in 0..n
        /\ k \in 0..m /\ k - 1 \in 0..m
    BY <1>1
  <2>2. /\ v[d + (k - 1)] \in Nat /\ x[d + k] \in 0..9 /\ y[k] \in 0..9 /\ w[k - 1] \in Nat
        /\ v[d + k] = 10 * v[d + (k - 1)] + x[d + k] /\ w[k] = 10 * w[k - 1] + y[k]
    BY <1>1, <1>2, <1>3, <2>1
  <2>3. v[d + (k - 1)] > w[k - 1]
    BY <1>8
  <2>4. v[d + k] > w[k]
    <3> DEFINE p == v[d + (k - 1)]
               q == w[k - 1]
               a == x[d + k]
               b == y[k]
    <3>1. p \in Nat /\ q \in Nat /\ a \in 0..9 /\ b \in 0..9 /\ p > q
      BY <2>2, <2>3
    <3>2. v[d + k] = 10 * p + a /\ w[k] = 10 * q + b
      BY <2>2
    <3> HIDE DEF p, q, a, b
    <3>3. 10 * p + a > 10 * q + b
      BY <3>1, AnotherDigit
    <3> QED BY <3>2, <3>3
  <2> QED BY <2>1, <2>4
<1>9. m \in good
  <2>1. m \in 0..m
    BY <1>1
  <2> HIDE DEF good
  <2> QED BY <1>1, <1>7, <1>8, <2>1, Counting
<1> QED BY <1>1, <1>2, <1>3, <1>9

(* Of two numbers of a length the first digit that differs decides.        *)
LEMMA FirstDifferenceDecides ==
  ASSUME NEW x \in Seq(Digits), NEW y \in Seq(Digits), Len(x) = Len(y), GreaterDigits(x, y)
  PROVE  Number(x) > Number(y)
<1> DEFINE n == Len(x)
           v == Value(x)
           w == Value(y)
<1>1. /\ n \in Nat /\ DOMAIN x = 1..n /\ Len(y) = n
      /\ (\A k \in 1..n : x[k] \in 0..9) /\ \A k \in 1..n : y[k] \in 0..9
  BY DEF Digits
<1>2. /\ Number(x) = v[n] /\ (\A k \in 0..n : v[k] \in Nat) /\ v[0] = 0
      /\ \A k \in 1..n : v[k] = 10 * v[k - 1] + x[k]
  BY ValueOfDigits
<1>3. /\ Number(y) = w[n] /\ (\A k \in 0..n : w[k] \in Nat) /\ w[0] = 0
      /\ \A k \in 1..n : w[k] = 10 * w[k - 1] + y[k]
  BY <1>1, ValueOfDigits
<1>4. PICK i \in 1..n : x[i] > y[i] /\ \A j \in 1..(i - 1) : x[j] = y[j]
  BY <1>1 DEF GreaterDigits
<1> HIDE DEF v, w, n
<1> DEFINE same == {k \in 0..(i - 1) : v[k] = w[k]}
           good == {k \in 0..(n - i) : v[i + k] > w[i + k]}
<1>5. i \in 1..n /\ i \in Nat /\ i >= 1 /\ i - 1 \in Nat /\ n - i \in Nat
  BY <1>1
<1>6. 0 \in same
  BY <1>2, <1>3, <1>5
<1>7. ASSUME NEW k \in 1..(i - 1), k - 1 \in same PROVE k \in same
  <2>1. k \in 1..n /\ k \in 0..(i - 1)
    BY <1>1, <1>5
  <2>2. v[k - 1] = w[k - 1] /\ x[k] = y[k]
    BY <1>4, <1>7
  <2> QED BY <1>2, <1>3, <2>1, <2>2
<1>8. v[i - 1] = w[i - 1]
  <2>1. i - 1 \in 0..(i - 1)
    BY <1>5
  <2>2. i - 1 \in same
    <3> HIDE DEF same
    <3> QED BY <1>5, <1>6, <1>7, <2>1, Counting
  <2> QED BY <2>2
<1>9. 0 \in good
  <2>1. i + 0 = i /\ 0 \in 0..(n - i) /\ i - 1 \in 0..n
    BY <1>1, <1>5
  <2>2. v[i] = 10 * v[i - 1] + x[i] /\ w[i] = 10 * w[i - 1] + y[i] /\ v[i - 1] \in Nat
    BY <1>2, <1>3, <1>5, <2>1
  <2>3. v[i] > w[i]
    <3>1. x[i] \in 0..9 /\ y[i] \in 0..9 /\ w[i - 1] \in Nat
      BY <1>1, <1>5, <1>8, <2>2
    <3>2. 10 * v[i - 1] + x[i] > 10 * w[i - 1] + y[i]
      BY <1>4, <1>8, <2>2, <3>1, AnotherDigit
    <3> QED BY <2>2, <3>2
  <2> QED BY <2>1, <2>3
<1>10. ASSUME NEW k \in 1..(n - i), k - 1 \in good PROVE k \in good
  <2>1. i + k \in 1..n /\ i + k - 1 = i + (k - 1) /\ i + (k - 1) \in 0..n /\ k \in 0..(n - i)
    BY <1>1, <1>5
  <2>2. /\ v[i + (k - 1)] \in Nat /\ x[i + k] \in 0..9 /\ y[i + k] \in 0..9
        /\ w[i + (k - 1)] \in Nat
        /\ v[i + k] = 10 * v[i + (k - 1)] + x[i + k] /\ w[i + k] = 10 * w[i + (k - 1)] + y[i + k]
    BY SMTT(30), <1>1, <1>2, <1>3, <2>1
  <2>3. v[i + (k - 1)] > w[i + (k - 1)]
    BY <1>10
  <2>4. v[i + k] > w[i + k]
    <3> DEFINE p == v[i + (k - 1)]
               q == w[i + (k - 1)]
               a == x[i + k]
               b == y[i + k]
    <3>1. p \in Nat /\ q \in Nat /\ a \in 0..9 /\ b \in 0..9 /\ p > q
      BY <2>2, <2>3
    <3>2. v[i + k] = 10 * p + a /\ w[i + k] = 10 * q + b
      BY <2>2
    <3> HIDE DEF p, q, a, b
    <3>3. 10 * p + a > 10 * q + b
      BY <3>1, AnotherDigit
    <3> QED BY <3>2, <3>3
  <2> QED BY <2>1, <2>4
<1>11. n - i \in good
  <2>1. n - i \in 0..(n - i)
    BY <1>5
  <2> HIDE DEF good
  <2> QED BY <1>5, <1>9, <1>10, <2>1, Counting
<1>12. i + (n - i) = n
  BY <1>1, <1>5
<1> QED BY <1>2, <1>3, <1>11, <1>12

LEMMA SomeDifference ==
  ASSUME NEW x \in Seq(Digits), NEW y \in Seq(Digits), Len(x) = Len(y)
  PROVE  x = y \/ GreaterDigits(x, y) \/ GreaterDigits(y, x)
<1> DEFINE n == Len(x)
           differ == {i \in 1..n : x[i] # y[i]}
<1>1. /\ n \in Nat /\ DOMAIN x = 1..n /\ DOMAIN y = 1..n
      /\ (\A k \in 1..n : x[k] \in 0..9) /\ \A k \in 1..n : y[k] \in 0..9
  BY DEF Digits
<1>2. CASE differ = {}
  <2>1. \A i \in 1..n : x[i] = y[i]
    BY <1>2
  <2> QED BY <2>1
<1>3. CASE differ # {}
  <2>1. differ \in SUBSET Nat
    BY <1>1
  <2>2. PICK i \in differ : \A j \in differ : i <= j
    <3> HIDE DEF differ
    <3> QED BY <1>3, <2>1, FirstPosition
  <2>3. i \in 1..n /\ (x[i] > y[i] \/ y[i] > x[i])
    BY <1>1
  <2>4. ASSUME NEW j \in 1..(i - 1) PROVE x[j] = y[j]
    <3>1. j \in 1..n /\ ~(i <= j)
      BY <1>1, <2>3
    <3> QED BY <2>2, <3>1
  <2> QED BY <1>1, <2>3, <2>4 DEF GreaterDigits
<1> QED BY <1>2, <1>3

(* IDNewer is the order of the numbers.                                    *)
LEMMA NewerMeansGreater ==
  ASSUME NEW x \in Seq(Digits), NEW y \in Seq(Digits), x # <<>>, y # <<>>
  PROVE  IDNewer(x, y) <=> Number(x) > Number(y)
<1> DEFINE a == CanonicalID(x)
           b == CanonicalID(y)
<1>1. /\ a \in Seq(Digits) /\ Len(a) # 0 /\ (Len(a) = 1 \/ a[1] # 0) /\ Number(a) = Number(x)
      /\ b \in Seq(Digits) /\ Len(b) # 0 /\ (Len(b) = 1 \/ b[1] # 0) /\ Number(b) = Number(y)
  BY SameNumber
<1> HIDE DEF a, b
<1>2. a # <<>> /\ b # <<>> /\ Len(a) \in Nat /\ Len(b) \in Nat
  BY <1>1
<1>3. IDNewer(x, y) <=> IF Len(a) # Len(b) THEN Len(a) > Len(b) ELSE GreaterDigits(a, b)
  BY <1>2 DEF IDNewer, a, b
<1>4. Number(a) \in Nat /\ Number(b) \in Nat
  <2>1. Len(a) \in 0..Len(a) /\ Len(b) \in 0..Len(b)
    BY <1>2
  <2> QED BY <1>1, <2>1, ValueOfDigits
<1>5. CASE Len(a) > Len(b)
  <2>1. Number(a) > Number(b)
    BY <1>1, <1>2, <1>5, LongerIsGreater
  <2> QED BY <1>1, <1>2, <1>3, <1>5, <2>1
<1>6. CASE Len(b) > Len(a)
  <2>1. Number(b) > Number(a)
    BY <1>1, <1>2, <1>6, LongerIsGreater
  <2> QED BY <1>1, <1>2, <1>3, <1>4, <1>6, <2>1
<1>7. CASE Len(a) = Len(b)
  <2>1. GreaterDigits(a, b) => Number(a) > Number(b)
    BY <1>1, <1>7, FirstDifferenceDecides
  <2>2. GreaterDigits(b, a) => Number(b) > Number(a)
    BY <1>1, <1>7, FirstDifferenceDecides
  <2>3. a = b \/ GreaterDigits(a, b) \/ GreaterDigits(b, a)
    BY <1>1, <1>7, SomeDifference
  <2> QED BY <1>1, <1>3, <1>4, <1>7, <2>1, <2>2, <2>3
<1> QED BY <1>2, <1>5, <1>6, <1>7

(* A poll takes a post exactly when its number is greater than that of the *)
(* cursor: IDNewer compares what canonicalID leaves of the two, first by   *)
(* length and then digit by digit.                                         *)
THEOREM NewerTaken == ContentSpec => []NewerIsGreater
<1>1. ContentInv => NewerIsGreater
  <2> SUFFICES ASSUME ContentInv, Post.origin # "bluesky", Post.cursor # <<>>, Post.id # <<>>
               PROVE  /\ step = "read" => Number(Post.id) > Number(Post.cursor)
                      /\ step = "passed" => Number(Post.id) <= Number(Post.cursor)
    BY DEF NewerIsGreater
  <2>1. Post.id \in Seq(Digits) /\ Post.cursor \in Seq(Digits)
    BY GivenForm DEF ContentInv, PostForm, Digits
  <2>2. (step = "read" => Unread) /\ (step = "passed" => ~Unread)
    BY DEF ContentInv, PostRead
  <2>3. Unread <=> IDNewer(Post.id, Post.cursor)
    BY DEF Unread
  <2>4. IDNewer(Post.id, Post.cursor) <=> Number(Post.id) > Number(Post.cursor)
    BY <2>1, NewerMeansGreater
  <2>5. Number(Post.id) \in Nat /\ Number(Post.cursor) \in Nat
    <3>1. Len(Post.id) \in 0..Len(Post.id) /\ Len(Post.cursor) \in 0..Len(Post.cursor)
      BY <2>1
    <3> QED BY <2>1, <3>1, ValueOfDigits
  <2> QED BY <2>2, <2>3, <2>4, <2>5
<1> QED BY <1>1, ContentInvHolds, PTL

(* The links of a tweet.                                                   *)
LEMMA MeantInPieces ==
  ASSUME NEW t \in Seq(Chars), NEW entities \in Seq(Entities)
  PROVE  Meant(t, entities) = Joined(Pieces(t, entities))
<1> DEFINE Of(i) == {k \in DOMAIN entities : Spans(entities[k], t) /\ entities[k].start = i - 1}
           At(i) == IF Of(i) = {} THEN <<t[i]>>
                    ELSE LET e == entities[CHOOSE k \in Of(i) : TRUE]
                         IN IF e.media THEN <<>>
                            ELSE IF e.expanded = <<>> THEN <<t[i]>> ELSE e.expanded
<1>1. Meant(t, entities) = Joined([i \in DOMAIN t |-> At(i)])
  BY DEF Meant
<1>2. ASSUME NEW i \in DOMAIN t PROVE At(i) = Piece(t, entities, i)
  <2> DEFINE here == Of(i)
             k == CHOOSE l \in here : TRUE
             e == entities[k]
  <2>1. here = SpanningAt(t, entities, i)
    BY DEF SpanningAt
  <2>2. CASE here = {}
    BY <2>1, <2>2 DEF Piece
  <2>3. CASE here # {}
    <3>1. k \in here
      BY <2>3
    <3>2. e \in Entities /\ Spans(e, t) /\ e.start = i - 1
      BY <3>1
    <3>3. At(i) = IF e.media THEN <<>> ELSE IF e.expanded = <<>> THEN <<t[i]>> ELSE e.expanded
      BY <2>3
    <3>4. Piece(t, entities, i) = Stands(e)
      BY <2>1, <2>3 DEF Piece
    <3> HIDE DEF e, here, k, At
    <3>5. t[e.start + 1] = e.url
      BY <3>2, SpanIsOne
    <3>6. i - 1 + 1 = i
      OBVIOUS
    <3>7. t[i] = e.url
      BY <3>2, <3>5, <3>6
    <3>8. Stands(e) = IF e.media THEN <<>> ELSE IF e.expanded = <<>> THEN <<e.url>> ELSE e.expanded
      BY DEF Stands
    <3> QED BY <3>3, <3>4, <3>7, <3>8
  <2> QED BY <2>2, <2>3
<1> HIDE DEF At
<1>3. [i \in DOMAIN t |-> At(i)] = [i \in DOMAIN t |-> Piece(t, entities, i)]
  BY <1>2
<1> QED BY <1>1, <1>3 DEF Pieces

(* Of a tweet every short link that has an entity stands, once it was      *)
(* read, as the address it leads to, the links to its own media are gone,  *)
(* and no other word has changed, however its entities are ordered, though *)
(* some are doubled and some have wrong offsets; and where no two blanks   *)
(* followed each other none do now: expandTweetURLs.                       *)
THEOREM LinksInPlace ==
  ContentSpec => [](LinksFit(Post.text, Post.entities) => LinksExpandedInPlace)
<1>1. ContentInv /\ LinksFit(Post.text, Post.entities) => LinksExpandedInPlace
  <2> SUFFICES ASSUME ContentInv, LinksFit(Post.text, Post.entities),
                      step = "read", Post.origin = "twitter"
               PROVE  /\ Collapse(body) = Collapse(Meant(Post.text, Post.entities))
                      /\ Gaps(Post.text) = {} => Gaps(body) = {}
    BY DEF LinksExpandedInPlace
  <2> DEFINE t == Post.text
             entities == Post.entities
  <2>1. t \in Seq(Chars) /\ entities \in Seq(Entities)
    <3>1. t \in Seq(STRING) /\ entities \in Seq(Entities)
      BY GivenForm DEF ContentInv, PostForm
    <3> QED BY <3>1, Literals, SeqMonotonic
  <2>2. body = ExpandTweetURLs(t, entities)
    BY DEF ContentInv, PostRead, BeforeRead, TextOf
  <2>3. Meant(t, entities) = Joined(Pieces(t, entities))
    BY <2>1, MeantInPieces DEF t, entities
  <2>4. \A s : Gaps(s) = {} <=> NoGap(s)
    BY DEF Gaps, NoGap
  <2> HIDE DEF t, entities
  <2>5. LinksFit(t, entities)
    BY DEF t, entities
  <2>6. Collapse(body) = Collapse(Meant(t, entities))
    BY <2>1, <2>2, <2>3, <2>5, WordsMeant
  <2>7. NoGap(t) => NoGap(body)
    BY <2>1, <2>2, <2>5, LinksLeaveNoGap
  <2> QED BY <2>4, <2>6, <2>7 DEF t, entities
<1> QED BY <1>1, ContentInvHolds, PTL

(* The text of a post, and what the adapter of Mastodon makes of it.       *)
LEMMA TypedText ==
  ASSUME ContentInv, step = "read", Post.origin = "mastodon"
  PROVE  Post.text \in Seq(Chars) /\ body = StripHTML(Rendered(Post.text))
<1>1. Post.text \in Seq(STRING)
  BY GivenForm DEF ContentInv, PostForm
<1>2. Post.text \in Seq(Chars)
  BY <1>1, Literals, SeqMonotonic
<1>3. body = TextOf(Post)
  BY DEF ContentInv, PostRead, BeforeRead
<1> QED BY <1>2, <1>3 DEF TextOf

(* A post of Mastodon has the words its author typed, in their order and   *)
(* nothing else: whatever brackets and entities are among them, of what an *)
(* instance makes of a text StripHTML drops the markup only.  Typed leaves *)
(* out the entities that the model cannot write escaped once more.         *)
THEOREM MarkupDropped ==
  ContentSpec => [](Typed(Post.text) => MarkupOnlyDropped)
<1>1. ContentInv /\ Typed(Post.text) => MarkupOnlyDropped
  BY TypedText, StrippedWords DEF MarkupOnlyDropped
<1> QED BY <1>1, ContentInvHolds, PTL

(* The hash of a text of Mastodon, taken from what is left of its HTML, is *)
(* the hash of the same text where it is written elsewhere, though what    *)
(* looks like a tag is dropped from both; where nothing does, it is the    *)
(* hash of all the words: Normalize.                                       *)
THEOREM HashesAgree ==
  ContentSpec => [](Typed(Post.text) => SameWordsSameHash)
<1>1. ContentInv /\ Typed(Post.text) => SameWordsSameHash
  <2> SUFFICES ASSUME ContentInv, Typed(Post.text), step = "read", Post.origin = "mastodon"
               PROVE  /\ Normalize(body) = Normalize(Post.text)
                      /\ Untagged(Post.text) => Normalize(body) = Collapse(Post.text)
    BY DEF SameWordsSameHash, Untagged
  <2>1. Normalize(body) = Normalize(Post.text)
    BY TypedText, StrippedHash
  <2>2. Untagged(Post.text) => Normalize(Post.text) = Collapse(Post.text)
    BY TypedText, PlainWords
  <2> QED BY <2>1, <2>2
<1> QED BY <1>1, ContentInvHolds, PTL
=============================================================================
