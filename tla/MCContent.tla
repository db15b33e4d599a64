----------------------------- MODULE MCContent ------------------------------
(* Instances of Content for TLC, four families of cases: configurations    *)
(* with a small post; texts with links; texts of Mastodon, with what looks *)
(* like markup; tweets with short links and right, doubled and wrong       *)
(* entities; attachments of every kind against limits of every kind.       *)
EXTENDS Content, SequencesExt

Credentials == UNION {Required[p] : p \in DOMAIN Required} \cup OAuth1 \cup {Bearer}
Unset == [bytes |-> 0, videoBytes |-> 0, edge |-> 0, video |-> FALSE]
MCDefaults == [p \in {"mastodon", "bluesky", "twitter"} |->
                 [bytes |-> 4, videoBytes |-> 4, edge |-> 6, video |-> TRUE]]
MCTextMax == [mastodon |-> 5, bluesky |-> 4, twitter |-> 3]

File(enabled, set, routes, l) ==
  [enabled |-> enabled, set |-> set, routes |-> routes,
   limits |-> [p \in {"mastodon", "bluesky", "twitter"} |-> l]]
EveryPlatform == File({"mastodon", "bluesky", "twitter"}, Credentials, <<>>, Unset)

PostOf(origin, text) ==
  [origin |-> origin, text |-> text, entities |-> <<>>, item |-> NoFile,
   id |-> <<2>>, cursor |-> <<>>]
Case(f, p) == [file |-> f, env |-> {}, post |-> p]

(* Configurations: any platforms, up to two credentials missing from the   *)
(* file, some of them in the environment, and some routes.                 *)
RouteTables ==
  {<<>>,
   [x \in {"mastodon"} |-> <<"twitter", "mastodon", "bluesky">>],
   [x \in {"mastodon", "bluesky"} |-> IF x = "mastodon" THEN <<>> ELSE <<"nostr", "twitter">>]}
Environments == {{}, OAuth1, {"mastodon token", Bearer}}
Configurations ==
  {[file |-> File(e, Credentials \ {a, b}, r, Unset), env |-> v,
    post |-> PostOf("mastodon", <<"a">>)] :
     e \in SUBSET {"mastodon", "bluesky", "twitter"}, a \in Credentials, b \in Credentials,
     r \in RouteTables, v \in Environments}

(* Texts with links; a scheme is followed by the name of a host.           *)
LinkChars == {"a", Space, ".", "(", ")", "scheme"}
LinkTexts ==
  {t \in SeqOf(LinkChars, 7) :
     \A i \in DOMAIN t : t[i] = "scheme" => i < Len(t) /\ t[i + 1] = "a"}
WithLinks == {Case(EveryPlatform, PostOf("twitter", t)) :
                t \in {u \in LinkTexts : \E i \in DOMAIN u : u[i] = "scheme"}}

MarkupTexts == SeqOf({"a", Space, Newline, "<", ">", "br", "&lt;"}, 4)
WithMarkup == {Case(EveryPlatform, PostOf("mastodon", t)) : t \in MarkupTexts}

(* Tweets: "t.co/1" leads to an address, "t.co/2" to the tweet's picture.  *)
Tweets == {t \in SeqOf({"a", Space, "t.co/1", "t.co/2"}, 5) : t # <<>>}
SpanOf(t, i) ==
  [start |-> i - 1, end |-> i, url |-> t[i], media |-> t[i] = "t.co/2",
   expanded |-> IF t[i] = "t.co/1" THEN <<"scheme", "a">> ELSE <<>>]
EntitiesOf(t) ==
  LET links == SelectSeq([i \in DOMAIN t |-> i], LAMBDA i : t[i] \in {"t.co/1", "t.co/2"})
  IN [k \in DOMAIN links |-> SpanOf(t, links[k])]
Wrong == {[start |-> 0, end |-> 2, url |-> "t.co/1", media |-> FALSE, expanded |-> <<"a">>],
          [start |-> 0, end |-> 9, url |-> "t.co/2", media |-> TRUE, expanded |-> <<>>],
          [start |-> 1, end |-> 2, url |-> "t.co/3", media |-> TRUE, expanded |-> <<>>]}
EntityLists(t) ==
  LET right == EntitiesOf(t)
  IN {right, right \o SelectSeq(right, LAMBDA e : e.media)} \cup {<<w>> \o right : w \in Wrong}
WithEntities ==
  {Case(EveryPlatform, [PostOf("twitter", c.text) EXCEPT !.entities = c.entities]) :
     c \in UNION {{[text |-> t, entities |-> l] : l \in EntityLists(t)} : t \in Tweets}}

Identifiers == SeqOf({0, 1, 2}, 3)
WithIdentifiers ==
  {Case(EveryPlatform, [PostOf("mastodon", <<"a">>) EXCEPT !.id = x, !.cursor = y]) :
     x \in Identifiers, y \in Identifiers}

(* What is attached on each platform: pictures of several sizes, videos    *)
(* with and without a file, a still image and MP4s of equal and other bit  *)
(* rates, and audio.                                                       *)
Pictures == [format : {"png", "gif"}, bytes : {2, 9}, edge : {3, 5, 9}]
Still == [format |-> "png", bytes |-> 9, edge |-> 5]
Stills == {NoFile, Still, [Still EXCEPT !.edge = 9]}
Video(edge) == [format |-> "mp4", bytes |-> 9, edge |-> edge]
Item(type, f, preview, variants) ==
  [type |-> type, file |-> f, preview |-> preview, variants |-> variants]

OnMastodon ==
  {Item(t, f, p, <<>>) : t \in {"video", "gifv"}, f \in {Video(9), NoFile}, p \in Stills}
  \cup {Item("image", NoFile, Still, <<>>), Item("audio", Video(9), Still, <<>>)}
  \cup {Item("image", f, NoFile, <<>>) : f \in Pictures}
OnBluesky == {Item("video", f, NoFile, <<>>) : f \in {Video(9), NoFile}}
             \cup {Item("image", f, NoFile, <<>>) : f \in {Still, NoFile}}
Variants == {[rate |-> 1, type |-> "video/mp4", file |-> Video(3)],
             [rate |-> 2, type |-> "video/mp4", file |-> Video(9)],
             [rate |-> 2, type |-> "video/mp4", file |-> Video(5)],
             [rate |-> 3, type |-> "application/x-mpegURL", file |-> Video(9)],
             [rate |-> 3, type |-> "video/mp4", file |-> NoFile]}
OnX ==
  {Item("video", NoFile, p, l) : p \in Stills, l \in SeqOf(Variants, 2)}
  \cup {Item("animated_gif", f, Still, l) : f \in {NoFile, Still}, l \in SeqOf(Variants, 1)}
  \cup {Item("photo", f, NoFile, <<>>) : f \in {Still, NoFile}}

OperatorLimits == [bytes : {-1, 0, 3}, videoBytes : {0, 3}, edge : {-1, 0, 2, 8}, video : {FALSE}]
MCMediaLimits == {Unset}
MCAttachments == {[kind |-> "image", file |-> NoFile, poster |-> NoFile]}
WithItems(from, to, items) ==
  {Case(File({from, to}, Credentials, <<>>, l), [PostOf(from, <<"a">>) EXCEPT !.item = i]) :
     i \in items, l \in OperatorLimits}
WithMedia == UNION {WithItems("mastodon", "bluesky", OnMastodon),
                    WithItems("bluesky", "mastodon", OnBluesky),
                    WithItems("twitter", "mastodon", OnX)}

MCCases == {Configurations, WithLinks, WithMarkup, WithEntities, WithIdentifiers, WithMedia}
=============================================================================
