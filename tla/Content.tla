------------------------------- MODULE Content ------------------------------
(***************************************************************************)
(* What of one post arrives: a process loads its configuration (Settings), *)
(* a listener reads the post and turns its text into plain text (PostText) *)
(* and its attachment into one of the bridge's own (OriginMedia), the      *)
(* engine cuts the text for a target and prepares the attachment within    *)
(* the target's limits (MediaFit), and the adapter marks the links.        *)
(* Modules Engine, Bridge and Posting say when each of this happens, what  *)
(* may fail and what is repeated.                                          *)
(***************************************************************************)
EXTENDS Settings, PostText, OriginMedia

CONSTANTS
  Cases,     \* sets of cases: a configuration file, an environment and a post
  Defaults,  \* of the limits, for each platform
  TextMax    \* of each platform

Names == {"mastodon", "bluesky", "twitter"}

(* What a configuration file may hold, and a post.                         *)
ConfigForm(f) ==
  /\ f \in [enabled : SUBSET Names, set : SUBSET STRING, routes : {f.routes},
            limits : [Names -> LimitForms]]
  /\ f.routes \in [DOMAIN f.routes -> Seq(STRING)]

(* The vocabulary of the platforms.  Bluesky offers no still image, and    *)
(* only X offers a video in variants.                                      *)
ItemTypes == [mastodon |-> {"image", "video", "gifv", "audio", "unknown"},
              bluesky  |-> {"image", "video"},
              twitter  |-> {"photo", "video", "animated_gif"}]
Variant == [rate : Int, type : STRING, file : Files \cup {NoFile}]
Items(origin) ==
  [type     : ItemTypes[origin],
   file     : Files \cup {NoFile},
   preview  : IF origin = "bluesky" THEN {NoFile} ELSE Files \cup {NoFile},
   variants : IF origin = "twitter" THEN Seq(Variant) ELSE {<<>>}]

PostForm(p) ==
  /\ p.origin \in Names
  /\ p \in [origin : Names, text : Seq(STRING), entities : Seq(Entities),
            item : Items(p.origin) \cup {NoFile}, id : Seq(0..9), cursor : Seq(0..9)]

ASSUME ContentAssumption ==
  /\ TextMax \in [Names -> Nat \ {0}] /\ Defaults \in [Names -> LimitForms]
  /\ Attachments # {} /\ MediaLimits # {}
  /\ \A family \in Cases : \A c \in family :
       /\ c \in [file : {c.file}, env : SUBSET STRING, post : {c.post}]
       /\ ConfigForm(c.file) /\ PostForm(c.post)

VARIABLES
  given,   \* the case: file, env, and the post as its author made it
  config,  \* the configuration in use
  login,   \* what Bluesky answered to the login: "none", "opened", "failed"
  step,    \* "start", "refused", "running", "passed", "read", "copying", "posted"
  body,    \* post.Text
  media,   \* post.Media, one attachment or NoFile
  goal,    \* the target
  out,     \* out.Text
  facets   \* the links of the record on Bluesky

contentVars == <<given, config, login, step, body, media, goal, out, facets, mediaVars>>

Post == given.post
Routes(origin) == TargetsFor(config, origin)

(* What Bluesky may answer, where a constructor asks for a session at all. *)
Answers(loaded) ==
  IF loaded.valid /\ ReachesLogin(loaded.config) THEN {"opened", "failed"} ELSE {"none"}

(* config.Load, then a constructor for each enabled platform.              *)
StartUp ==
  /\ step = "start"
  /\ LET loaded == Load(given.file, given.env, Defaults)
     IN /\ config' = loaded.config
        /\ login' \in Answers(loaded)
        /\ step' = IF loaded.valid /\ BuildPlatforms(config', login') THEN "running"
                   ELSE "refused"
  /\ UNCHANGED <<given, body, media, goal, out, facets, mediaVars>>

(* toPost of the three adapters: post.Text and post.Media.                 *)
Converted(text, attached) == body' = text /\ media' = attached

ToPostMastodon ==
  Converted(StripHTML(Rendered(Post.text)),
            IF Post.item = NoFile THEN NoFile ELSE MediaFromAttachment(Post.item))
ToPostBluesky ==
  Converted(Post.text, IF Post.item = NoFile THEN NoFile ELSE MediaFromRecord(Post.item))
ToPostTwitter ==
  Converted(ExpandTweetURLs(Post.text, Post.entities),
            IF Post.item = NoFile THEN NoFile ELSE MediaFromTweet(Post.item))

(* The pollers compare identifiers with the cursor.                        *)
Unread == Post.origin # "bluesky" => IDNewer(Post.id, Post.cursor)

Read ==
  /\ step = "running" /\ Post.origin \in Sources(config) /\ Unread
  /\ step' = "read"
  /\ CASE Post.origin = "mastodon" -> ToPostMastodon
       [] Post.origin = "bluesky" -> ToPostBluesky
       [] Post.origin = "twitter" -> ToPostTwitter
  /\ UNCHANGED <<given, config, login, goal, out, facets, mediaVars>>

PassOver ==
  /\ step = "running" /\ Post.origin \in Sources(config) /\ ~Unread /\ step' = "passed"
  /\ UNCHANGED <<given, config, login, body, media, goal, out, facets, mediaVars>>

(* Engine.bridge for one of the targets.                                   *)
Copy ==
  /\ step = "read" /\ step' = "copying"
  /\ \E i \in DOMAIN Routes(Post.origin) :
       /\ goal' = Routes(Post.origin)[i]
       /\ out' = Truncate(body, TextMax[goal'])
       /\ IF media = NoFile THEN UNCHANGED mediaVars
          ELSE PrepareAttachment(media, config.limits[goal'])
  /\ UNCHANGED <<given, config, login, body, media, facets>>

Prepare ==
  /\ step = "copying" /\ MediaStep
  /\ UNCHANGED <<given, config, login, step, body, media, goal, out, facets>>

(* Mutated form: the links are those of the post, not of its cut text.     *)
PublishLinksOfPost ==
  /\ step = "copying" /\ stage \in {"idle", "ready", "dropped"} /\ step' = "posted"
  /\ facets' = IF goal = "bluesky" THEN FindLinks(body) ELSE <<>>
  /\ UNCHANGED <<given, config, login, body, media, goal, out, mediaVars>>

(* target.Post; on Bluesky with linkFacets.                                *)
Publish ==
  /\ step = "copying" /\ stage \in {"idle", "ready", "dropped"} /\ step' = "posted"
  /\ facets' = IF goal = "bluesky" THEN FindLinks(out) ELSE <<>>
  /\ UNCHANGED <<given, config, login, body, media, goal, out, mediaVars>>

(* The arguments of prepareAttachment before it is called: never read.     *)
AnyAttachment == CHOOSE a \in Attachments : TRUE
AnyLimits == CHOOSE l \in MediaLimits : TRUE

ContentInit ==
  /\ \E family \in Cases : given \in family
  /\ config = given.file /\ step = "start" /\ login = "none"
  /\ body = <<>> /\ media = NoFile /\ goal = "none" /\ out = <<>> /\ facets = <<>>
  /\ attachment = AnyAttachment /\ limits = AnyLimits
  /\ stage = "idle" /\ as = "image" /\ file = NoFile
  /\ edges = {} /\ quality = 1 /\ prepared = NoFile

ContentNext == StartUp \/ Read \/ PassOver \/ Copy \/ Prepare \/ Publish

ContentSpec == ContentInit /\ [][ContentNext]_contentVars

(***************************************************************************)
(* What must hold.                                                         *)
(***************************************************************************)
(* Types; a link that is marked lies within the text that is published.    *)
ContentTypeOK ==
  /\ step \in {"start", "refused", "running", "passed", "read", "copying", "posted"}
  /\ login \in {"none", "opened", "failed"}
  /\ goal \in Names \cup {"none"} /\ config.enabled \subseteq Names
  /\ \A k \in DOMAIN facets : facets[k].at + Len(facets[k].url) - 1 \in 1..Len(out)

(* Where file and environment together hold what the enabled platforms     *)
(* need, nothing but a failed login with Bluesky keeps a process from      *)
(* starting: no constructor misses what Validate has let pass, and no      *)
(* secret has to be in the file.  Where they do not, the process refuses   *)
(* before any login is tried.                                              *)
StartsWhenComplete ==
  LET all == given.file.set \cup given.env
      Complete(p) == /\ Required[p] \subseteq all
                     /\ p = "twitter" => Bearer \in all \/ OAuth1 \subseteq all
      complete == given.file.enabled # {} /\ \A p \in given.file.enabled : Complete(p)
  IN step # "start" =>
       /\ login # "none" <=> complete /\ "bluesky" \in given.file.enabled
       /\ step = "refused" <=> ~complete \/ login = "failed"

(* Every route leads to platforms that have an adapter which may post, and *)
(* never back; without a word of the operator, to all of them.             *)
RoutesSound ==
  step \notin {"start", "refused"} =>
    \A origin \in Names :
      LET reached == {Routes(origin)[i] : i \in DOMAIN Routes(origin)}
      IN /\ reached \subseteq Targets(config) \ {origin}
         /\ origin \notin DOMAIN given.file.routes =>
              reached = Targets(config) \ {origin} /\ Len(Routes(origin)) <= 2

(* A poll takes a post exactly when its number is greater than the         *)
(* cursor's, whatever zeros they are written with.                         *)
Number(id) ==
  LET of[k \in 0..Len(id)] == IF k = 0 THEN 0 ELSE 10 * of[k - 1] + id[k]
  IN of[Len(id)]
NewerIsGreater ==
  Post.origin # "bluesky" /\ Post.cursor # <<>> /\ Post.id # <<>> =>
    /\ step = "read" => Number(Post.id) > Number(Post.cursor)
    /\ step = "passed" => Number(Post.id) <= Number(Post.cursor)

(* A post of Mastodon arrives as its author wrote it, but for white space: *)
(* no bracket or entity in it is taken for markup.                         *)
MarkupOnlyDropped ==
  step = "read" /\ Post.origin = "mastodon" => Collapse(body) = Collapse(Post.text)

(* The same text written on Mastodon and elsewhere has the same hash, and  *)
(* but for what looks like a tag the hash keeps all its words.             *)
SameWordsSameHash ==
  step = "read" /\ Post.origin = "mastodon" =>
    /\ Normalize(body) = Normalize(Post.text)
    /\ (\A i \in DOMAIN Post.text : Post.text[i] \notin {"<", "&lt;"}) =>
         Normalize(body) = Collapse(Post.text)

(* What the author of a tweet meant: every link in place of X's short one, *)
(* no link to its media.                                                   *)
Meant(t, entities) ==
  LET Of(i) == {k \in DOMAIN entities : Spans(entities[k], t) /\ entities[k].start = i - 1}
      At(i) == IF Of(i) = {} THEN <<t[i]>>
               ELSE LET e == entities[CHOOSE k \in Of(i) : TRUE]
                    IN IF e.media THEN <<>>
                       ELSE IF e.expanded = <<>> THEN <<t[i]>> ELSE e.expanded
  IN Joined([i \in DOMAIN t |-> At(i)])

Gaps(s) == {i \in 1..(Len(s) - 1) : IsSpace(s[i]) /\ IsSpace(s[i + 1])}

(* Editing the links one by one, by offsets into the tweet as X sent it,   *)
(* gives what the author meant, and opens no gap where a link was.         *)
LinksExpandedInPlace ==
  step = "read" /\ Post.origin = "twitter" =>
    /\ Collapse(body) = Collapse(Meant(Post.text, Post.entities))
    /\ Gaps(Post.text) = {} => Gaps(body) = {}

(* A text that fits is left alone; another is cut at the last place within *)
(* the limit that is not inside a URL, with room for the ellipsis.         *)
TextFits ==
  LET max == TextMax[goal]
      InUrl(n) == \E j \in 1..n : /\ body[j] = "scheme"
                                  /\ \A m \in j..(n + 1) : ~IsSpace(body[m])
      cut == CHOOSE n \in 0..(max - 1) : ~InUrl(n) /\ \A m \in (n + 1)..(max - 1) : InUrl(m)
  IN step = "posted" =>
       /\ Len(out) <= max
       /\ out = IF Len(body) <= max THEN body
                ELSE TrimSpace(SubSeq(body, 1, cut)) \o <<Ellipsis>>

(* What may stand for an address: one word that does not end in what is    *)
(* the sentence's, a stop, an ellipsis, or a bracket more than it opens.   *)
Address(a) ==
  LET Brackets(c) == Cardinality({k \in DOMAIN a : a[k] = c})
      last == a[Len(a)]
  IN /\ \A k \in DOMAIN a : ~IsSpace(a[k])
     /\ last \notin {".", Ellipsis}
     /\ last = ")" => Brackets(")") <= Brackets("(")

(* A link is the longest address from the first scheme of a word on, where *)
(* anything follows the scheme.                                            *)
LinkFromTo(s, i, j) ==
  /\ s[i] = "scheme" /\ i + 1 \in DOMAIN s /\ ~IsSpace(s[i + 1])
  /\ ~\E k \in 1..(i - 1) : s[k] = "scheme" /\ \A m \in k..i : ~IsSpace(s[m])
  /\ Address(SubSeq(s, i, j)) /\ \A m \in (j + 1)..Len(s) : ~Address(SubSeq(s, i, m))

LinksOf(s) ==
  LET starts == Ascending({i \in DOMAIN s : \E j \in i..Len(s) : LinkFromTo(s, i, j)})
      End(i) == CHOOSE j \in i..Len(s) : LinkFromTo(s, i, j)
  IN [k \in DOMAIN starts |->
        [at |-> starts[k], url |-> SubSeq(s, starts[k], End(starts[k]))]]

(* The links marked in a copy are all that its text has, at their places,  *)
(* and their addresses are the first ones of the post's links: none is cut *)
(* short, none takes the ellipsis or the sentence's punctuation with it,   *)
(* and none loses a bracket while it opens as many as it closes.           *)
LinksWhole ==
  LET Addresses(links) == [k \in DOMAIN links |-> links[k].url]
  IN step = "posted" /\ goal = "bluesky" =>
       /\ facets = LinksOf(out) /\ Len(facets) <= Len(LinksOf(body))
       /\ Addresses(facets) = SubSeq(Addresses(LinksOf(body)), 1, Len(facets))

(* What is shown of an attachment is the best its origin has of it: where  *)
(* videos are taken the MP4 with the highest bit rate, in place of a video *)
(* its still image; and it is given up without asking the origin for a     *)
(* file only when there is none to ask for, or it is audio.                *)
BestShown ==
  LET item == Post.item
      moving == item.type \in {"video", "animated_gif", "gifv"}
      mp4s == {v \in {item.variants[i] : i \in DOMAIN item.variants} :
                 v.type = "video/mp4" /\ v.file # NoFile}
  IN step \in {"copying", "posted"} /\ item # NoFile =>
       /\ as = "video" => IF mp4s = {} THEN file = item.file
                          ELSE \E v \in mp4s : /\ v.file = file
                                               /\ \A w \in mp4s : w.rate <= v.rate
       /\ as = "image" => file \in {NoFile, IF moving THEN item.preview ELSE item.file}
       /\ stage = "dropped" /\ file = NoFile =>
            \/ item.type = "audio"
            \/ (IF moving THEN item.preview ELSE item.file) = NoFile
=============================================================================
