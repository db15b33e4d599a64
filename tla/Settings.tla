------------------------------ MODULE Settings ------------------------------
(***************************************************************************)
(* The configuration of internal/config/config.go, and what main.go, the   *)
(* adapters' constructors and feed.New make of it.  A configuration is     *)
(*   enabled  the platforms that are enabled,                              *)
(*   set      the credentials that are not empty,                          *)
(*   routes   a list of names for some origins,                            *)
(*   limits   for each platform its media limits, 0 where unset;           *)
(* the two OAuth lines of a kind, key and secret, are one credential.      *)
(*                                                                         *)
(* Left out: paths, intervals, the log level, limits of duration.          *)
(***************************************************************************)
EXTENDS Slices

AllPlatforms == <<"mastodon", "bluesky", "twitter">>
Valid(name) == \E i \in DOMAIN AllPlatforms : AllPlatforms[i] = name

Required ==
  [mastodon |-> {"mastodon server", "mastodon token"},
   bluesky  |-> {"bluesky handle", "bluesky password"},
   twitter  |-> {"twitter user"}]
OAuth1 == {"twitter consumer", "twitter token"}
Bearer == "twitter bearer"

(***************************************************************************)
(* Load.                                                                   *)
(***************************************************************************)
(* A video switch that is off is taken for one that is unset.              *)
DefaultLimit(l, default) ==
  [bytes      |-> IF l.bytes = 0 THEN default.bytes ELSE l.bytes,
   videoBytes |-> IF l.videoBytes = 0 THEN default.videoBytes ELSE l.videoBytes,
   edge       |-> IF l.edge = 0 THEN default.edge ELSE l.edge,
   video      |-> l.video \/ (default.videoBytes > 0 /\ default.video)]

ApplyDefaults(c, defaults) ==
  [c EXCEPT !.limits = [p \in DOMAIN @ |-> DefaultLimit(@[p], defaults[p])]]

ApplyEnv(c, env) == [c EXCEPT !.set = @ \cup env]

UsesOAuth1(c) == OAuth1 \subseteq c.set

Validate(c) ==
  /\ c.enabled # {}
  /\ \A p \in c.enabled : Required[p] \subseteq c.set
  /\ "twitter" \in c.enabled => Bearer \in c.set \/ UsesOAuth1(c)

(* Mutated form: the environment comes too late.                           *)
LoadUnhelped(file, env, defaults) ==
  LET c == ApplyDefaults(file, defaults)
  IN [config |-> ApplyEnv(c, env), valid |-> Validate(c)]

Load(file, env, defaults) ==
  LET c == ApplyEnv(ApplyDefaults(file, defaults), env)
  IN [config |-> c, valid |-> Validate(c)]

(***************************************************************************)
(* buildPlatforms: what the constructors demand, and CanPost.  The one of  *)
(* Bluesky, built after Mastodon's and before X's, asks for a session;     *)
(* the answer is "opened" or "failed".                                     *)
(***************************************************************************)
NewMastodon(c) == {"mastodon server", "mastodon token"} \subseteq c.set
CanLogIn(c) == {"bluesky handle", "bluesky password"} \subseteq c.set
(* Mutated form: a login that failed is not noticed.                        *)
NewBlueskyUnsure(c, session) == CanLogIn(c)

NewBluesky(c, session) == CanLogIn(c) /\ session = "opened"
NewTwitter(c) == "twitter user" \in c.set /\ (UsesOAuth1(c) \/ Bearer \in c.set)

ReachesLogin(c) ==
  "bluesky" \in c.enabled /\ CanLogIn(c) /\ ("mastodon" \in c.enabled => NewMastodon(c))

BuildPlatforms(c, session) ==
  /\ "mastodon" \in c.enabled => NewMastodon(c)
  /\ "bluesky" \in c.enabled => NewBluesky(c, session)
  /\ "twitter" \in c.enabled => NewTwitter(c)

CanPost(c) == UsesOAuth1(c)
Sources(c) == c.enabled
Targets(c) == {p \in c.enabled : p = "twitter" => CanPost(c)}

(***************************************************************************)
(* Routes.                                                                 *)
(***************************************************************************)
WritablePlatforms(c) ==
  Pick(AllPlatforms, {i \in DOMAIN AllPlatforms :
                        /\ AllPlatforms[i] \in c.enabled
                        /\ AllPlatforms[i] = "twitter" => UsesOAuth1(c)})

Writable(c, name) == \E i \in DOMAIN WritablePlatforms(c) : WritablePlatforms(c)[i] = name

(* What a list names, but for the origin itself.                           *)
OthersIn(list, origin) == {i \in DOMAIN list : list[i] # origin}

(* Mutated form: a route is followed as it is written.                     *)
TargetsForAsWritten(c, origin) ==
  IF origin \in DOMAIN c.routes
  THEN LET list == c.routes[origin]
       IN Pick(list, {i \in OthersIn(list, origin) : Valid(list[i])})
  ELSE Pick(WritablePlatforms(c), OthersIn(WritablePlatforms(c), origin))

TargetsFor(c, origin) ==
  IF origin \in DOMAIN c.routes
  THEN LET list == c.routes[origin]
       IN Pick(list, {i \in OthersIn(list, origin) : Valid(list[i]) /\ Writable(c, list[i])})
  ELSE Pick(WritablePlatforms(c), OthersIn(WritablePlatforms(c), origin))
=============================================================================
