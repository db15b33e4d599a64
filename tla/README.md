# A verification project for xmbbridge

xmbbridge mirrors one person's posts between Mastodon, X and Bluesky. This
directory holds TLA+ models of its core, translated from the Go source, the TLC
runs that check them on small instances, and theorems that TLAPS proves for every
value of the constants.

- [The system](#the-system)
- [Modules](#modules)
- [Runs, bounds, fairness](#runs)
- [What the code does not do](#what-the-code-does-not-do)
- [Proofs](#proofs)
- [Not modelled](#not-modelled), [Plan](#plan)
- [Running](#running)

## The system

| Component | State | Operations | What makes it correct |
|---|---|---|---|
| Store (`internal/store`) | tables `bridged`, `seen`, `cursors` | `IsBridgedTarget`, `ClaimBridge`, `CompleteBridge`, `FailBridge`, `TargetID`, `SeenRecently`, `MarkSeen`, `Cursor`, `SetCursor` | one row per (origin, target) pair; a finished row is never overwritten and names a real copy |
| Engine (`internal/feed/engine.go`) | the post in hand, its remaining targets, the attempt; the sink channel | `Run`, `consume`, `handle`, `bridge`, `prepareMedia` | one copy per post and target; own posts never copied; threads kept; every post settled; stops when asked |
| Polling listeners (`mastodon/inbound.go`, `twitter/inbound.go`, `PollLoop`, `Emit`) | cursor, the page being emitted | `poll`, `saveCursor` | a cursor passes nothing that was not handed over; oldest first |
| Jetstream listener (`bluesky/inbound.go`) | cursor, connection, `lastCursor`, `sinceFlush` | `Run`, `tailOnce`, `flush` | after any reconnection nothing behind the first cursor is missed |
| Posting adapters (`mastodon.go`, `outbound.go`, `upload.go`, `bluesky.go`) | uploads of one call | `Post`, uploads, waits for processing | at most one post per call; media whole and in order; a call ends |
| Bluesky session (`bluesky.go`) | the client with its tokens | `login`, `refresh`, `refreshLoop`, `client` | posts are sent with a token that is still accepted, also through an outage |
| Poll schedule (`platform/poll.go`, `twitter/inbound.go`) | delay, failures, what is left of a sleep | `PollLoop`, `Backoff.Delay`, `pauseForRefusal` | rate limits and refusals are respected, and polling never ends |
| Configuration (`internal/config`, `buildPlatforms`) | the file, the environment | `Load`, `Validate`, `WritablePlatforms`, `TargetsFor`, the constructors | what is accepted can run; no route to the origin or to a platform that cannot post |
| Conversion (`toPost` of each adapter, `state.go`) | none | `StripHTML`, `expandTweetURLs`, `mediaFrom...`, `bestMP4`, `IDNewer` | the post that is copied is the one its author wrote |
| Text (`internal/text`) | none | `Truncate`, `FindLinks`, `Normalize`, `Hash` | within the limit, links whole, equal texts recognised |
| Media (`internal/media`) | none | `Fetch`, `FitImage`, `TranscodeVideo` | within the limits, or dropped |
| Process (`cmd/bridge`, systemd unit) | the context | start, SIGTERM, restart | no state but the store survives |

**How they interact.** Each listener is a goroutine that sends posts into one
buffered channel, the *sink* (`platform.Emit`), and blocks when it is full. One
goroutine, the consumer, takes a post, asks guard one (`IsBridgedTarget`: is this
one of our copies coming back?) and guard two (`SeenRecently`: was the same text
handled lately?), and for each route claims the pair in the table, looks up the
target id of a reply's parent, prepares the attachments, and calls `target.Post`
under `Retry`. It then completes or fails the row and finally marks the text as
seen. Listeners save their cursors themselves, *after* their posts are in the sink
and *without* knowing whether the engine handled them. A stop or a listener that
returns an error cancels one context that the consumer, the listeners, the retries
and the engine's store calls share; the cursor is saved under a context of its own.

**What is hard.** The copy is created on the platform and recorded in the table in
two steps, and the copies come back through the listeners at any point between
them. A lost answer looks like a refusal. The cursor and the sink are not updated
together. `select` picks at random between a ready channel and a cancelled context.
A crash keeps the table and the platforms and loses everything else.
`PROJECT.json` lists these hazards at their lines with the properties that cover
each one.

## Modules

| Module | Models | Extends |
|---|---|---|
| `BridgeStore` | the store's methods as operators on the two tables | |
| `Engine` | the consumer step by step, cancellation, exit, crash, restart, users, and listeners that may deliver any post | `BridgeStore` |
| `Poller` | the polling listeners of Mastodon and X | `Engine` |
| `Jetstream` | the Bluesky listener | `Poller` |
| `Mirror` | abstract: what the bridge promises to the people who read the platforms | |
| `Bridge` | the process: consumer and listeners composed; fairness; liveness | `Jetstream` |
| `Posting` | the attachments of one copy and one call of `target.Post` on each platform, request by request | |
| `PostCall` | abstract: what `Engine` assumes of that call | |
| `PollSchedule` | when X is polled: `PollLoop`, `Backoff`, the wait and the pause a poll asks for, and X's window | |
| `Session` | Bluesky's tokens: `refreshLoop` against the requests of a post | |
| `Timers` | both under one clock and one process; fairness; liveness | `PollSchedule`, `Session` |
| `Settings` | the configuration, the constructors' demands, the routes | `Slices` |
| `Slices` | what loops over slices keep and join | |
| `PostText` | the algorithms on texts, links and identifiers | `Slices` |
| `MediaFit` | one attachment made to fit one platform | |
| `OriginMedia` | what the adapters make of what is attached to a post | `MediaFit`, `Slices` |
| `Content` | what of one post arrives, from the configuration to the record | `Settings`, `PostText`, `OriginMedia` |
| `MCEngine`, `MCBridge`, `MCPosting`, `MCContent` | instances for TLC | |
| `EngineProofs`, `BridgeProofs`, `PostingProofs`, `TimersProofs`, `TextProofs`, `WordsProofs`, `MarkupProofs`, `ContentProofs` | theorems and the lemmas they rest on | |

The modules stand in three refinements: `Bridge` implements `Engine` (its listeners
deliver only posts that exist) and `Mirror` (see below), and `Posting` implements `PostCall`, the five steps
`Create`, `Answer`, `Refuse`, `LoseAnswer` and the crash by which `Engine` knows
the adapters. Three models look at one process from three sides and share no
state: `Bridge` has no durations and takes a post's contents for constants
(`Hash`, `Fit`), `Timers` has only durations, `Content` only contents.

### Engine

`pc` is the place of the consumer in the code:

| `pc` | place | next step |
|---|---|---|
| `consume` | the `select` of `consume` | `Receive`, or `Return` once cancelled |
| `ours`, `seen` | guards of `handle` | `CheckOurs`, `CheckSeen` (then `Route`) |
| `claim`, `parent` | first half of `bridge` | `Claim`, `ResolveParent` |
| `attempt` | `Retry` looks at the context | `BeginAttempt` |
| `posting`, `answering` | inside `target.Post`, before and after the platform created the post | `Create`, `Refuse`; `Answer`, `LoseAnswer` |
| `complete`, `fail` | end of `bridge` | `Complete`, `Fail` |
| `mark` | end of `handle` | `Mark` |
| `returned`, `off` | after `consume`; no process | `Exit`, `Restart` |

`rows` and `seen` are the store; `posts` and `nextId` the platforms; a post that is
a copy carries the original it came from (`from`, `fromId`), which only the
properties read. The store is called with the engine's context, so once cancelled
every call fails and changes nothing (`StoreFails`); before that it fails by choice.
Each error path is the code's: a failing guard one drops the post, a failing guard
two lets it through, a failing claim skips the target, a failing completion is
logged and the pair counts as bridged.

`happened` counts outside events (posts by users, refusals, expired hashes, lost
answers, store errors, cancellations, crashes, lost connections); a behaviour stays
within one of the profiles in `Budgets`. These are the only bounds on behaviours.
The proofs do not use the profiles' values, so they hold for any.

Identifiers are natural numbers given in order by each platform. `Hash` and `Fit`
are constants: the text's hash and what `Truncate` leaves of it.

### Poller, Jetstream, Bridge

A poll fetches the newest page after the cursor (`Page`), hands over its wanted
posts oldest first, one `Emit` each, and then saves. The first poll without a
cursor and without `backfill` passes its page over. A listener is stopped in `Emit`
(cursor not saved) or between polls. `Jetstream` keeps the position of a
connection apart from the saved cursor: it may resume after the saved event or get
it once more; it flushes every `FlushInterval` events and when a connection ends,
and starts at the live tail when no cursor was ever saved (`joined` remembers
where, for the properties). The process exits when the consumer and *all* listeners
have returned (`wg.Wait`).

### Mirror

`Mirror` sees only the posts, and beside them the kinds of events that went wrong so
far. A post appears because a user wrote it, or because it mirrors another one: the
text as far as it fits, on a platform its origin is routed to, in the thread of its
original, after the copies of older posts, no second one of the same post, none
that says what another copy said. Which trouble ends which part of this is stated
there: a lost answer ends "no second one", an expired hash "none that says the same",
a fault the order. `MirrorsPosts` in `Bridge` maps `troubles` to the kinds that
`happened` counts, and `posts` to itself; every other step of the bridge is a stutter.

### Posting

`prepare` runs `prepareMedia` one attachment at a time: an image, a video, a poster
frame in place of a video that cannot be had, or nothing. Then one call of `Post`:
Bluesky resolves the parent of a reply, chooses the first video or the first
`maxImages` images; X takes the first `maxMediaPerTweet`, images in one request and
everything else in INIT, APPEND, FINALIZE, with `awaitProcessing`; Mastodon takes
all, and waits with `awaitMedia` where the answer has no URL. `media` is the
platform's side: how much it got of each upload and whether it is still processing
it. Time passes in `platform.Sleep`.

### PollSchedule, Session, Timers

Time is a count of ticks. `poll` is the place of `PollLoop`: sleeping, holding an
answer, handing over posts, or no process. `delay` is `Backoff.Delay` without its
jitter, which is chosen within the code's quarter; `override` is what `poll`
returns. X's side is a window with `left` requests and `reset` ticks to go; every
request may be answered, refused (401, 402, 403), limited (429) or lost on the way
there or back, and the clock of the process may run ahead by `MaxSkew`. `slips`
counts what keeps the loop from knowing the count: restarts and lost answers
within a window.

In `Session` a token has an age and the server accepts it below `Lifetime`;
`missed` counts renewals (a refresh and the login after it) that failed since it
was set. A request takes the client it finds (`Send`) and holds it to its end.
Requests of the loop and of posts take at most `RequestTime`, the client's
timeout. A process starts only with a login that succeeded (`New`).

### Settings, PostText, MediaFit, OriginMedia, Content

One behaviour of `Content` follows one case: a configuration file, an environment
and a post. `StartUp` is `config.Load` and the constructors, of which Bluesky's logs in:
`login` is the answer, where it is asked for, and a refused one ends the start, which
the supervisor tries again. `Read` is the conversion
by the post's adapter, unless the poller passes the post over (`PassOver`); `Copy`
the first half of `Engine.bridge`, for any one target; `Prepare` the steps of
`MediaFit`; `Publish` the adapter's part, on Bluesky with facets.

A text is a sequence of characters over a small alphabet: letters, blanks, a line
break, punctuation, brackets, `"scheme"` for `https://`, an entity, X's short
links, the ellipsis. The operators work on positions as the regular expressions do
(leftmost, longest). `Rendered` is external: how an instance of Mastodon makes
HTML of what a user typed. `Normalize` stands for its hash.

In `MediaFit` a file is a format, a number of bytes and a long edge; an encoder
produces any of `EncodedSizes` bytes and exactly the edge it was told. `edges` and
`quality` are what is left of the two nested loops of `FitImage`, or of the
attempts of `TranscodeVideo`.

## Runs

| Run | Question | Instance |
|---|---|---|
| `engine` | Do the guards, the claim and the table hold up when any post may arrive at any time, any number of times? | three platforms, routes m→b,x and b→m,x, so that one text may reach X from two platforms; profiles: one post, a crash and any two of lost answer, store error and stop; one post whose hash expires, store error, crash; one post whose attempts all fail, refused or with their answers lost; two posts (perhaps a reply) with a refusal and a lost answer |
| `bridge_safety` | Does the composition implement `Engine` and `Mirror`, and do cursors, sink and order fit together? | m polled, b followed; one post with every fault (three kinds in a behaviour); two posts, a refusal and a hash that expires; three posts with a lost connection; posts with and without a text |
| `bridge_live` | Is every post settled in the end, and does a stop always end the process? | two posts, a refusal, and a lost connection or a stop; sink of one |
| `posting` | Is what is posted whole, ordered, complete, created once, and does the call end? | five attachment lists up to three items, two sizes, segments of 2, caps of 2 |
| `timers` | Are limits and refusals respected and tokens alive, and do both loops go on for ever? | intervals of 2 and 3 ticks, a window of 4 with 3 requests, a pause of 5, a lifetime of 11; any request may fail |
| `content` | Does what arrives agree with what was meant? | about 40,000 cases, see below |
| `doc_*` | one disagreement each, see below | one or two posts |

**`engine`.** `NoSecondCopy` (the claim makes copies unique; beyond the first there
is one at most for each lost answer),
`OwnPostNeverCopied` (guard one, all faults included), `OnlyUserPostsCopied` (guard
one is complete without faults), `SameTextCopiedOnce` (guard two: X, a target of both
m and b, gets a text that stands on both once), `RepliesThreadedRight`, `RecordedCopyExists`, `FinishedRowsKept`,
`PendingIsBeingWorkedOn` (no orphan claims without faults).

**`bridge_safety`.** `Spec` (refinement of `Engine`), `MirrorsPosts` (refinement of
`Mirror`), `ReadMeansHandled` (without a fault, what is behind a cursor is in the sink, in hand, or settled),
`CopiedInOrder`, `ThreadsStayThreads` (a reply whose parent was read stays a reply).

**`bridge_live`.** `EveryPostSettled`, `StopsWhenAsked`.

**`posting`.** `AttachmentsKept`, `MediaWhole`, `ImplementsPostCall`, and `CallEnds`
although a platform may process media for ever; `TypeOK` includes that no wait
outlives its deadline by more than one sleep.

**`timers`.** `KeepsAllowance` (a rate limit is hit only after two slips in one
window: with one request in hand `remaining <= 1` leaves room for one), `RefusalRests`
(the pause holds against the backoff), `OutageSurvived` (a request has an expired
token only after two failed renewals in a row), `PollsAgain`, `SessionComesBack`.

**`content`.** Each property compares the code's algorithm with a definition of what
was meant, written without it: `StartsWhenComplete` (credentials in file or
environment, and Bluesky's answer to the login), `RoutesSound`, `NewerIsGreater` (numbers), `MarkupOnlyDropped` (the
text its author typed, through the HTML and back), `SameWordsSameHash`,
`LinksExpandedInPlace` (every link at once instead of edits by offset), `TextFits`
(the last allowed cut), `LinksWhole` (the addresses as the author wrote them, without
the sentence's punctuation, none cut short), `MediaFits`, `BestShown`.

Every property is broken by a plausible bug of the code it is about; these mutated
forms stand before the definitions they replace and are listed in `PROJECT.json`.

**Bounds, and why they are enough.** The properties relate at most two posts and
one or two targets, so two posts of two or three platforms make every pairing; a
reply needs its parent only. Three posts are needed where order and paging matter.
`Attempts` is 2 where the default is 3: "an attempt follows", "this was the last"
are the only cases the code tells apart. `SinkBuffer` of 1 and 2 (256 in the code)
makes a full sink common. `PageSize` 3 holds all posts (40 and 100 in the code);
`FlushInterval` 2 (100) has flushes both periodic and deferred. In `bridge_safety`
two constraints keep the states within reach: a connection is lost among three posts
only where all of them are on the followed platform (`ThreeAreFollowed`), and words, for
guard two, are in at most two posts, without a stop and a lost connection (`WordsAreFew`). In `engine`,
listeners deliver without bound; the sink's capacity bounds the state. In `posting`
a size of 5 with segments of 2 has a last segment that is shorter, a size of 1 has
only such a one; `Ceiling` 3 with waits of 0 (replaced by the default) and 2 ends
both within and beyond the deadline. A profile has one fault of a
kind (two refusals, so that all attempts fail), and up to three kinds meet in a behaviour.

In `timers` the constants keep the order the real values have, which the
assumptions name: a second of margin against an interval of 90, a window of 15
minutes within the 24 hours that are waited for, two renewals of 45 minutes and the
requests around them within a token's two hours. Two slips are the least that use
up an allowance. In `content` the texts are all those up to seven characters with a
link, four with markup, five with X's links; the limits of 3 to 5 characters put
the cut before, in, at the end of and behind a link; identifiers have up to three
digits with zeros in front; configurations miss any two credentials, partly made
good by the environment; attachments have sizes below, at and above the limits,
which are unset, negative, small, or of an odd edge. `MinEdge` is 2 (320).

**Fairness.** `bridge_live` assumes weak fairness of each goroutine (the Go scheduler
runs what can run), that requests return, of the exit, and of the restart
(`Restart=always` in `deploy/xmbbridge.service`), which stands for as many starts as it
takes until Bluesky accepts the login. `Return` has strong fairness: with
a cancelled context and a full sink `select` picks at random among ready cases, so
it does not pick the sink for ever. Nothing is assumed of users, faults, or the
relay's connection, except that cancellation closes it. The client of Bluesky has a
timeout of two minutes; the signed client of X and the client go-mastodon makes
have none, so there the assumption is about the platform and the network. In
`posting` only the caller is fair, never the platform's processing. `timers` assumes
that time passes, that the goroutines run, that a request ends (Bluesky's client has
a timeout; the poll of X is assumed to be answered or to fail), that the sink is
emptied, that the supervisor restarts, and, of the server only, that it does not
fail every login for ever (strong fairness): without it no session comes back.

`bridge_*`, `posting`, `content` and `doc_*` do not check for deadlock: with the budget
used up, or the call or the case over, the system may rest. `engine` and `timers` do
check it.

## What the code does not do

Each of these is a run that TLC must find violated, stating what a document or a
comment says:

| Run | Says | Does |
|---|---|---|
| `doc_never_echoes` | README: "Never echoes its own output" | a stop after `target.Post` returned makes `CompleteBridge` fail; the next process copies the copy back |
| `doc_held_means_copy` | `bridge` reports whether the target holds a copy | a claim orphaned by a crash makes it report true without one, for ever |
| `doc_restarts_resume` | README: "restarts resume from where they left off" | posts in the sink at a stop are behind the cursor and lost |
| `doc_starts_from_now` | README: "On first run the bridge starts from *now*" | an account without posts stores no cursor, so its first post counts as history |
| `doc_failure_retried` | `FailBridge`: a later poll can retry the pair | another target's success marks the text as seen, and guard two stops the retry |
| `doc_polls_until_ready` | `awaitProcessing` polls until the media is ready | a STATUS answer without `processing_info` is a nil dereference that ends the process |

Known limits that the properties exclude by their preconditions, and that follow
from the code: a lost answer to a successful post leads to another copy (`NoSecondCopy`
counts them, and the parts of `Mirror` that such a copy breaks end with it); more new posts than a page holds are passed over; between the first connection to the relay
and the first flush a reconnection misses posts; a pending row left by a crash is
never resolved; a reply to a post that was not mirrored becomes a post of its own,
and one whose Bluesky parent was deleted fails.

Smaller disagreements and limits met while modelling the algorithms; the models
follow the code:

- `transform.go:83-85` says a GIF over budget is "passed through unchanged ... rather
  than silently becoming a still frame". Over its bytes it is dropped; over its edge
  it does become a still JPEG (`MediaFits` states exactly that).
- `video: false` in the file has no effect: `defaultLimit` takes it for unset, so a
  video is replaced by its still image only when its origin gives no file or it cannot
  be encoded.
- An image that is within the edge but over the bytes is shrunk at once; its own size
  with a lower quality is tried only when no smaller edge is left in the plan.
- `media.image_max_dimension` is read and given a default, and then never used.
- ffmpeg's filter caps a video's width, where the comment says its long edge. Module
  `MediaFit` means the width when it says edge of a video.
- A video that cannot be fetched is dropped without its poster frame, one that cannot be
  encoded falls back to it. An image without a URL is dropped although a preview exists.
- `Normalize` strips tags from texts that are plain already, so two texts that differ
  only in something of the form `<...>` have one hash (`SameWordsSameHash` excludes
  them), and an author's `&lt;` equals `<`.
- A `https://` with nothing behind it is no link, but becomes one when a cut puts the
  ellipsis behind it; the texts checked have a host after every scheme.
- `plain.go:95-98` says closing brackets are part of a link only when the URL contains
  their matching opener. `trimLinkEnd` counts openers and closers: `https://a)b` keeps a
  bracket without an opener, and `https://a)(b)` loses its last one, which has one.
- Mastodon's `Limits` leaves out the duration, so `max_video_duration` has no effect there.
- A session survives one failed renewal, not two in a row: the loop waits for the next
  tick, 45 minutes, after a failed login (`OutageSurvived` says how far it holds).

## Proofs

All proofs are checked by TLAPS to the last leaf, for any values of the constants that
satisfy the assumptions named in the modules:

| Assumption | Says |
|---|---|
| `RoutesAssumption` | no platform routes to itself (used because a copy made on `cur.plat` could be its own source) |
| `BoundsAssumption`, `TextAssumption`, `PollerAssumption`, `JetstreamAssumption`, `PostingAssumption` | the types of the constants, and that bounds are positive |
| `NoPostAssumption`, `NoInfoAssumption` | the value that stands for "none" is no post and no answer |
| `ScheduleAssumption`, `WindowAssumption`, `SessionAssumption`, `LifetimeAssumption` | the order the durations of the code have, see Bounds |
| `MediaAssumption`, `ContentAssumption` | the types of attachments, limits and cases; every platform takes at least one character |

Every invariant, action property and refinement of the passing runs is the property of
a theorem; each invariant below was first checked by TLC on the instance of its run.

### The engine

**`EngineProofs`** proves `TypeOK`, `OwnPostNeverCopied`, `NoSecondCopy`,
`RecordedCopyExists`, `RepliesThreadedRight`, `OnlyUserPostsCopied`,
`PendingIsBeingWorkedOn`, `FinishedRowsKept` and `SameTextCopiedOnce`. None but the
first is inductive: each needs to know what the consumer learned earlier and the steps
since have not changed. The invariant `IInv` adds

- `PostsExist`: what is in the sink or in hand exists, and identifiers are fresh;
- `GuardPassed`: after guard one, the post in hand is not recorded as a copy (only
  the consumer writes the table, and it records ids that did not exist before);
- `ClaimHeld`: between claim and completion the slot holds exactly our pending row;
- `AnswerIsCopy`, `ParentIsCopy`: `createdID` and `ParentTargetID` name the right
  copies;
- `PairsClosed`: a pair that can be claimed, or whose claim is held while no post is
  under way, has no copy but those whose answers were lost;
- `CopiesRecorded`: without a fault every copy is recorded or about to be.

The proof goes through lemmas on the store's operators (`ClaimGranted`,
`CompletedRow`, `FailedRow`, ...), one lemma that sorts the steps by what they do to
the table, the copies and the consumer (`Steps`), and one `...Kept` lemma for each
part. For guard two (`SameWordsOnce`) it takes two more parts: `TextsMarked`, that
the hash of a copied text is in the table or the consumer has still to mark it, and
has made a copy of it; and `UniqueIds`, without which two posts could be taken for one
another.

### The bridge

**`BridgeProofs`** proves that `Bridge` implements `Engine` (`BridgeImplementsEngine`),
step by step with a small invariant (what a page holds are posts that exist); the
step that picks the oldest post of a page uses the well-ordering of the naturals.
`BridgeSafe` carries the theorems over. `BridgeTypeCorrect` proves the types of the
listeners; the count of events since a flush stays within `FlushInterval` because a
flush that is due comes before the next event (`FlushDue`), and a restart finds
every listener off because they all went down together (`AllOff`).

Its second half follows a post from the listener to the last of its targets.

- `OldestFirst`: without a fault copies appear in the order of their originals
  (`CopiedInOrder`). The order is carried by the copies, the post in hand and the sink
  together (`InOrder`), and by every listener standing ahead of all it has handed over:
  a poller with its page (`PollersAhead`), a stream although the relay may send the
  event of the cursor once more (`StreamsAhead`).
- `NothingLost`: what is behind a cursor is in the sink, in hand, or settled with every
  target (`ReadMeansHandled`). The invariant says what remains to be done of the post in
  hand and why no hash in the table can hide another post (`Progress`), which numbers
  a listener has yet to reach (`Numbered`), and that nothing it passed was dropped
  (`NothingForgotten`).
- `ThreadsMirrored`: a reply whose parent was read is copied as a reply, unless a
  platform refused a post (`ThreadsStayThreads`). Parents are older than replies
  (`ParentsOlder`), so they were handled before, and their row answers the lookup
  (`ParentFound`); posts come from listened platforms only (`Origins`).

- `BridgeMirrors`: the bridge implements `Mirror` (`MirrorsPosts`), with no hypothesis.
  The one step that is not a stutter or an event is `Create`: it copies the post in hand,
  so the invariant needs that the route was followed (`OnRoute`) and what guard one and
  the lookup of the parent found out (`ParentKnown`); the order comes from `OldestFirst`'s
  invariant. That the new post is the first of its kind is read off the state *after* the
  step, where `NoSecondCopy` and `SameTextCopiedOnce` hold: two copies would be two posts.

`NothingLost` and `ThreadsMirrored` hold under hypotheses, which are part of their
statements: `Backfill` (otherwise the first poll passes history over on purpose) and
`[]PagesHold` (never more new posts than a page, the limit named above). The instance of
`bridge_safety` satisfies both. The two properties are about states without a fault in
which no two posts of users have a hash in common (`TextsDiffer`; otherwise guard two
passes one over on purpose). The hash table of an earlier state could hide a post from
a later one, so the invariant is that of a state whose texts differ, and a step into one
comes from one: posts are never deleted.

### A call

**`PostingProofs`** proves that a call in `Posting` implements `PostCall`
(`CallsAreCalls`), from the invariant that no post exists before the request that
creates it, and `TypeOK`, `MediaWhole` and `AttachmentsKept` from the invariant
`PostInv`. Its parts follow the uploads: the platform's media are the chosen items one by
one and the identifiers kept are theirs (`Places`); what is kept is whole, and what is on
its way is as large as the segments sent (`Uploads`); which phase goes with which place
in the code (`Phases`); a sleep starts only within the deadline (`WaitsEnd`); prepared
items are in order (`ItemsOrdered`); the one post shows them all (`CreatedOnce`).

### The timers

**`TimersProofs`** proves both type invariants, `KeepsAllowance`, `RefusalRests` and
`OutageSurvived`. The schedule's invariant (`SpareOrParked`) says that a request
is to spare, counting slips, or that the loop sleeps until the window ends; the
clock's error is covered by `DelaysBounded`: no sleep is shorter than the margin. The
session's (`AgesBounded`) bounds the age of each token by the renewals it has missed
and the place of the ticker; `RenewalInTime` shows that the loop is back before
the next tick, so that none is dropped. `TimersImplement` carries both to the process.

### The contents

**`TextProofs`** has the lemmas on texts of any length: what `Pick` keeps is kept once
each, in order (`AscendingGoesUp`, `PickKeepsOrder`, `PickedElements`), `Joined` joins
every piece (`JoinedSteps`), every conversion gives a text again (`StripHTMLIsText`,
`ExpandTweetURLsIsText`, ...), a cut is the last place outside a URL
(`TruncatedTextFits`), links lie within the text (`LinksLieWithin`), and those of a cut
text are the first ones of the whole (`CutKeepsFirstLinks`). The library's induction
theorems cannot be used here, so an argument by induction is one by the least
counterexample: `FirstPosition` is the well-ordering of the naturals, and `Counting` and
`Recursion`, which follow from it, say that counting up reaches every number and that a
recursive function exists.

**`WordsProofs`** compares texts word by word. `Collapse`, what `strings.Fields` and
`strings.Join` leave of a text, is determined by its value for nothing and by what one
more character adds (`Appending`): a blank behind a blank adds nothing
(`BlankSwallowed`), several blanks are one (`BlankCountsOnce`), what is in front
and behind collapses on its own. The second part follows the edits of
`expandTweetURLs`, which go from the last offset to the first: the invariant `Reached`
says that up to the offset reached the text is still the tweet's, and that what stands
behind it has the words that were meant.

**`MarkupProofs`** follows a text through the HTML of an instance and back, and to its
hash. `StripHTML` is several passes, and each moves the characters that the next one
looks at; so each is followed through two texts one behind the other: line breaks
(`BreaksTogether`, where no `<br>` reaches across), tags (`TagsTogether`: a tag may open
in the first and close in the second), entities (`DecodedTogether`). From these comes
`Gives`: what a beginning contributes, whatever follows it. A tag gives nothing or a
new line (`TagGives`), an escaped character gives the character (`HtmlGives`), and an
instance's HTML is undone piece by piece from its end (`RenderedWords`). The last passes,
which tidy lines, change only blanks and leave one in every gap (`TidyKeepsWords`).

For the hash, the other direction is needed: two texts with the same words need not have
the same HTML, line breaks, or tags in the same places. Blanks between two texts either
stay or are hidden in a tag that opens before and closes behind them, and nothing else
depends on them (`BlanksKept`), so a run of blanks can be replaced by another
(`BlanksAlike`), and the hash depends on the words only (`HashOfWords`).

**`ContentProofs`** begins with `MediaFit` and proves `MediaFits` for any limits, files, encoders and qualities:
the plan of edges stays within the limit (`PlanAllowed`, `VideoPlanAllowed`), and
what is left of it does (`EdgesAllowed`). `FromAttachment` says that the file in hand is
one of the attachment's, which `BestShown` needs.

It then proves of `Content`, for any configuration, post, attachment
and limits, `StartsWhenComplete`, `RoutesSound`, `TextFits`, `LinksWhole`, `MediaFits`,
`BestShown`, `NewerIsGreater` and `ContentTypeOK`. The invariant `ContentInv` says where
the values in use come from: the configuration is the one that was loaded
(`ConfigLoaded`), what was read is what the adapter makes of the post (`PostRead`), the
copy is its text cut for the target, and its links (`CopyMade`), and the attachment being
prepared is the one that was read, with the target's limits (`MediaPrepared`). The rest is
about the operators. `NewerTaken` compares two identifiers of any length with the
numbers they write: zeros in front change nothing (`LeadingZeros`, `SameNumber`),
a longer one is greater (`LongerIsGreater`), else the first digit that differs
decides (`FirstDifferenceDecides`). `BestMP4IsBest` is the loop over variants.
`StartsWhenComplete` covers every answer to the login: a login is tried only where all
that is needed is there, and only a failed one stops the start then. What a link is, is
defined in `Content` without the code's loop over brackets (`Address`, `LinksOf`); that
`FindLinks` finds these links, and no others, in any text is `LinksAreFound`.

`LinksStayWhole` has a precondition, `HostsFollow`: a host follows every scheme in the
text. Without it the property is false, by the bare `https://` noted above.
`LinksInPlace` has one too, `LinksFit`, about what X sends: a short link leads to one
address, wherever it stands an entity marks it, and no address holds a blank or another
short link. Entities that mark something else, with any offsets, and doubled ones are
allowed. `MarkupDropped` and `HashesAgree` have the precondition `Typed`, a limit of the
model's alphabet and not of the code: `"&gt;"` and `"&amp;lt;"` stand there only for what
an instance makes of `>` and `&lt;`, because the alphabet has no character for what it
would make of them. Every state of the `content` run satisfies all three.

### Only model-checked

Liveness, which is out of the prover's reach: `EveryPostSettled`, `StopsWhenAsked`,
`CallEnds`, `PollsAgain`, `SessionComesBack`.

## Not modelled

Flags, logging, `-check` and `Stats` (no state that matters); `PruneSeen` (never
called); names, MIME types, descriptions, languages and dates; the pixels and the
duration of media; records and AT URIs (formatting); packaging. Offsets of links
are positions in characters, where the code counts bytes for Bluesky and code
points for X. Boosts are dropped by the listeners like unwanted replies and have no
kind of their own. Break tags are `<br>` and `</p>`; `<br />` and blanks inside them, which
`plain.go:19` takes too, are not in the alphabet. Errors in describing an image are only logged.

## Plan

Done: the store, the engine, the listeners and the process, and that they implement
`Mirror`; posting; the timers; the contents; every safety property proved. What
is left is the dedup window with time: what guard two dropped, and a replay afterwards.

## Running

In this directory, with the TLA+ tools and TLAPS 1.4.5:

    tlc -workers 2 -config engine.cfg MCEngine
    tlc -workers 2 -config bridge_safety.cfg MCBridge
    tlc -workers 2 -config posting.cfg MCPosting
    tlc -workers 2 -config timers.cfg Timers
    tlc -workers 2 -config content.cfg MCContent
    for m in *Proofs.tla; do tlapm $m; done

`PROJECT.json` pairs each run with its module and configuration, and each
definition with the lines of source it translates.
