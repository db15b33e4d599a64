------------------------------- MODULE Mirror -------------------------------
(***************************************************************************)
(* What xmbbridge promises to the people who read the platforms, and says  *)
(* in its README: posts are mirrored as they were written, once, in their  *)
(* order and in their threads.  Nothing but the posts is visible here: no  *)
(* store, no cursor, no channel, no process.  Beside them stands what has  *)
(* gone wrong so far, because a promise may end with a lost answer, with a *)
(* failure of the store, or with the end of the process.                   *)
(***************************************************************************)
EXTENDS Naturals, Sequences

CONSTANTS
  Platforms,     \* model.AllPlatforms
  Routes,        \* Routes[p]: the platforms the posts of p are copied to
  Texts,         \* what a post may say
  Hash, NoHash,  \* texts with the same hash say the same
  Fit            \* Fit[p][x]: what of x a post on p has room for

VARIABLES
  posts,         \* all posts on all platforms
  troubles       \* the kinds of events that have happened

NoID     == 0
Faults   == {"lost", "dbError", "cancel", "crash"}
Troubles == Faults \cup {"expire"}

Calm     == troubles \cap Faults = {}
Answered == "lost" \notin troubles
Windowed == Calm /\ "expire" \notin troubles

(* The copies on platform t of the post of p with this identifier.         *)
CopiesOf(p, id, t) ==
  {c \in posts : /\ c.fromId # NoID /\ c.plat = t
                 /\ c.from = p /\ c.fromId = id}

(* A platform numbers its posts upwards.                                   *)
IsNext(new) == /\ new.plat \in Platforms /\ new.id # NoID
               /\ \A q \in posts : q.plat = new.plat => q.id < new.id

Written(new) ==
  /\ new.fromId = NoID /\ new.text \in Texts
  /\ new.parent = NoID \/ \E q \in posts : q.plat = new.plat /\ q.id = new.parent

(* The copy of o says what o says, as far as there is room, on a platform  *)
(* that o is routed to.                                                    *)
IsCopy(o, new) ==
  /\ new.from = o.plat /\ new.fromId = o.id
  /\ \E i \in 1..Len(Routes[o.plat]) : Routes[o.plat][i] = new.plat
  /\ new.text = Fit[new.plat][o.text]

(* A copy that is a reply replies to a copy of what o replies to, and in a *)
(* calm run it is one whenever there is such a copy.                       *)
InThread(o, new) ==
  LET above == CopiesOf(o.plat, o.parent, new.plat)
  IN  /\ new.parent # NoID => o.parent # NoID /\ \E q \in above : q.id = new.parent
      /\ Calm /\ o.parent # NoID /\ above # {} => new.parent # NoID

(* No second copy of a post, and none that says what another one said.     *)
FirstOfItsKind(o, new) ==
  /\ Answered => CopiesOf(o.plat, o.id, new.plat) = {}
  /\ Windowed /\ Hash[o.text] # NoHash =>
       \A q \in posts : Hash[q.text] = Hash[o.text] =>
         CopiesOf(q.plat, q.id, new.plat) = {}

(* Only what users wrote is copied, the older post first.                  *)
InTurn(o, new) ==
  Calm => /\ o.fromId = NoID
          /\ \A c \in posts :
               c.fromId # NoID /\ c.plat = new.plat /\ c.from = o.plat => c.fromId < o.id

Mirrors(new) ==
  \E o \in posts : /\ IsCopy(o, new) /\ InThread(o, new)
                   /\ FirstOfItsKind(o, new) /\ InTurn(o, new)

(* The only way a post comes into being: written by a user, or mirrored.   *)
Appear ==
  /\ \E new \in posts' \ posts :
       posts' = posts \cup {new} /\ IsNext(new) /\ (Written(new) \/ Mirrors(new))
  /\ UNCHANGED troubles

Happen == /\ \E k \in Troubles : troubles' = troubles \cup {k}
          /\ UNCHANGED posts

MirrorInit == posts = {} /\ troubles = {}

MirrorSpec == MirrorInit /\ [][Appear \/ Happen]_<<posts, troubles>>
=============================================================================
