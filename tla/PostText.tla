------------------------------ MODULE PostText ------------------------------
(***************************************************************************)
(* The text of a post on its way between platforms: StripHTML, Normalize,  *)
(* Truncate and FindLinks of internal/text/plain.go, expandTweetURLs of    *)
(* internal/platform/twitter/twitter.go, and the comparison of identifiers *)
(* in internal/platform/state.go.  A text is a sequence of characters:     *)
(* letters, blanks, punctuation, "scheme" for an https://, "br", "/p" and  *)
(* "p" for the names of tags, an entity, a short link of X.                *)
(*                                                                         *)
(* Left out: bytes against code points, upper case, tabs, other tags, and  *)
(* break tags with blanks or a slash inside, such as <br />.               *)
(***************************************************************************)
EXTENDS Slices

Space == " "
Newline == "\n"
Ellipsis == "..."
IsSpace(c) == c \in {Space, Newline}

TrimSpace(s) ==
  Pick(s, {i \in DOMAIN s : /\ \E j \in 1..i : ~IsSpace(s[j])
                            /\ \E j \in i..Len(s) : ~IsSpace(s[j])})

(* The words of s, with one space between two.                             *)
Collapse(s) ==
  LET upTo[n \in 0..Len(s)] ==
        IF n = 0 THEN <<>>
        ELSE LET words == upTo[n - 1]
             IN IF IsSpace(s[n]) THEN words
                ELSE IF words # <<>> /\ IsSpace(s[n - 1]) THEN words \o <<Space, s[n]>>
                ELSE Append(words, s[n])
  IN upTo[Len(s)]

(***************************************************************************)
(* StripHTML.                                                              *)
(***************************************************************************)
BreakAt(s, i) ==
  i \in 1..(Len(s) - 2) /\ s[i] = "<" /\ s[i + 1] \in {"br", "/p"} /\ s[i + 2] = ">"

BreaksToLines(s) ==
  LET marked == [i \in DOMAIN s |-> IF BreakAt(s, i) THEN Newline ELSE s[i]]
  IN Pick(marked, {i \in DOMAIN s : ~BreakAt(s, i - 1) /\ ~BreakAt(s, i - 2)})

(* From a "<" to the next ">", leftmost first.                             *)
InTag(s, i) ==
  \E j \in 1..i, k \in i..Len(s) :
    s[j] = "<" /\ s[k] = ">" /\ \A m \in j..(k - 1) : s[m] # ">"

DropTags(s) == Pick(s, {i \in DOMAIN s : ~InTag(s, i)})

Entity(c) == CASE c = "<" -> "&lt;" [] c = ">" -> "&gt;" [] c = "&lt;" -> "&amp;lt;"
               [] OTHER -> c
Unescape(s) ==
  [i \in DOMAIN s |-> CASE s[i] = "&lt;" -> "<" [] s[i] = "&gt;" -> ">"
                        [] s[i] = "&amp;lt;" -> "&lt;" [] OTHER -> s[i]]

(* Spaces next to a line's end go first, then a third newline in a row.    *)
TidyLines(s) ==
  LET Edge(t, i) ==
        \/ \E k \in i..Len(t) : t[k] = Newline /\ \A m \in i..(k - 1) : t[m] = Space
        \/ \E k \in 1..i : t[k] = Newline /\ \A m \in (k + 1)..i : t[m] = Space
      lines == Pick(s, {i \in DOMAIN s : s[i] = Space => ~Edge(s, i)})
  IN Pick(lines, {i \in DOMAIN lines :
                    ~(i > 2 /\ \A j \in (i - 2)..i : lines[j] = Newline)})

(* Mutated form: entities are decoded before tags are dropped.             *)
StripHTMLDecodedFirst(s) ==
  TrimSpace(TidyLines(DropTags(Unescape(BreaksToLines(s)))))

StripHTML(s) == TrimSpace(TidyLines(Unescape(DropTags(BreaksToLines(s)))))

(* What an instance makes of a text: paragraphs, breaks, entities.         *)
Rendered(s) ==
  LET Line(i) == i \in DOMAIN s /\ s[i] = Newline
      Html(i) == IF ~Line(i) THEN <<Entity(s[i])>>
                 ELSE IF Line(i - 1) THEN <<>>
                 ELSE IF Line(i + 1) THEN <<"<", "/p", ">", "<", "p", ">">>
                 ELSE <<"<", "br", ">">>
  IN <<"<", "p", ">">> \o Joined([i \in DOMAIN s |-> Html(i)]) \o <<"<", "/p", ">">>

(* Mutated form: white space is kept as it is.                             *)
NormalizeKeepingLines(s) == StripHTML(s)

(* Normalize, which stands for its Hash.                                   *)
Normalize(s) == Collapse(StripHTML(s))

(***************************************************************************)
(* Links.                                                                  *)
(***************************************************************************)
(* urlPattern: a scheme and what follows it up to the next blank.          *)
UrlStart(s, i) ==
  /\ i < Len(s) /\ s[i] = "scheme" /\ ~IsSpace(s[i + 1])
  /\ \A j \in 1..(i - 1) : s[j] = "scheme" => \E k \in j..i : IsSpace(s[k])
UrlEnd(s, i) ==
  CHOOSE k \in i..Len(s) : /\ \A j \in i..k : ~IsSpace(s[j])
                           /\ k = Len(s) \/ IsSpace(s[k + 1])

(* Mutated form: the sentence's punctuation stays with the link.           *)
LinkLengthWhole(raw) == Len(raw)

(* trimLinkEnd: the length that is left of a URL.  It gives up its last    *)
(* character as long as that is punctuation or closes no bracket of it.    *)
LinkLength(raw) ==
  LET Count(n, c) == Cardinality({i \in 1..n : raw[i] = c})
      GivenUp(n) == \/ raw[n] \in {".", Ellipsis}
                    \/ raw[n] = ")" /\ Count(n, "(") < Count(n, ")")
  IN CHOOSE n \in 0..Len(raw) : /\ n = 0 \/ ~GivenUp(n)
                                /\ \A m \in (n + 1)..Len(raw) : GivenUp(m)

(* In the order of the text; each is its first position and its address.   *)
FindLinks(s) ==
  LET starts == Ascending({i \in DOMAIN s : UrlStart(s, i)})
      Link(i) == LET raw == SubSeq(s, i, UrlEnd(s, i))
                 IN [at |-> i, url |-> SubSeq(raw, 1, LinkLength(raw))]
  IN [k \in DOMAIN starts |-> Link(starts[k])]

(***************************************************************************)
(* Truncate; a cut is the number of characters that are kept.              *)
(***************************************************************************)
(* Mutated form: the cut stays inside a URL.                               *)
AvoidSplittingURLNever(s, cut) == IF cut < Len(s) THEN cut ELSE Len(s)

AvoidSplittingURL(s, cut) ==
  LET Splits(i) == UrlStart(s, i) /\ i - 1 < cut /\ cut < UrlEnd(s, i)
  IN IF \E i \in DOMAIN s : Splits(i)
     THEN (CHOOSE i \in DOMAIN s : Splits(i)) - 1 ELSE cut

(* Mutated form: no room is left for the ellipsis.                         *)
FirstCutFull(max) == max

FirstCut(max) == IF max < 1 THEN 0 ELSE max - 1

Truncate(s, max) ==
  IF max <= 0 \/ Len(s) <= max THEN s
  ELSE TrimSpace(SubSeq(s, 1, AvoidSplittingURL(s, FirstCut(max)))) \o <<Ellipsis>>

(***************************************************************************)
(* expandTweetURLs.  An entity's span counts from 0 and ends before end.   *)
(***************************************************************************)
Entities == [start : Int, end : Int, url : STRING, media : BOOLEAN, expanded : Seq(STRING)]

Spans(e, s) == /\ e.url # "" /\ 0 <= e.start /\ e.start < e.end /\ e.end <= Len(s)
               /\ SubSeq(s, e.start + 1, e.end) = <<e.url>>

(* A link to the tweet's media goes, and one separator after it when there *)
(* is one before it or the text starts with it.                            *)
Without(s, e) ==
  LET swallow == /\ e.end < Len(s) /\ IsSpace(s[e.end + 1])
                 /\ e.start = 0 \/ IsSpace(s[e.start])
  IN SubSeq(s, 1, e.start) \o SubSeq(s, e.end + (IF swallow THEN 2 ELSE 1), Len(s))

Edit(done, e) ==
  CASE ~Spans(e, done.text) -> done
    [] Spans(e, done.text) /\ e.media -> [text |-> Without(done.text, e), removed |-> TRUE]
    [] Spans(e, done.text) /\ ~e.media /\ e.expanded # <<>> ->
         [done EXCEPT !.text = SubSeq(@, 1, e.start) \o e.expanded
                               \o SubSeq(@, e.end + 1, Len(@))]
    [] OTHER -> done

(* Mutated form: the first entity is edited first.                         *)
EditedFirst(a, b) == a.start < b.start

EditedBefore(a, b) == a.start > b.start

(* From the end of the text backwards.                                     *)
Backwards(entities) ==
  LET D == DOMAIN entities
      UpTo(i) == {j \in D : \/ EditedBefore(entities[j], entities[i])
                            \/ ~EditedBefore(entities[i], entities[j]) /\ j <= i}
  IN [k \in D |-> entities[CHOOSE i \in D : Cardinality(UpTo(i)) = k]]

ExpandTweetURLs(s, entities) ==
  LET sorted == Backwards(entities)
      edited[k \in 0..Len(entities)] ==
        IF k = 0 THEN [text |-> s, removed |-> FALSE] ELSE Edit(edited[k - 1], sorted[k])
      done == edited[Len(entities)]
  IN IF done.removed THEN TrimSpace(done.text) ELSE done.text

(***************************************************************************)
(* Identifiers, sequences of digits.                                       *)
(***************************************************************************)
(* Mutated form: zeros in front count.                                     *)
CanonicalIDAsIs(id) == id

CanonicalID(id) ==
  LET trimmed == Pick(id, {i \in DOMAIN id : \E j \in 1..i : id[j] # 0})
  IN IF id # <<>> /\ trimmed = <<>> THEN <<0>> ELSE trimmed

(* Go's order of strings, for two of a length.                             *)
GreaterDigits(a, b) ==
  \E i \in DOMAIN a : a[i] > b[i] /\ \A j \in 1..(i - 1) : a[j] = b[j]

IDNewer(x, y) ==
  LET a == CanonicalID(x)
      b == CanonicalID(y)
  IN CASE b = <<>> -> a # <<>>
       [] a = <<>> /\ b # <<>> -> FALSE
       [] OTHER -> IF Len(a) # Len(b) THEN Len(a) > Len(b) ELSE GreaterDigits(a, b)
=============================================================================
