------------------------------- MODULE Slices -------------------------------
(***************************************************************************)
(* What loops over slices make of them: the elements that are kept, in     *)
(* their order, and pieces joined to one.  SelectSeq and FlattenSeq say    *)
(* the same by operators; here the k-th position that is kept is the one   *)
(* with k of them up to it, and joining is a function of the number of     *)
(* pieces, both of which can be reasoned about.                            *)
(***************************************************************************)
EXTENDS Integers, FiniteSets, Sequences

(* A finite set of positions as an ascending sequence.                     *)
Ascending(K) ==
  [k \in 1..Cardinality(K) |-> CHOOSE i \in K : Cardinality({j \in K : j <= i}) = k]

Pick(s, K) == LET kept == Ascending(K) IN [k \in DOMAIN kept |-> s[kept[k]]]

Joined(pieces) ==
  LET upTo[n \in 0..Len(pieces)] == IF n = 0 THEN <<>> ELSE upTo[n - 1] \o pieces[n]
  IN upTo[Len(pieces)]
=============================================================================
