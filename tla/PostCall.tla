------------------------------ MODULE PostCall ------------------------------
(***************************************************************************)
(* What the engine may rely on when it calls target.Post (Target of        *)
(* internal/feed/engine.go): it creates at most one post on the target,    *)
(* it returns an identifier only of a post it created, and when it returns *)
(* an error the post may still be there, because the answer was lost.      *)
(* Create, Answer, Refuse, LoseAnswer and Crash of Engine are these steps; *)
(* module Posting shows that the three adapters take no others.            *)
(***************************************************************************)
EXTENDS Naturals

VARIABLES call,    \* "posting", "answering", "ok", "error", "dead"
          copies   \* how many posts the call has created

vars == <<call, copies>>

Init == call = "posting" /\ copies = 0

Create     == call = "posting" /\ call' = "answering" /\ copies' = copies + 1
Refuse     == call = "posting" /\ call' = "error" /\ UNCHANGED copies
Answer     == call = "answering" /\ call' = "ok" /\ UNCHANGED copies
LoseAnswer == call = "answering" /\ call' = "error" /\ UNCHANGED copies
Die        == call = "posting" /\ call' = "dead" /\ UNCHANGED copies

Next == Create \/ Refuse \/ Answer \/ LoseAnswer \/ Die

Spec == Init /\ [][Next]_vars
=============================================================================
