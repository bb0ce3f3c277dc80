----------------------------- MODULE MCPrereview -----------------------------
(* Instances of Prereview for TLC. *)
EXTENDS Prereview, TLC

CONSTANTS w1, w2, p1, x, y

TwoWorkers  == {w1, w2}
OneRule     == {p1}
TwoContents == {x, y}
OnlyX       == {x}

\* Which worker leads at first makes no difference.
FirstInit  == Init /\ leader = w1
FirstLeads == FirstInit /\ [][Next]_vars /\ Fairness
=============================================================================
