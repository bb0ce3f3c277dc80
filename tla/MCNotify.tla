------------------------------ MODULE MCNotify ------------------------------
(* Instances of Notify for TLC. *)
EXTENDS Notify, TLC

CONSTANTS w1, w2

OneWorker  == {w1}
TwoWorkers == {w1, w2}

\* Which worker leads at first makes no difference.
FirstInit  == Init /\ leader = w1
FirstLeads == FirstInit /\ [][Next]_vars /\ Fairness
=============================================================================
