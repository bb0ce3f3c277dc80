-------------------------- MODULE MCPointerMirror --------------------------
(* Small instances of PointerMirror for TLC. *)
EXTENDS PointerMirror, TLC

CONSTANTS w1, w2, p1, gitRef, hubRef

OneWorker   == {w1}
TwoWorkers  == {w1, w2}
OneProposal == {p1}
GitRef      == {gitRef}
GitAndHub   == {gitRef, hubRef}
HubOnly     == {hubRef}

\* Which replica leads at first makes no difference.
FirstInit  == Init /\ holder = w1
FirstLeads == FirstInit /\ [][Next]_vars /\ Fairness
=============================================================================
