--------------------------- MODULE PinnedRelease ---------------------------
(***************************************************************************)
(* What the queue between an accept and the mirror promises about a        *)
(* version of a pointer skill: the accept fixes once and for all which     *)
(* contents may be published under the semver, and at most one of them is, *)
(* for good.                                                               *)
(***************************************************************************)
CONSTANTS Semvers, Contents, Nothing

VARIABLES
    allowed,    \* the contents accepted for a semver; {} before the accept
    released    \* the content published under it, or Nothing

vars == <<allowed, released>>

Init ==
    /\ allowed = [s \in Semvers |-> {}]
    /\ released = [s \in Semvers |-> Nothing]

Accepts(s, C) ==
    /\ allowed[s] = {}
    /\ allowed' = [allowed EXCEPT ![s] = C]
    /\ UNCHANGED released

Releases(s) ==
    /\ released[s] = Nothing
    /\ \E c \in allowed[s] : released' = [released EXCEPT ![s] = c]
    /\ UNCHANGED allowed

Next == \E s \in Semvers :
    \/ \E C \in SUBSET Contents : Accepts(s, C)
    \/ Releases(s)

Spec == Init /\ [][Next]_vars
=============================================================================
