--------------------------- MODULE MCSkillServing ---------------------------
(* Finite instances of SkillServing. *)
EXTENDS SkillServing

CONSTANTS w1, w2

OneWorker  == {w1}
TwoWorkers == {w1, w2}

\* The highest semver of a run is a prerelease in the runs that ask for one.
NoPrerelease   == {}
LastPrerelease == {MaxSemver}
=============================================================================
