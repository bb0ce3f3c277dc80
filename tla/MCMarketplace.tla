---------------------------- MODULE MCMarketplace ----------------------------
(* Instances of Marketplace for TLC. *)
EXTENDS Marketplace, TLC

CONSTANTS skA, skB, plA, plB, s1, s2, f1, f2

OneSkill   == {skA}
TwoSkills  == {skA, skB}
OnePlugin  == {plA}
TwoPlugins == {plA, plB}
OneSweep   == {s1}
TwoSweeps  == {s1, s2}
OneFetch   == {f1}
TwoFetches == {f1, f2}
=============================================================================
