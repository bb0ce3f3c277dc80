-------------------------- MODULE MCProposalReview --------------------------
(* Small instances of ProposalReview for TLC. *)
EXTENDS ProposalReview, TLC

CONSTANTS p1, p2, k1, k2, r1, r2

OneProposal  == {p1}
TwoProposals == {p1, p2}
OneKey       == {k1}
TwoKeys      == {k1, k2}
OneRequest   == {r1}
TwoRequests  == {r1, r2}

\* Proposal ids, upload keys and requests are interchangeable.
Interchangeable == Permutations(Proposals) \cup Permutations(Keys) \cup Permutations(Requests)

=============================================================================
