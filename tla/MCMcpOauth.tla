----------------------------- MODULE MCMcpOauth -----------------------------
(* Instances of McpOauth for TLC. *)
EXTENDS McpOauth, TLC

CONSTANTS r1, r2

TwoRequests == {r1, r2}
Interchangeable == Permutations(Requests)
=============================================================================
