---------------------------- MODULE MCAuditChain ----------------------------
(* Small instances of AuditChain for TLC. *)
EXTENDS AuditChain, TLC

CONSTANTS t1, t2

TwoTxns == {t1, t2}

\* Transactions are interchangeable.
Interchangeable == Permutations(Txns)

=============================================================================
