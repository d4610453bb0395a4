----------------------------- MODULE MCBuckets -----------------------------
(* Two buckets and two threads of the service.                             *)
EXTENDS Buckets, TLC

Symmetric == Permutations(Workers) \cup Permutations(Rows) \cup Permutations(Buckets)

\* Transfers between two buckets among deletions and transactions.
TransferKinds == {"copy", "move", "delete", "mutate"}
=============================================================================
