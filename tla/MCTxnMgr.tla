------------------------------ MODULE MCTxnMgr ------------------------------
(* Instances of the transaction manager for TLC. *)
EXTENDS TxnMgr, TLC

Symmetric == Permutations(Atoms) \cup Permutations(Nodes) \cup Permutations(Threads \ {ktxnmgrd})
=============================================================================
