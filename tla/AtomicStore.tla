----------------------------- MODULE AtomicStore -----------------------------
(***************************************************************************)
(* What the transaction log promises: the contents that the file system    *)
(* has after a crash change only when a transaction commits, and then to   *)
(* all of that transaction at once.                                        *)
(***************************************************************************)
CONSTANT
  Contents      \* what a file system can contain

VARIABLES
  store,        \* the contents a mount would find
  pending       \* the contents after the transaction being committed

NoTx == <<>>

Init == store \in Contents /\ pending = NoTx

Begin ==
  /\ pending = NoTx
  /\ pending' \in Contents
  /\ UNCHANGED store

Commit ==
  /\ pending # NoTx
  /\ store' = pending
  /\ pending' = NoTx

(* A crash before the commit point.                                        *)
Lose ==
  /\ pending # NoTx
  /\ pending' = NoTx
  /\ UNCHANGED store

Next == Begin \/ Commit \/ Lose

Spec == Init /\ [][Next]_<<store, pending>>
=============================================================================
