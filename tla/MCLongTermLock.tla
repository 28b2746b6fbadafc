---------------------------- MODULE MCLongTermLock ----------------------------
(* Instances of LongTermLock for TLC.                                      *)
EXTENDS LongTermLock, TLC

ThreadSymmetry == Permutations(Threads) \cup Permutations(Slots)

(* Threads that only take write locks, each node once, and wait for them.  *)
WriterNext ==
  \E t \in Threads :
    \/ \E s \in Slots, n \in Nodes, hipri \in BOOLEAN :
         /\ \A held \in Slots : lh[t][held].node # n
         /\ longterm_lock_znode(t, s, n, ZNODE_WRITE_LOCK, hipri, FALSE)
    \/ Continue(t)
    \/ Unlock(t)
WriterSpec == Init /\ [][WriterNext]_vars

(* One thread takes high priority write locks, the others read locks.      *)
Writer == CHOOSE t \in Threads : TRUE
MixedNext ==
  \/ \E s \in Slots, n \in Nodes :
       longterm_lock_znode(Writer, s, n, ZNODE_WRITE_LOCK, TRUE, FALSE)
  \/ \E t \in Threads \ {Writer}, s \in Slots, n \in Nodes, hipri \in BOOLEAN :
       longterm_lock_znode(t, s, n, ZNODE_READ_LOCK, hipri, FALSE)
  \/ \E t \in Threads : Continue(t) \/ Unlock(t)
FairMixedSpec == Init /\ [][MixedNext]_vars /\ Fairness
=============================================================================
