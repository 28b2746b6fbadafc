------------------------------ MODULE MCJournal ------------------------------
(* Instances of Journal for TLC.                                           *)
EXTENDS Journal

(* Nothing is changed after a crash: the mount is all that follows.        *)
RecoverNext == (crashes = 0 /\ (Update \/ Commit)) \/ Mount \/ crash
RecoverSpec == Init /\ [][RecoverNext]_vars
FairRecoverSpec == RecoverSpec /\ Fairness
=============================================================================
