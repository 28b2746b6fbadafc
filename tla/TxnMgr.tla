------------------------------- MODULE TxnMgr -------------------------------
(***************************************************************************)
(* The transaction manager of txnmgr.c: atoms, the handles and nodes that  *)
(* belong to them, capture of nodes, fusion of atoms, sleeping on another  *)
(* atom, closing of handles and the commit of an atom, with the callers    *)
(* that force a commit: sync, fsync, writeout and the ktxnmgrd daemon.     *)
(*                                                                         *)
(* A step is what one thread does under the spin locks it holds (atom,     *)
(* jnode and handle locks), so every place where the code drops its locks  *)
(* and takes them again is a place where the other threads run.  A fusion  *)
(* is two steps with both atoms locked: the nodes of the small atom are    *)
(* moved, then its handles, because the pointers of nodes and of handles   *)
(* are read without the lock of the atom.                                  *)
(*                                                                         *)
(* Atom structures are freed and allocated again: a member of Atoms is an  *)
(* address, and a pointer kept across a sleep can meet a new atom there.   *)
(***************************************************************************)
EXTENDS Naturals, FiniteSets

CONSTANTS Threads, Nodes, Atoms, None,
          ktxnmgrd,  \* the thread that commits old atoms
          Modes,     \* how nodes are captured, out of AllModes
          Calls,     \* what the callers do and what can happen, out of AllCalls
          Preflush,  \* flushes tried before an atom stops fusing (10 in the code)
          MaxOps     \* bound on the operations that a thread begins

AllModes == {"write", "read", "nonblock", "dontfuse"}
AllCalls == {"uncapture", "dont_commit", "sync", "fsync", "writeout",
             "asap", "capture_in_flush", "signal", "write_error", "nomem"}

ASSUME TxnConstants ==
    /\ ktxnmgrd \in Threads
    /\ Modes \subseteq AllModes
    /\ Calls \subseteq AllCalls
    /\ Preflush \in Nat /\ MaxOps \in Nat
    /\ None \notin Atoms \cup Nodes \cup Threads

VARIABLES atom,     \* the txn_atom structures
          jnode,    \* of a node: the atom that captured it, and its flags
          txnh,     \* of a thread's transaction handle: its atom and its flags
          pc,       \* where each thread is
          cs,       \* the arguments and pointers of the call a thread is in
          cd,       \* commit_data of the handle being closed
          wakeup,   \* lock_stack.wakeup: a wake-up that has not been consumed
          readers,  \* threads that hold a node locked for read
          work,     \* nodes modified through the open handle (history)
          ops,      \* how many operations each thread has begun
          owed      \* atoms that a sync must see committed before it returns (history)
vars == <<atom, jnode, txnh, pc, cs, cd, wakeup, readers, work, ops, owed>>

ASTAGE_FREE == 0
ASTAGE_CAPTURE_FUSE == 1
ASTAGE_CAPTURE_WAIT == 2
ASTAGE_PRE_COMMIT == 3
ASTAGE_POST_COMMIT == 4
ASTAGE_DONE == 5
ASTAGE_INVALID == 6

(* mods: the nodes with modifications of this atom that the log does not   *)
(* hold yet (history).  before: the threads whose sync began after the     *)
(* atom's start_time.  force: ATOM_FORCE_COMMIT, or found too old or large. *)
FreeAtom == [stage |-> ASTAGE_FREE, refcount |-> 0, txnh_count |-> 0,
             capture_count |-> 0, nr_waiters |-> 0, nr_flushers |-> 0,
             force |-> FALSE, cancel_fusion |-> FALSE, before |-> {}, mods |-> {}]
NoCall == [op |-> "none", node |-> None, mode |-> "write", back |-> "run",
           f |-> None, h |-> None, after |-> "run"]
NoCommit == [wait |-> FALSE, failed |-> FALSE, preflush |-> 0, flush |-> "none"]
NoHandle == [atom |-> None, flags |-> {}]

Init ==
    /\ atom = [a \in Atoms |-> FreeAtom]
    /\ jnode = [n \in Nodes |-> [atom |-> None, dirty |-> FALSE, missed |-> FALSE]]
    /\ txnh = [t \in Threads |-> NoHandle]
    /\ pc = [t \in Threads |-> "run"]
    /\ cs = [t \in Threads |-> NoCall]
    /\ cd = [t \in Threads |-> NoCommit]
    /\ wakeup = [t \in Threads |-> FALSE]
    /\ readers = [n \in Nodes |-> {}]
    /\ work = [t \in Threads |-> {}]
    /\ ops = [t \in Threads |-> 0]
    /\ owed = [t \in Threads |-> {}]
-----------------------------------------------------------------------------
(* Atoms and their locks *)

\* A thread in the middle of a fusion holds the locks of both atoms.
Locked(a) == \E t \in Threads : pc[t] = "fusing" /\ a \in {cs[t].f, cs[t].h}

Live(a) == atom[a].stage \in ASTAGE_CAPTURE_FUSE .. ASTAGE_POST_COMMIT

atom_isopen(a) == a.stage > 0 /\ a.stage < ASTAGE_PRE_COMMIT

atom_can_be_committed(a) == a.txnh_count = a.nr_waiters + 1

\* The values that atom_should_commit() may have: whoever looks may find that
\* the atom has become too old or too large.
atom_should_commit(a) == {a.force, TRUE}

atom_is_committable(a) ==
    /\ a.stage > 0 /\ a.stage < ASTAGE_PRE_COMMIT
    /\ a.txnh_count = a.nr_waiters
    /\ TRUE \in atom_should_commit(a)

atom_inc(at, a) == [at EXCEPT ![a].refcount = @ + 1]

atom_dec(at, a) == [at EXCEPT ![a].refcount = @ - 1]

atom_dec_and_unlock(at, a) ==
    IF at[a].refcount = 1 THEN [at EXCEPT ![a] = FreeAtom] ELSE atom_dec(at, a)

capture_assign_txnh_nolock(at, a) ==
    [at EXCEPT ![a].refcount = @ + 1, ![a].txnh_count = @ + 1]

Captured(a) == {n \in Nodes : jnode[n].atom = a}

DirtyNodes(a) == {n \in Captured(a) : jnode[n].dirty}

uncapture_nodes(S) ==
    [n \in Nodes |-> IF n \in S THEN [jnode[n] EXCEPT !.atom = None, !.dirty = FALSE]
                                ELSE jnode[n]]
-----------------------------------------------------------------------------
(* Sleeping and waking up.  The waitfor list of an atom holds the threads  *)
(* that sleep on it, its waiting list those of its handles that sleep on   *)
(* another atom.                                                           *)

wait_for_fusion(a) == a.stage # ASTAGE_CAPTURE_WAIT \/ a.txnh_count = 1

\* The threads that reiser4_atom_send_event() wakes, the atoms being at.
send_event(at, a) ==
    {t \in Threads : /\ cs[t].f = a
                     /\ \/ pc[t] \in {"event_sleep", "event_unlink"}
                        \/ /\ pc[t] \in {"fuse_sleep", "fuse_unlink", "fuse_fail"}
                           /\ wait_for_fusion(at[a])}

waiting_list(a) ==
    {t \in Threads : /\ cs[t].h = a
                     /\ pc[t] \in {"fuse_sleep", "fuse_unlink", "fuse_fail"}}

Wake(S) == wakeup' = [t \in Threads |-> wakeup[t] \/ t \in S]

set_stage(at, a, s) == [at EXCEPT ![a].stage = s]

\* A mutant: a change of stage wakes nobody.
stage_changes_silently(at, a, s) == {}

stage_event(at, a, s) == IF at[a].stage = s THEN {} ELSE send_event(set_stage(at, a, s), a)

\* A thread whose handle has no atom begins an operation.
Begin(t) ==
    IF txnh[t].atom = None THEN ops[t] < MaxOps /\ ops' = [ops EXCEPT ![t] = @ + 1]
                           ELSE UNCHANGED ops

Goto(t, l) == pc' = [pc EXCEPT ![t] = l]

\* reiser4_atom_wait_event(): the caller goes on at back.
wait_event(t, at, a, back) ==
    /\ atom' = atom_inc(at, a)
    /\ cs' = [cs EXCEPT ![t].f = a, ![t].back = back]
    /\ Goto(t, "event_sleep")

event_sleep(t) ==
    /\ pc[t] = "event_sleep" /\ wakeup[t]
    /\ wakeup' = [wakeup EXCEPT ![t] = FALSE]
    /\ Goto(t, "event_unlink")
    /\ UNCHANGED <<atom, jnode, txnh, cs, cd, readers, work, owed, ops>>

event_unlink(t) ==
    /\ pc[t] = "event_unlink" /\ ~Locked(cs[t].f)
    /\ atom' = atom_dec_and_unlock(atom, cs[t].f)
    /\ cs' = [cs EXCEPT ![t].f = None, ![t].back = "run"]
    /\ Goto(t, cs[t].back)
    /\ UNCHANGED <<jnode, txnh, cd, wakeup, readers, work, owed, ops>>
-----------------------------------------------------------------------------
(* Capture of a node: reiser4_try_capture() repeats try_capture_block()    *)
(* until the node and the handle are in one atom.                          *)

\* The capture goes on at label l, with references to the atoms f and h.
Capturing(t, n, m, back, l, f, h) ==
    /\ cs' = [cs EXCEPT ![t].node = n, ![t].mode = m, ![t].back = back,
                        ![t].f = f, ![t].h = h]
    /\ Goto(t, l)

\* The capture returns to its caller.
CaptureReturns(t, n, back) ==
    /\ cs' = [cs EXCEPT ![t] = [NoCall EXCEPT !.op = cs[t].op,
                                  !.node = IF back = "sd_captured" THEN n ELSE None]]
    /\ Goto(t, back)

ReadLock(t, n, m) ==
    readers' = IF m = "read" THEN [readers EXCEPT ![n] = @ \cup {t}] ELSE readers

\* The handle and the node are already in one atom.
already_captured(t, n, m, back) ==
    /\ jnode[n].atom # None /\ txnh[t].atom = jnode[n].atom
    /\ ReadLock(t, n, m)
    /\ CaptureReturns(t, n, back)
    /\ UNCHANGED <<atom, jnode>>

\* A read lock of a node that no atom has captured is not captured either.
miss_capture(t, n, m, back) ==
    /\ m = "read" /\ jnode[n].atom = None
    /\ jnode' = [jnode EXCEPT ![n].missed = TRUE]
    /\ ReadLock(t, n, m)
    /\ CaptureReturns(t, n, back)
    /\ UNCHANGED atom

no_atom_yet(t, n, m, back) ==
    /\ m # "read" /\ txnh[t].atom = None /\ jnode[n].atom = None
    /\ Capturing(t, n, m, back, "begin", None, None)
    /\ UNCHANGED <<atom, jnode, readers>>

\* A mutant: the node's atom is used after the jnode is unlocked without a
\* reference.
node_atom_unreferenced(t, n, m, back) ==
    /\ txnh[t].atom = None /\ jnode[n].atom # None
    /\ Capturing(t, n, m, back, "assign_txnh", jnode[n].atom, None)
    /\ UNCHANGED <<atom, jnode, readers>>

node_has_atom(t, n, m, back) ==
    /\ txnh[t].atom = None /\ jnode[n].atom # None
    /\ atom' = atom_inc(atom, jnode[n].atom)
    /\ Capturing(t, n, m, back, "assign_txnh", jnode[n].atom, None)
    /\ UNCHANGED <<jnode, readers>>

MustFuseOwners(n) == jnode[n].missed /\ readers[n] # {}

missed_in_capture(t, n, m, back) ==
    /\ txnh[t].atom # None /\ MustFuseOwners(n)
    /\ m # "read" \/ jnode[n].atom # None
    /\ txnh[t].atom # jnode[n].atom
    /\ jnode' = [jnode EXCEPT ![n].missed = FALSE]
    /\ Capturing(t, n, m, back, "fuse_owners", None, None)
    /\ UNCHANGED <<atom, readers>>

handle_has_atom(t, n, m, back) ==
    /\ m # "read" /\ txnh[t].atom # None /\ jnode[n].atom = None
    /\ ~MustFuseOwners(n)
    /\ atom' = atom_inc(atom, txnh[t].atom)
    /\ jnode' = [jnode EXCEPT ![n].missed = FALSE]
    /\ Capturing(t, n, m, back, "assign_block", None, txnh[t].atom)
    /\ UNCHANGED readers

both_have_atoms(t, n, m, back) ==
    /\ txnh[t].atom # None /\ jnode[n].atom # None /\ txnh[t].atom # jnode[n].atom
    /\ ~MustFuseOwners(n)
    /\ jnode' = [jnode EXCEPT ![n].missed = FALSE]
    /\ \/ /\ m = "dontfuse"
          /\ CaptureReturns(t, n, back)
          /\ UNCHANGED atom
       \/ /\ m # "dontfuse"
          /\ atom' = atom_inc(atom_inc(atom, txnh[t].atom), jnode[n].atom)
          /\ Capturing(t, n, m, back, "init_fusion", jnode[n].atom, txnh[t].atom)
    /\ UNCHANGED readers

try_capture_block(t, n, m, back) ==
    /\ \/ already_captured(t, n, m, back)
       \/ miss_capture(t, n, m, back)
       \/ no_atom_yet(t, n, m, back)
       \/ node_has_atom(t, n, m, back)
       \/ missed_in_capture(t, n, m, back)
       \/ handle_has_atom(t, n, m, back)
       \/ both_have_atoms(t, n, m, back)
    /\ UNCHANGED <<txnh, cd, wakeup, work, owed>>

\* An operation locks a node, or the flush of an atom locks one it needs.
reiser4_try_capture(t) ==
    \/ /\ pc[t] = "run" /\ t # ktxnmgrd
       /\ \E n \in Nodes, m \in Modes : try_capture_block(t, n, m, "run")
       /\ Begin(t)
    \/ /\ pc[t] = "flushing" /\ "capture_in_flush" \in Calls
       /\ \E n \in Nodes : /\ jnode[n].atom # txnh[t].atom
                           /\ try_capture_block(t, n, "write", "flushing")
       /\ UNCHANGED ops

capture_again(t) ==
    /\ pc[t] = "capture"
    /\ try_capture_block(t, cs[t].node, cs[t].mode, cs[t].back)
    /\ UNCHANGED ops

\* The capture is tried again, without the references f and h.
Repeat(t) ==
    /\ cs' = [cs EXCEPT ![t].f = None, ![t].h = None]
    /\ Goto(t, "capture")

\* kmem_cache_alloc() can fail.
atom_begin_and_assign_to_txnh(t) ==
    /\ pc[t] = "begin"
    /\ \/ /\ txnh[t].atom # None
          /\ Repeat(t)
          /\ UNCHANGED <<atom, txnh>>
       \/ /\ txnh[t].atom = None
          /\ \E a \in Atoms :
               /\ atom[a].stage = ASTAGE_FREE
               /\ atom' = capture_assign_txnh_nolock(
                             [atom EXCEPT ![a].refcount = 1,
                                          ![a].stage = ASTAGE_CAPTURE_FUSE], a)
               /\ txnh' = [txnh EXCEPT ![t].atom = a]
          /\ Repeat(t)
       \/ /\ "nomem" \in Calls
          /\ CaptureReturns(t, cs[t].node, cs[t].back)
          /\ UNCHANGED <<atom, txnh>>
    /\ UNCHANGED <<jnode, cd, wakeup, readers, work, owed, ops>>

\* capture_fuse_wait() on the atom cs[t].f, whose reference the caller keeps
\* (and that of cs[t].h, when there is one).  A thread that is asked to give
\* its locks away does not sleep.
capture_fuse_wait(t) ==
    \/ /\ cs[t].mode = "nonblock"
       /\ LET at == atom_dec(atom, cs[t].f)
          IN atom' = IF cs[t].h = None THEN at ELSE atom_dec(at, cs[t].h)
       /\ CaptureReturns(t, cs[t].node, cs[t].back)
    \/ /\ cs[t].mode # "nonblock"
       /\ \/ Goto(t, "fuse_sleep")
          \/ "signal" \in Calls /\ Goto(t, "fuse_fail")
       /\ UNCHANGED <<atom, cs>>

fuse_sleep(t) ==
    /\ pc[t] = "fuse_sleep" /\ wakeup[t]
    /\ wakeup' = [wakeup EXCEPT ![t] = FALSE]
    /\ Goto(t, "fuse_unlink")
    /\ UNCHANGED <<atom, jnode, txnh, cs, cd, readers, work, owed, ops>>

\* The sleeper leaves both lists, to repeat the capture or to fail.
fuse_unlink(t) ==
    /\ pc[t] \in {"fuse_unlink", "fuse_fail"}
    /\ ~Locked(cs[t].f) /\ (cs[t].h = None \/ ~Locked(cs[t].h))
    /\ LET at == atom_dec_and_unlock(atom, cs[t].f)
       IN atom' = IF cs[t].h = None THEN at ELSE atom_dec_and_unlock(at, cs[t].h)
    /\ IF pc[t] = "fuse_fail" THEN CaptureReturns(t, cs[t].node, cs[t].back) ELSE Repeat(t)
    /\ UNCHANGED <<jnode, txnh, cd, wakeup, readers, work, owed, ops>>

\* The node's atom cannot take a handle: it commits, or is about to.
Closed(a) ==
    \/ a.stage > ASTAGE_CAPTURE_WAIT
    \/ a.stage = ASTAGE_CAPTURE_WAIT /\ a.txnh_count # 0

capture_assign_txnh(t) ==
    /\ pc[t] = "assign_txnh" /\ ~Locked(cs[t].f)
    /\ LET a == cs[t].f
           same == jnode[cs[t].node].atom = a /\ txnh[t].atom = None
       IN \/ /\ ~same
             /\ atom' = atom_dec_and_unlock(atom, a)
             /\ Repeat(t)
             /\ UNCHANGED txnh
          \/ /\ same /\ Closed(atom[a])
             /\ capture_fuse_wait(t)
             /\ UNCHANGED txnh
          \/ /\ same /\ ~Closed(atom[a])
             /\ atom' = capture_assign_txnh_nolock(atom_dec(atom, a), a)
             /\ txnh' = [txnh EXCEPT ![t].atom = a]
             /\ Repeat(t)
    /\ UNCHANGED <<jnode, cd, wakeup, readers, work, owed, ops>>

capture_assign_block(t) ==
    /\ pc[t] = "assign_block" /\ ~Locked(cs[t].h)
    /\ LET a == cs[t].h
           n == cs[t].node
           same == txnh[t].atom = a /\ jnode[n].atom = None
       IN \/ /\ ~same
             /\ atom' = atom_dec_and_unlock(atom, a)
             /\ Repeat(t)
             /\ UNCHANGED jnode
          \/ /\ same
             /\ atom' = [atom_dec(atom, a) EXCEPT ![a].capture_count = @ + 1]
             /\ jnode' = [jnode EXCEPT ![n].atom = a]
             /\ CaptureReturns(t, cs[t].node, cs[t].back)
    /\ UNCHANGED <<txnh, cd, wakeup, readers, work, owed, ops>>

(* Fusion of two atoms *)

\* First half of capture_fuse_into(): the nodes of small move to large, and
\* both atoms stay locked.  l is where the thread goes on after the fusion.
fuse_jnode_lists(t, small, large, l) ==
    /\ jnode' = [n \in Nodes |-> IF jnode[n].atom = small
                                 THEN [jnode[n] EXCEPT !.atom = large] ELSE jnode[n]]
    /\ cs' = [cs EXCEPT ![t].h = small, ![t].f = large, ![t].after = l]
    /\ Goto(t, "fusing")

\* A mutant: the fusion forgets the waiters of small.
fused_without_waiters(small, large) ==
    LET s == atom[small]
    IN [atom EXCEPT
          ![large] = [@ EXCEPT !.stage = IF @ < s.stage THEN s.stage ELSE @,
                               !.refcount = @ + s.txnh_count,
                               !.txnh_count = @ + s.txnh_count,
                               !.capture_count = @ + s.capture_count,
                               !.nr_flushers = @ + s.nr_flushers,
                               !.mods = @ \cup s.mods],
          ![small] = [FreeAtom EXCEPT !.stage = ASTAGE_INVALID,
                                      !.refcount = s.refcount - s.txnh_count]]

FusedAtoms(small, large) ==
    LET s == atom[small]
        l == atom[large]
    IN [atom EXCEPT
          ![large].stage = IF @ < s.stage THEN s.stage ELSE @,
          ![large].refcount = @ + s.txnh_count,
          ![large].txnh_count = @ + s.txnh_count,
          ![large].capture_count = @ + s.capture_count,
          ![large].nr_waiters = @ + s.nr_waiters,
          ![large].nr_flushers = @ + s.nr_flushers,
          ![large].force = @ \/ s.force,
          ![large].cancel_fusion = @ \/ s.cancel_fusion,
          ![large].before = @ \cup s.before,
          ![large].mods = @ \cup s.mods,
          ![small] = [FreeAtom EXCEPT !.stage = ASTAGE_INVALID,
                                      !.refcount = s.refcount - s.txnh_count]]

\* The threads that the fusion wakes: those on a list of small, and those on
\* a list of large when large changes its stage.
FusionWakes(at, small, large) ==
    send_event(at, small) \cup waiting_list(small) \cup
    (IF at[large].stage = atom[large].stage THEN {}
     ELSE send_event(at, large) \cup waiting_list(large))

\* Second half: the handles and counts of small move to large, the sleepers
\* are woken up, and small loses the reference it had until commit.
capture_fuse_into(t) ==
    /\ pc[t] = "fusing"
    /\ LET small == cs[t].h
           large == cs[t].f
           at == FusedAtoms(small, large)
       IN /\ atom' = atom_dec_and_unlock(at, small)
          /\ txnh' = [u \in Threads |-> IF txnh[u].atom = small
                                        THEN [txnh[u] EXCEPT !.atom = large] ELSE txnh[u]]
          /\ Wake(FusionWakes(at, small, large))
          /\ owed' = [u \in Threads |-> {IF a = small THEN large ELSE a : a \in owed[u]}]
    /\ cs' = [cs EXCEPT ![t].h = None, ![t].f = None, ![t].after = "run"]
    /\ Goto(t, cs[t].after)
    /\ UNCHANGED <<jnode, cd, readers, work, ops>>

release_two_atoms(at, one, two) == atom_dec_and_unlock(atom_dec_and_unlock(at, two), one)

capture_init_fusion(t) ==
    /\ pc[t] = "init_fusion" /\ ~Locked(cs[t].f) /\ ~Locked(cs[t].h)
    /\ LET mine == cs[t].h
           its == cs[t].f
           same == txnh[t].atom = mine /\ jnode[cs[t].node].atom = its
           fuse == \/ atom[mine].stage >= atom[its].stage
                   \/ /\ atom[its].stage = ASTAGE_CAPTURE_WAIT
                      /\ atom[its].txnh_count = 0
       IN \/ /\ ~same
             /\ atom' = release_two_atoms(atom, mine, its)
             /\ Repeat(t)
             /\ UNCHANGED jnode
          \/ /\ same /\ fuse
             /\ atom' = atom_dec(atom_dec(atom, mine), its)
             /\ fuse_jnode_lists(t, mine, its, "capture")
          \/ /\ same /\ ~fuse
             /\ capture_fuse_wait(t)
             /\ UNCHANGED jnode
    /\ UNCHANGED <<txnh, cd, wakeup, readers, work, owed, ops>>

\* The atoms of all threads that hold the node locked without having captured
\* it are fused with the atom of this thread, one owner after another.
fuse_not_fused_lock_owners(t) ==
    /\ pc[t] = "fuse_owners" /\ ~Locked(txnh[t].atom)
    /\ LET mine == txnh[t].atom
           Strangers == {u \in readers[cs[t].node] \ {t} : txnh[u].atom # mine}
       IN \/ /\ Strangers = {}
             /\ Repeat(t)
             /\ UNCHANGED <<atom, txnh, wakeup>>
          \/ \E u \in Strangers :
               /\ Wake({u})
               /\ \/ /\ txnh[u].atom = None
                     /\ atom' = capture_assign_txnh_nolock(atom, mine)
                     /\ txnh' = [txnh EXCEPT ![u].atom = mine]
                     /\ UNCHANGED <<cs, pc>>
                  \/ /\ txnh[u].atom # None
                     /\ atom' = atom_inc(atom_inc(atom, mine), txnh[u].atom)
                     /\ cs' = [cs EXCEPT ![t].f = txnh[u].atom, ![t].h = mine]
                     /\ Goto(t, "fuse_owner")
                     /\ UNCHANGED txnh
    /\ UNCHANGED <<jnode, cd, readers, work, owed, ops>>

\* A mutant: the stages are not checked again once both atoms are locked.
fuse_owner_unchecked(t) ==
    /\ pc[t] = "fuse_owner" /\ ~Locked(cs[t].f) /\ ~Locked(cs[t].h)
    /\ atom' = atom_dec(atom_dec(atom, cs[t].h), cs[t].f)
    /\ fuse_jnode_lists(t, cs[t].f, cs[t].h, "fuse_owners")
    /\ UNCHANGED <<txnh, cd, wakeup, readers, work, owed, ops>>

fuse_lock_owner(t) ==
    /\ pc[t] = "fuse_owner" /\ ~Locked(cs[t].f) /\ ~Locked(cs[t].h)
    /\ LET mine == cs[t].h
           its == cs[t].f
       IN \/ /\ ~(atom_isopen(atom[mine]) /\ atom_isopen(atom[its]))
             /\ atom' = release_two_atoms(atom, its, mine)
             /\ cs' = [cs EXCEPT ![t].f = None, ![t].h = None]
             /\ Goto(t, "fuse_owners")
             /\ UNCHANGED jnode
          \/ /\ atom_isopen(atom[mine]) /\ atom_isopen(atom[its])
             /\ atom' = atom_dec(atom_dec(atom, mine), its)
             /\ fuse_jnode_lists(t, its, mine, "fuse_owners")
    /\ UNCHANGED <<txnh, cd, wakeup, readers, work, owed, ops>>
-----------------------------------------------------------------------------
(* What an operation does with the nodes it holds *)

\* Only the holder of a write lock, whose atom the node is in, modifies it.
make_dirty(t, n) ==
    /\ pc[t] \in {"run"} \cup (IF "capture_in_flush" \in Calls THEN {"flushing"} ELSE {})
    /\ txnh[t].atom # None /\ jnode[n].atom = txnh[t].atom
    /\ ~Locked(txnh[t].atom)
    /\ readers[n] \subseteq {t}
    /\ ~(jnode[n].dirty /\ n \in work[t])
    /\ jnode' = [jnode EXCEPT ![n].dirty = TRUE]
    /\ atom' = [atom EXCEPT ![txnh[t].atom].mods = @ \cup {n}]
    /\ work' = [work EXCEPT ![t] = @ \cup {n}]
    /\ UNCHANGED <<txnh, pc, cs, cd, wakeup, readers, owed, ops>>

\* A mutant: the count of captured nodes is decremented twice.
uncapture_counts_twice(t, n) ==
    /\ "uncapture" \in Calls /\ pc[t] = "run"
    /\ txnh[t].atom # None /\ jnode[n].atom = txnh[t].atom
    /\ ~Locked(txnh[t].atom)
    /\ readers[n] \subseteq {t}
    /\ jnode' = uncapture_nodes({n})
    /\ atom' = [atom EXCEPT ![txnh[t].atom].capture_count = @ - 2]
    /\ UNCHANGED <<txnh, pc, cs, cd, wakeup, readers, work, owed, ops>>

\* A deleted node leaves its atom; nobody is owed its contents any more.
uncapture(t, n) ==
    /\ "uncapture" \in Calls /\ pc[t] = "run"
    /\ txnh[t].atom # None /\ jnode[n].atom = txnh[t].atom
    /\ ~Locked(txnh[t].atom)
    /\ readers[n] \subseteq {t}
    /\ jnode' = uncapture_nodes({n})
    /\ atom' = [atom EXCEPT ![txnh[t].atom].capture_count = @ - 1,
                            ![txnh[t].atom].mods = @ \ {n}]
    /\ work' = [u \in Threads |-> work[u] \ {n}]
    /\ owed' = [u \in Threads |-> {a \in owed[u] : a = txnh[t].atom => atom[a].mods # {n}}]
    /\ UNCHANGED <<txnh, pc, cs, cd, wakeup, readers, ops>>

longterm_unlock(t, n) ==
    /\ pc[t] = "run" /\ t \in readers[n]
    /\ readers' = [readers EXCEPT ![n] = @ \ {t}]
    /\ UNCHANGED <<atom, jnode, txnh, pc, cs, cd, wakeup, work, owed, ops>>

lock_stack_isclean(t) == \A n \in Nodes : t \notin readers[n]
-----------------------------------------------------------------------------
(* Closing a handle: commit_txnh() calls try_commit_txnh() until the atom  *)
(* is committed or the handle may leave it.                                *)

commit_txnh(t) ==
    /\ cd' = [cd EXCEPT ![t] = [NoCommit EXCEPT !.preflush = Preflush]]
    /\ Goto(t, "try_commit")

\* reiser4_txn_end() of an operation, which may leave the commit to others.
reiser4_txn_end(t) ==
    /\ pc[t] = "run" /\ t # ktxnmgrd /\ txnh[t].atom # None
    /\ lock_stack_isclean(t)
    /\ \/ UNCHANGED txnh
       \/ "dont_commit" \in Calls /\ txnh' = [txnh EXCEPT ![t].flags = {"DONT_COMMIT"}]
    /\ commit_txnh(t)
    /\ UNCHANGED <<atom, jnode, cs, wakeup, readers, work, owed, ops>>

\* Where the caller of commit_txnh() goes on.
AfterCommit(t) ==
    CASE cs[t].op = "sync" -> "force_all"
      [] cs[t].op = "fsync" -> "write_sd"
      [] OTHER -> "run"

ReturnedCall(t, l) ==
    cs' = [cs EXCEPT ![t] = IF l = "run" THEN NoCall ELSE @]

\* The end of commit_txnh(): the handle leaves the atom, the atoms being at.
close_txnh(t, at, woken) ==
    LET a == txnh[t].atom
    IN /\ atom' = atom_dec_and_unlock([at EXCEPT ![a].txnh_count = @ - 1], a)
       /\ txnh' = [txnh EXCEPT ![t] = NoHandle]
       /\ cd' = [cd EXCEPT ![t] = NoCommit]
       /\ work' = [work EXCEPT ![t] = {}]
       /\ Wake(woken)
       /\ ReturnedCall(t, AfterCommit(t))
       /\ Goto(t, AfterCommit(t))

\* try_commit_txnh() of an atom that should commit, the atoms being at.
CommitOrLeave(t, at, woken) ==
    LET a == txnh[t].atom
        dont == "DONT_COMMIT" \in txnh[t].flags
        can == atom_can_be_committed(at[a])
    IN \/ /\ dont
          /\ close_txnh(t, at, woken \cup send_event(at, a))
       \/ /\ ~dont /\ ~can /\ "WAIT_COMMIT" \notin txnh[t].flags
          /\ close_txnh(t, at, woken)
       \/ /\ ~dont /\ ~can /\ "WAIT_COMMIT" \in txnh[t].flags
          /\ wait_event(t, [at EXCEPT ![a].nr_waiters = @ + 1], a, "try_commit")
          /\ cd' = [cd EXCEPT ![t].wait = TRUE]
          /\ Wake(woken)
          /\ UNCHANGED <<txnh, work>>
       \/ /\ ~dont /\ can /\ cd[t].preflush > 0 /\ t # ktxnmgrd
          /\ atom' = at
          /\ cd' = [cd EXCEPT ![t].wait = FALSE, ![t].flush = "preflush"]
          /\ Goto(t, "flush")
          /\ Wake(woken)
          /\ UNCHANGED <<txnh, cs, work>>
       \/ /\ ~dont /\ can /\ (cd[t].preflush = 0 \/ t = ktxnmgrd)
          /\ atom' = set_stage(at, a, ASTAGE_CAPTURE_WAIT)
          /\ cd' = [cd EXCEPT ![t].wait = FALSE, ![t].flush = "commit"]
          /\ Goto(t, "flush")
          /\ Wake(woken \cup stage_event(at, a, ASTAGE_CAPTURE_WAIT))
          /\ UNCHANGED <<txnh, cs, work>>

\* A mutant: the stage is set without the check that it goes up.
asap_goes_back(a) == ASTAGE_CAPTURE_WAIT

\* An atom that must be committed as soon as possible takes no more handles.
AsapStage(a) == IF a.stage < ASTAGE_CAPTURE_WAIT THEN ASTAGE_CAPTURE_WAIT ELSE a.stage

try_commit_txnh(t) ==
    /\ pc[t] = "try_commit" /\ ~Locked(txnh[t].atom)
    /\ LET a == txnh[t].atom
           at == IF cd[t].wait THEN [atom EXCEPT ![a].nr_waiters = @ - 1] ELSE atom
           due == [at EXCEPT ![a].force = TRUE]
           over == at[a].stage = ASTAGE_DONE \/ cd[t].failed
       IN \/ /\ over \/ FALSE \in atom_should_commit(at[a])
             /\ close_txnh(t, at, {})
          \/ /\ ~over /\ TRUE \in atom_should_commit(at[a])
             /\ CommitOrLeave(t, due, {})
          \/ /\ ~over /\ TRUE \in atom_should_commit(at[a]) /\ "asap" \in Calls
             /\ CommitOrLeave(t, set_stage(due, a, AsapStage(at[a])),
                              stage_event(due, a, AsapStage(at[a])))
    /\ UNCHANGED <<jnode, readers, owed, ops>>

\* flush_current_atom() of an atom with dirty nodes writes without locks.
flush_current_atom(t) ==
    /\ pc[t] = "flush" /\ ~Locked(txnh[t].atom)
    /\ DirtyNodes(txnh[t].atom) # {}
    /\ atom' = [atom EXCEPT ![txnh[t].atom].nr_flushers = @ + 1]
    /\ Goto(t, "flushing")
    /\ UNCHANGED <<jnode, txnh, cs, cd, wakeup, readers, work, owed, ops>>

\* What the caller does when the flush returns E_REPEAT or an error.
FlushAgain(t, error) ==
    CASE cd[t].flush = "preflush" ->
           /\ cd' = [cd EXCEPT ![t].preflush = @ - 1, ![t].flush = "none"]
           /\ Goto(t, "try_commit")
      [] cd[t].flush = "commit" /\ ~error ->
           Goto(t, "flush") /\ UNCHANGED cd
      [] cd[t].flush = "commit" /\ error ->
           /\ cd' = [cd EXCEPT ![t].failed = TRUE, ![t].flush = "none"]
           /\ Goto(t, "try_commit")
      [] cd[t].flush = "writeout" ->
           \/ commit_txnh(t)
           \/ /\ ~error   \* nothing could be submitted
              /\ cd' = [cd EXCEPT ![t].flush = "none"]
              /\ Goto(t, "flush_some")

\* Some dirty nodes are written and on the flush queue, or the write failed.
flush_ends(t) ==
    /\ pc[t] = "flushing" /\ ~Locked(txnh[t].atom)
    /\ \/ \E S \in SUBSET DirtyNodes(txnh[t].atom) :
            /\ S # {} \/ DirtyNodes(txnh[t].atom) = {}
            /\ jnode' = [n \in Nodes |-> IF n \in S THEN [jnode[n] EXCEPT !.dirty = FALSE]
                                                    ELSE jnode[n]]
            /\ FlushAgain(t, FALSE)
       \/ "write_error" \in Calls /\ FlushAgain(t, TRUE) /\ UNCHANGED jnode
    /\ atom' = [atom EXCEPT ![txnh[t].atom].nr_flushers = @ - 1]
    /\ Wake(send_event(atom, txnh[t].atom))
    /\ UNCHANGED <<txnh, cs, readers, work, owed, ops>>

\* flush_current_atom() returns 0 with the atom locked: nothing is dirty.
Flushed(t, caller) ==
    /\ pc[t] = "flush" /\ ~Locked(txnh[t].atom)
    /\ DirtyNodes(txnh[t].atom) = {}
    /\ cd[t].flush = caller

preflushed(t) ==
    /\ Flushed(t, "preflush")
    /\ cd' = [cd EXCEPT ![t].preflush = 0, ![t].flush = "none"]
    /\ Goto(t, "try_commit")
    /\ Wake(send_event(atom, txnh[t].atom))
    /\ UNCHANGED <<atom, jnode, txnh, cs, readers, work, owed, ops>>

(* commit_current_atom() once the flush has nothing left to do *)

\* The end of commit_current_atom() and of commit_txnh(), the atoms being at.
atom_done(t, at) ==
    LET a == txnh[t].atom
    IN close_txnh(t, atom_dec(set_stage(at, a, ASTAGE_DONE), a),
                  stage_event(at, a, ASTAGE_DONE) \cup waiting_list(a))

\* A mutant: handles that joined during the flush are not looked for.
commit_unchecked(t) ==
    /\ Flushed(t, "commit")
    /\ LET a == txnh[t].atom
           woken == send_event(atom, a)
       IN \/ atom[a].capture_count = 0 /\ atom_done(t, atom)
          \/ /\ atom[a].capture_count # 0
             /\ atom' = set_stage(atom, a, ASTAGE_PRE_COMMIT)
             /\ Wake(woken \cup stage_event(atom, a, ASTAGE_PRE_COMMIT))
             /\ Goto(t, "complete_writes")
             /\ UNCHANGED <<txnh, cs, cd, work>>
    /\ UNCHANGED <<jnode, readers, owed, ops>>

commit_current_atom(t) ==
    /\ Flushed(t, "commit")
    /\ LET a == txnh[t].atom
           woken == send_event(atom, a)
       IN \/ /\ ~atom_can_be_committed(atom[a])
             /\ cd' = [cd EXCEPT ![t].flush = "none"]
             /\ Goto(t, "try_commit")
             /\ Wake(woken)
             /\ UNCHANGED <<atom, txnh, cs, work>>
          \/ /\ atom_can_be_committed(atom[a]) /\ atom[a].capture_count = 0
             /\ atom_done(t, atom)
          \/ /\ atom_can_be_committed(atom[a]) /\ atom[a].capture_count # 0
             /\ atom' = set_stage(atom, a, ASTAGE_PRE_COMMIT)
             /\ Wake(woken \cup stage_event(atom, a, ASTAGE_PRE_COMMIT))
             /\ Goto(t, "complete_writes")
             /\ UNCHANGED <<txnh, cs, cd, work>>
    /\ UNCHANGED <<jnode, readers, owed, ops>>

\* current_atom_complete_writes() waits for the queued writes of the atom.
complete_writes(t) ==
    /\ pc[t] = "complete_writes"
    /\ \/ Goto(t, "commit_mutex") /\ UNCHANGED cd
       \/ /\ "write_error" \in Calls
          /\ cd' = [cd EXCEPT ![t].failed = TRUE, ![t].flush = "none"]
          /\ Goto(t, "try_commit")
    /\ UNCHANGED <<atom, jnode, txnh, cs, wakeup, readers, work, owed, ops>>

\* A mutant: write_logs() of two atoms run side by side.
no_commit_mutex == FALSE

commit_mutex_held == \E t \in Threads : pc[t] \in {"write_logs", "write_back"}

\* Under the commit mutex reiser4_write_logs() first lets go of the relocated
\* nodes, which are on disk but not yet part of a committed transaction.
release_relocated(t) ==
    /\ pc[t] = "commit_mutex" /\ ~commit_mutex_held
    /\ LET a == txnh[t].atom
       IN \E R \in SUBSET Captured(a) :
            /\ jnode' = uncapture_nodes(R)
            /\ atom' = [atom EXCEPT ![a].capture_count = @ - Cardinality(R)]
            /\ Wake(send_event(atom, a))
    /\ Goto(t, "write_logs")
    /\ UNCHANGED <<txnh, cs, cd, readers, work, owed, ops>>

\* commit_tx(): the journal header makes the transaction durable.  An atom
\* that modified nothing writes no log.
write_logs(t) ==
    /\ pc[t] = "write_logs"
    /\ LET a == txnh[t].atom
       IN IF atom[a].mods = {}
          THEN UNCHANGED <<atom, wakeup, owed>>
          ELSE /\ atom' = [set_stage(atom, a, ASTAGE_POST_COMMIT) EXCEPT ![a].mods = {}]
               /\ Wake(stage_event(atom, a, ASTAGE_POST_COMMIT))
               /\ owed' = [u \in Threads |-> owed[u] \ {a}]
    /\ Goto(t, "write_back")
    /\ UNCHANGED <<jnode, txnh, cs, cd, readers, work, ops>>

\* write_tx_back(), and the nodes that are left leave the atom.
write_tx_back(t) ==
    /\ pc[t] = "write_back"
    /\ LET a == txnh[t].atom
       IN /\ jnode' = uncapture_nodes(Captured(a))
          /\ atom' = [atom EXCEPT ![a].capture_count = @ - Cardinality(Captured(a))]
    /\ Goto(t, "committed")
    /\ UNCHANGED <<txnh, cs, cd, wakeup, readers, work, owed, ops>>

committed(t) ==
    /\ pc[t] = "committed"
    /\ atom_done(t, atom)
    /\ UNCHANGED <<jnode, readers, owed, ops>>
-----------------------------------------------------------------------------
(* Callers that force commits *)

\* force_commit_atom() of an atom that t joins for it, the atoms being at.
join_and_commit(t, a, flags) ==
    /\ atom' = [capture_assign_txnh_nolock(atom, a) EXCEPT ![a].force = TRUE]
    /\ txnh' = [txnh EXCEPT ![t] = [atom |-> a, flags |-> flags]]
    /\ commit_txnh(t)

\* sync: txnmgr_force_commit_all() closes the handle and then commits every
\* atom that existed when it was called.
sync(t) ==
    /\ Begin(t)
    /\ "sync" \in Calls /\ pc[t] = "run" /\ t # ktxnmgrd /\ lock_stack_isclean(t)
    /\ atom' = [a \in Atoms |-> IF Live(a) THEN [atom[a] EXCEPT !.before = @ \cup {t}]
                                           ELSE atom[a]]
    /\ owed' = [owed EXCEPT ![t] = {a \in Atoms : atom[a].mods # {}}]
    /\ cs' = [cs EXCEPT ![t].op = "sync"]
    /\ IF txnh[t].atom = None THEN Goto(t, "force_all") /\ UNCHANGED cd
                              ELSE commit_txnh(t)
    /\ UNCHANGED <<jnode, txnh, wakeup, readers, work>>

\* A mutant: sync passes over the atoms that somebody else commits.
force_commit_open_atoms(t) ==
    /\ pc[t] = "force_all"
    /\ \/ \E a \in Atoms :
            /\ atom_isopen(atom[a]) /\ t \in atom[a].before /\ ~Locked(a)
            /\ join_and_commit(t, a, {"WAIT_COMMIT"})
            /\ UNCHANGED cs
       \/ /\ \A a \in Atoms : ~(atom_isopen(atom[a]) /\ t \in atom[a].before)
          /\ atom' = [a \in Atoms |-> [atom[a] EXCEPT !.before = @ \ {t}]]
          /\ cs' = [cs EXCEPT ![t] = NoCall]
          /\ Goto(t, "run")
          /\ UNCHANGED <<txnh, cd>>
    /\ UNCHANGED <<jnode, wakeup, readers, work, owed, ops>>

txnmgr_force_commit_all(t) ==
    /\ pc[t] = "force_all"
    /\ \/ \E a \in Atoms :
            /\ Live(a) /\ t \in atom[a].before /\ ~Locked(a)
            /\ \/ /\ atom_isopen(atom[a])
                  /\ join_and_commit(t, a, {"WAIT_COMMIT"})
                  /\ UNCHANGED cs
               \/ /\ ~atom_isopen(atom[a])
                  /\ wait_event(t, atom, a, "force_all")
                  /\ UNCHANGED <<txnh, cd>>
       \/ /\ \A a \in Atoms : ~(Live(a) /\ t \in atom[a].before)
          /\ atom' = [a \in Atoms |-> [atom[a] EXCEPT !.before = @ \ {t}]]
          /\ cs' = [cs EXCEPT ![t] = NoCall]
          /\ Goto(t, "run")
          /\ UNCHANGED <<txnh, cd>>
    /\ UNCHANGED <<jnode, wakeup, readers, work, owed, ops>>

\* reiser4_sync_file_common().  When the file has pages dirtied through mmap,
\* writepages commits the atom of each page n first.  Otherwise only the atom of
\* the stat data, in the node n, is committed, and with it all that was modified
\* together with the stat data.
fsync(t, n) ==
    /\ Begin(t)
    /\ "fsync" \in Calls /\ pc[t] = "run" /\ t # ktxnmgrd
    /\ txnh[t].atom = None /\ lock_stack_isclean(t)
    /\ owed' = [owed EXCEPT ![t] = {a \in Atoms : n \in atom[a].mods}]
    /\ \/ cs' = [cs EXCEPT ![t].op = "fsync", ![t].node = n] /\ Goto(t, "sync_page")
       \/ cs' = [cs EXCEPT ![t].op = "fsync_sd", ![t].node = n] /\ Goto(t, "write_sd")
    /\ UNCHANGED <<atom, jnode, txnh, cd, wakeup, readers, work>>

reiser4_sync_page(t) ==
    /\ pc[t] = "sync_page"
    /\ LET a == jnode[cs[t].node].atom
           return == /\ Goto(t, AfterCommit(t))
                     /\ ReturnedCall(t, AfterCommit(t))
                     /\ UNCHANGED <<atom, txnh, cd>>
       IN \/ a = None /\ return
          \/ /\ a # None /\ ~Locked(a)
             /\ \/ /\ atom_isopen(atom[a])
                   /\ join_and_commit(t, a, {"WAIT_COMMIT"})
                   /\ UNCHANGED cs
                \/ /\ atom[a].stage = ASTAGE_PRE_COMMIT
                   /\ wait_event(t, atom, a, "sync_page")
                   /\ UNCHANGED <<txnh, cd>>
                \/ /\ atom[a].stage >= ASTAGE_POST_COMMIT
                   /\ return
    /\ UNCHANGED <<jnode, wakeup, readers, work, owed, ops>>

\* The stat data of the file is updated.
write_sd(t) ==
    /\ pc[t] = "write_sd"
    /\ \E n \in IF cs[t].op = "fsync_sd" THEN {cs[t].node} ELSE Nodes :
         try_capture_block(t, n, "write", "sd_captured")
    /\ UNCHANGED ops

\* The atom is committed, whether or not the update has worked.
sync_file_common(t) ==
    /\ pc[t] = "sd_captured"
    /\ LET a == txnh[t].atom
           S == IF jnode[cs[t].node].atom = a THEN {cs[t].node} ELSE {}
       IN /\ a # None /\ ~Locked(a)
          /\ \A n \in S : readers[n] = {}
          /\ jnode' = [n \in Nodes |-> IF n \in S THEN [jnode[n] EXCEPT !.dirty = TRUE] ELSE jnode[n]]
          /\ atom' = [atom EXCEPT ![a].mods = @ \cup S, ![a].force = TRUE]
          /\ work' = [work EXCEPT ![t] = S]
    /\ txnh' = [txnh EXCEPT ![t].flags = {"WAIT_COMMIT"}]
    /\ cs' = [cs EXCEPT ![t] = NoCall]
    /\ commit_txnh(t)
    /\ UNCHANGED <<wakeup, readers, owed, ops>>

\* reiser4_writeout(): flush_some_atom() flushes the atom of the handle, or one
\* that nobody flushes, and otherwise waits for the atoms there are.
writeout(t) ==
    /\ Begin(t)
    /\ "writeout" \in Calls /\ pc[t] = "run" /\ t # ktxnmgrd /\ lock_stack_isclean(t)
    /\ Goto(t, "flush_some")
    /\ UNCHANGED <<atom, jnode, txnh, cs, cd, wakeup, readers, work, owed>>

Flushable(a) == atom_isopen(atom[a]) /\ atom[a].nr_flushers = 0

flush_some_atom(t) ==
    /\ pc[t] = "flush_some"
    /\ \/ /\ txnh[t].atom # None
          /\ cd' = [cd EXCEPT ![t].flush = "writeout"]
          /\ Goto(t, "flush")
          /\ UNCHANGED <<atom, txnh, cs>>
       \/ /\ txnh[t].atom = None
          /\ \E a \in Atoms :
               /\ Flushable(a) /\ ~Locked(a)
               /\ atom' = capture_assign_txnh_nolock(atom, a)
               /\ txnh' = [txnh EXCEPT ![t].atom = a]
          /\ cd' = [cd EXCEPT ![t].flush = "writeout"]
          /\ Goto(t, "flush")
          /\ UNCHANGED cs
       \/ /\ txnh[t].atom = None /\ \A a \in Atoms : ~Flushable(a)
          /\ \/ /\ \E a \in Atoms : Live(a) /\ ~Locked(a) /\ wait_event(t, atom, a, "flush_some")
                /\ UNCHANGED <<txnh, cd>>
             \/ /\ \A a \in Atoms : ~Live(a)
                /\ Goto(t, "run")
                /\ UNCHANGED <<atom, txnh, cs, cd>>
    /\ UNCHANGED <<jnode, wakeup, readers, work, owed, ops>>

\* Nothing is left to flush.  A small atom is fused with another one if the
\* lock of one can be had; else the atom is forced to commit.
writeout_flushed(t) ==
    /\ Flushed(t, "writeout")
    /\ Wake(send_event(atom, txnh[t].atom))
    /\ LET a == txnh[t].atom
       IN \/ /\ ~atom[a].cancel_fusion
             /\ \E b \in Atoms \ {a} :
                  /\ atom_isopen(atom[b]) /\ ~Locked(b)
                  /\ fuse_jnode_lists(t, b, a, "flush_some")
             /\ cd' = [cd EXCEPT ![t].flush = "none"]
             /\ UNCHANGED <<atom, txnh>>
          \/ /\ \E c \in {atom[a].cancel_fusion, TRUE} :   \* TRUE if the atom is small
                  atom' = [atom EXCEPT ![a].force = TRUE, ![a].cancel_fusion = c]
             /\ \E flags \in {{}, {"WAIT_COMMIT"}} : txnh' = [txnh EXCEPT ![t].flags = flags]
             /\ commit_txnh(t)
             /\ UNCHANGED <<jnode, cs>>
    /\ UNCHANGED <<readers, work, owed, ops>>

\* ktxnmgrd joins an atom that only waiters are left in, to commit it.
commit_some_atoms(t) ==
    /\ t = ktxnmgrd /\ pc[t] = "run"
    /\ \E a \in Atoms : /\ atom_is_committable(atom[a]) /\ ~Locked(a)
                        /\ join_and_commit(t, a, {})
    /\ UNCHANGED <<jnode, cs, wakeup, readers, work, owed, ops>>
-----------------------------------------------------------------------------
\* What a thread does inside a call of the transaction manager.
Call(t) ==
    \/ capture_again(t) \/ atom_begin_and_assign_to_txnh(t) \/ capture_assign_txnh(t)
    \/ capture_assign_block(t) \/ capture_init_fusion(t) \/ capture_fuse_into(t)
    \/ fuse_sleep(t) \/ fuse_unlink(t) \/ fuse_not_fused_lock_owners(t) \/ fuse_lock_owner(t)
    \/ event_sleep(t) \/ event_unlink(t) \/ try_commit_txnh(t)
    \/ flush_current_atom(t) \/ flush_ends(t) \/ preflushed(t) \/ commit_current_atom(t)
    \/ complete_writes(t) \/ release_relocated(t) \/ write_logs(t) \/ write_tx_back(t)
    \/ committed(t) \/ txnmgr_force_commit_all(t) \/ reiser4_sync_page(t)
    \/ write_sd(t) \/ sync_file_common(t) \/ flush_some_atom(t) \/ writeout_flushed(t)

\* What a thread may choose to do.
Caller(t) ==
    \/ reiser4_try_capture(t) \/ reiser4_txn_end(t) \/ commit_some_atoms(t)
    \/ sync(t) \/ writeout(t)
    \/ \E n \in Nodes : make_dirty(t, n) \/ uncapture(t, n) \/ longterm_unlock(t, n) \/ fsync(t, n)

Next == \E t \in Threads : Call(t) \/ Caller(t)

Spec == Init /\ [][Next]_vars
-----------------------------------------------------------------------------
(* Properties *)

Labels == {"run", "capture", "begin", "assign_txnh", "assign_block", "init_fusion",
           "fusing", "fuse_sleep", "fuse_unlink", "fuse_fail", "fuse_owners", "fuse_owner",
           "event_sleep", "event_unlink", "try_commit", "flush", "flushing",
           "complete_writes", "commit_mutex", "write_logs", "write_back", "committed",
           "force_all", "sync_page", "write_sd", "sd_captured", "flush_some"}
AtomRecords ==
    [stage : 0 .. 6, refcount : Nat, txnh_count : Nat, capture_count : Nat,
     nr_waiters : Nat, nr_flushers : Nat, force : BOOLEAN, cancel_fusion : BOOLEAN,
     before : SUBSET Threads, mods : SUBSET Nodes]

\* The state is well formed; no counter of an atom goes below zero.
TypeOK ==
    /\ atom \in [Atoms -> AtomRecords]
    /\ jnode \in [Nodes -> [atom : Atoms \cup {None}, dirty : BOOLEAN, missed : BOOLEAN]]
    /\ txnh \in [Threads -> [atom : Atoms \cup {None},
                             flags : SUBSET {"WAIT_COMMIT", "DONT_COMMIT"}]]
    /\ pc \in [Threads -> Labels]
    /\ wakeup \in [Threads -> BOOLEAN]
    /\ readers \in [Nodes -> SUBSET Threads]

Handles(a) == {t \in Threads : txnh[t].atom = a}

\* The threads that keep a pointer to the atom, with a reference, across a sleep
\* or while they wait for locks.
Pointers(a) == {t \in Threads : pc[t] # "fusing" /\ a \in {cs[t].f, cs[t].h}}

InFlush(t) == pc[t] = "flushing" \/ (cs[t].back = "flushing" /\ pc[t] # "run")

\* The counters by which threads decide whether an atom may commit, be joined,
\* be flushed or be freed are those of its lists, through joins, waits and
\* fusions.  The reference count is one until the atom is committed or fused
\* away, one per open handle and one per pointer that a thread keeps across a
\* sleep or a lock; so the structure is freed when, and only when, nothing points
\* to it any more: no node, no handle and no thread that looks at it again.
CountersExact ==
    \A a \in Atoms :
      IF atom[a].stage = ASTAGE_FREE
      THEN Captured(a) = {} /\ Handles(a) = {} /\ Pointers(a) = {}
      ELSE /\ atom[a].refcount = (IF Live(a) THEN 1 ELSE 0) + Cardinality(Handles(a))
                                  + Cardinality(Pointers(a))
           /\ atom[a].txnh_count = Cardinality(Handles(a))
           /\ atom[a].nr_waiters = Cardinality({t \in Handles(a) : cd[t].wait})
           /\ atom[a].nr_flushers = Cardinality({t \in Handles(a) : InFlush(t)})
           /\ Locked(a) \/ atom[a].capture_count = Cardinality(Captured(a))

\* Only atoms that are open are fused (asserts jmacd-201, jmacd-202), however
\* long the fusing thread waited for the two locks.
FusesOpenAtoms ==
    \A t \in Threads : pc[t] = "fusing" =>
      /\ cs[t].f # cs[t].h
      /\ atom_isopen(atom[cs[t].f]) /\ atom_isopen(atom[cs[t].h])

\* A commit that has begun has exactly one handle that does not wait for it
\* (the comment in try_commit_txnh), so nobody changes the atom any more, and
\* none of its nodes is dirty (assert nikita-3352).
CommitIsAlone ==
    \A a \in Atoms : atom[a].stage \in {ASTAGE_PRE_COMMIT, ASTAGE_POST_COMMIT} =>
      /\ atom[a].txnh_count = atom[a].nr_waiters + 1
      /\ DirtyNodes(a) = {}

\* All that an open handle has modified is in one atom, which is not committed
\* before the handle is closed: an operation is never committed in part.
OperationsAreWhole ==
    \A t \in Threads : pc[t] = "run" /\ work[t] # {} =>
      txnh[t].atom # None /\ work[t] \subseteq atom[txnh[t].atom].mods

\* When a sync has returned, every atom is committed that had modified something
\* when it was called; when an fsync has, every atom that had modified the page
\* or the stat data.  An atom that has let go of a relocated page but has not
\* written its log yet is waited for as well.
SyncedIsCommitted == \A t \in Threads : pc[t] = "run" => owed[t] = {}

\* The stage of an atom only goes up (assert nikita-3537) until its structure
\* is freed, and then what it had modified is committed or in another atom.
StagesGoUp ==
    [][\A a \in Atoms :
         \/ atom'[a].stage >= atom[a].stage
         \/ /\ atom'[a].stage = ASTAGE_FREE
            /\ \A n \in atom[a].mods : \E b \in Atoms \ {a} : n \in atom'[b].mods]_atom

\* Modifications of one node are committed in the order they were made, though
\* a relocated node can be captured again before its first atom is durable:
\* when an atom commits a node, only a later atom still has it modified.
CommitsInOrder ==
    [][\A a, b \in Atoms :
         /\ a # b
         /\ atom[a].stage = ASTAGE_PRE_COMMIT /\ atom'[a].stage = ASTAGE_POST_COMMIT
         => \A n \in atom[a].mods \cap atom[b].mods : jnode[n].atom \notin {a, None}]_atom

\* Nobody is left asleep: when every thread either has no handle and no lock, or
\* sleeps on an atom with no wake-up on its way, and ktxnmgrd has nothing to
\* commit, then all have returned.  The events that commit_txnh(), the commit,
\* the flush and the fusion send are enough.
NobodyForgotten ==
    LET Idle(t) == pc[t] = "run" /\ txnh[t].atom = None /\ lock_stack_isclean(t)
        Asleep(t) == pc[t] \in {"event_sleep", "fuse_sleep"} /\ ~wakeup[t]
    IN (/\ \A t \in Threads : Idle(t) \/ Asleep(t)
        /\ \A a \in Atoms : ~(atom_is_committable(atom[a]) /\ atom[a].force))
       => \A t \in Threads : Idle(t)
=============================================================================
