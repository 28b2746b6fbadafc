------------------------ MODULE SpaceCommittedProofs ------------------------
(***************************************************************************)
(* The blocks of the committed tree of SpaceAccounting are never free.     *)
(* The proof rests on the one owner of every block: a commit cannot free   *)
(* the block of a node, nor one that a thread has in its hands.            *)
(***************************************************************************)
EXTENDS SpaceOwnershipProofs

(* While an atom commits, its committer is the only thread in it; its      *)
(* nodes are overwritten; what it is going to free has left the COMMIT     *)
(* bitmap.                                                                 *)
CommitterInv ==
  \A t \in Threads : job[t].pc \in Commits =>
    /\ commit_mutex = t
    /\ \A u \in Threads \ {t} : trans[u] # trans[t]
    /\ \A n \in Nodes : node[n].atom = trans[t] => node[n].state = "ovrwr"
    /\ atom[trans[t]].delete_set \cap commit = {}

HandsOff == \A t \in Threads : job[t].blk \cap commit = {}

KeptInv == CommittedBlocksAreKept /\ CommitterInv /\ HandsOff

(* A thread that joins an atom, or adds to its delete set, does not do so  *)
(* behind the back of the atom's committer.                                *)
LEMMA NotTheCommitters ==
  ASSUME TypeInv, CommitterInv, NEW t \in Threads, job[t].pc \in Commits
  PROVE  /\ \A a \in Atoms : ~Committing(a) => a # trans[t]
         /\ commit_mutex # None /\ trans[t] \in Atoms /\ trans[t] # None
  BY NoneAssumption DEF TypeInv, AtWork, CommitterInv, Committing

(* Steps that leave the bitmaps and the committers alone.                  *)
LEMMA CommittersStay ==
  ASSUME TypeInv, CommitterInv, commit' = commit, commit_mutex' = commit_mutex,
         NEW t \in Threads,
         \A u \in Threads \ {t} : job'[u] = job[u] /\ trans'[u] = trans[u],
         job'[t].pc \notin Commits,
         \A u \in Threads \ {t} : job[u].pc \in Commits =>
           /\ trans'[t] # trans[u]
           /\ \A n \in Nodes : node'[n].atom = trans[u] =>
                node[n].atom = trans[u] /\ node'[n].state = node[n].state
           /\ atom'[trans[u]].delete_set = atom[trans[u]].delete_set
  PROVE  CommitterInv'
  <1> SUFFICES ASSUME NEW u \in Threads, job'[u].pc \in Commits
               PROVE  /\ commit_mutex' = u
                      /\ \A v \in Threads \ {u} : trans'[v] # trans'[u]
                      /\ \A n \in Nodes : node'[n].atom = trans'[u] => node'[n].state = "ovrwr"
                      /\ atom'[trans'[u]].delete_set \cap commit' = {}
    BY DEF CommitterInv
  <1>1. u # t /\ job[u].pc \in Commits /\ trans'[u] = trans[u]
    OBVIOUS
  <1> QED
    BY <1>1 DEF CommitterInv

LEMMA GrabKeptInv ==
  ASSUME TypeInv, KeptInv, NEW t \in Threads, Grab(t)
  PROVE  KeptInv'
  <1> USE DEF TypeInv
  <1>1. /\ working' = working /\ commit' = commit /\ node' = node /\ atom' = atom
        /\ commit_mutex' = commit_mutex
    BY DEF Grab, reiser4_grab_space, grab_reserved_nested, retry_grab, take_delete_mutex,
           reiser4_release_reserved, all_grabbed2free, grabbed2free_mark,
           grabbed2cluster_reserved, cluster_reserved2grabbed
  <1>2. job[t] \in Jobs /\ NoJob.pc = "idle" /\ NoJob.blk = {}
    BY DEF TypeOK, NoJob
  <1>3. /\ \A u \in Threads \ {t} : job'[u] = job[u] /\ trans'[u] = trans[u]
        /\ trans'[t] \in {trans[t], None}
        /\ job'[t].pc \in {"idle", "retry", "mutex"}
        /\ job'[t].blk = {} \/ job'[t].blk = job[t].blk
    <2>1. ASSUME NEW c \in 1..MaxGrab, NEW for_delete \in BOOLEAN,
                 reiser4_grab_space(t, c, for_delete)
          PROVE  <1>3
      <3>1. /\ [NoJob EXCEPT !.pc = "retry", !.count = c, !.reserved = for_delete].pc = "retry"
            /\ [NoJob EXCEPT !.pc = "retry", !.count = c, !.reserved = for_delete].blk = {}
        BY DEF NoJob
      <3> QED
        BY <2>1, <3>1 DEF reiser4_grab_space, Goto, Idle, TypeOK
    <2>2. CASE retry_grab(t) \/ take_delete_mutex(t)
      <3>1. PICK j : /\ Goto(t, j) /\ j.pc \in {"idle", "retry", "mutex"}
                     /\ j.blk = {} \/ j.blk = job[t].blk
        <4>1. \A pc \in {"retry", "mutex"} : /\ [job[t] EXCEPT !.pc = pc].pc = pc
                                             /\ [job[t] EXCEPT !.pc = pc].blk = job[t].blk
          BY <1>2 DEF Jobs
        <4>2. \/ Goto(t, NoJob) \/ Goto(t, [job[t] EXCEPT !.pc = "mutex"])
              \/ Goto(t, [job[t] EXCEPT !.pc = "retry"])
          BY <2>2 DEF retry_grab, take_delete_mutex
        <4> QED
          BY <1>2, <4>1, <4>2
      <3>2. trans' = trans
        BY <2>2 DEF retry_grab, take_delete_mutex
      <3> QED
        BY <3>1, <3>2 DEF Goto, TypeOK
    <2>3. CASE \/ \E c \in 1..MaxGrab : grab_reserved_nested(t, c)
               \/ reiser4_release_reserved(t) \/ all_grabbed2free(t)
               \/ \E mark \in 0..MaxGrab : grabbed2free_mark(t, mark)
               \/ grabbed2cluster_reserved(t) \/ cluster_reserved2grabbed(t)
      BY <2>3 DEF grab_reserved_nested, reiser4_release_reserved, all_grabbed2free,
                  grabbed2free_mark, grabbed2cluster_reserved, cluster_reserved2grabbed,
                  Idle, TypeOK
    <2> QED
      BY <2>1, <2>2, <2>3 DEF Grab
  <1>4. CommitterInv'
    <2>1. job'[t].pc \notin Commits
      BY <1>3 DEF Commits
    <2>2. \A u \in Threads \ {t} : job[u].pc \in Commits => trans'[t] # trans[u]
      BY <1>3, NotTheCommitters DEF KeptInv, CommitterInv
    <2> QED
      BY <1>1, <1>3, <2>1, <2>2, CommittersStay DEF KeptInv
  <1>5. CommittedBlocksAreKept'
    BY <1>1 DEF KeptInv, CommittedBlocksAreKept
  <1>6. HandsOff'
    BY <1>1, <1>3 DEF KeptInv, HandsOff
  <1> QED
    BY <1>4, <1>5, <1>6 DEF KeptInv

LEMMA ChangeKeptInv ==
  ASSUME TypeInv, KeptInv, NEW t \in Threads, Change(t)
  PROVE  KeptInv'
  <1> USE DEF TypeInv
  <1>1. PICK n \in Nodes, a \in Atoms :
          \/ assign_fake_blocknr(t, n, a) \/ do_jnode_make_dirty(t, n, a)
          \/ uncapture_node(t, n, a)
          \/ flush_created(t, n, a) \/ flush_relocated_znode(t, n, a)
          \/ flush_relocated_extent(t, n, a) \/ jnode_make_wander(t, n, a)
    BY DEF Change
  <1>2. /\ Captures(t, n, a)
        /\ working' = working /\ commit' = commit /\ commit_mutex' = commit_mutex
    BY <1>1 DEF assign_fake_blocknr, do_jnode_make_dirty, uncapture_node, flush_created,
                flush_relocated_znode, flush_relocated_extent, jnode_make_wander
  <1>3. /\ node[n] \in NodeRecords /\ job[t].pc = "idle" /\ ~Committing(a)
        /\ trans'[t] = a /\ \A u \in Threads \ {t} : trans'[u] = trans[u]
        /\ node[n].atom \in {None, a}
    BY <1>2 DEF TypeOK, Captures, Idle
  <1>4. \A u \in Threads : job[u].pc \in Commits => a # trans[u] /\ None # trans[u]
    BY <1>3, NotTheCommitters DEF KeptInv
  (* What an action must do to node n, to the delete set of a and to t.     *)
  <1>5. ASSUME \A m \in Nodes \ {n} : node'[m] = node[m],
               node'[n].atom \in {None, a},
               node'[n].state \in {"clean", "dirty", "ovrwr"} =>
                 /\ node[n].state \in {"clean", "dirty", "ovrwr"}
                 /\ node'[n].blk = node[n].blk,
               \A c \in Atoms \ {a} : atom'[c].delete_set = atom[c].delete_set,
               \A u \in Threads \ {t} : job'[u] = job[u],
               job'[t].pc \in {"idle", "alloc"}, job'[t].blk = {} \/ job'[t].blk = job[t].blk
        PROVE  KeptInv'
    <2>1. job'[t].pc \notin Commits
      BY <1>5 DEF Commits
    <2>2. ASSUME NEW u \in Threads \ {t}, job[u].pc \in Commits
          PROVE  /\ trans'[t] # trans[u]
                 /\ \A m \in Nodes : node'[m].atom = trans[u] =>
                      node[m].atom = trans[u] /\ node'[m].state = node[m].state
                 /\ atom'[trans[u]].delete_set = atom[trans[u]].delete_set
      BY <1>3, <1>4, <1>5, <2>2, NotTheCommitters DEF KeptInv
    <2>3. CommitterInv'
      BY <1>2, <1>3, <1>5, <2>1, <2>2, CommittersStay DEF KeptInv
    <2>4. CommittedBlocksAreKept'
      BY <1>2, <1>5 DEF KeptInv, CommittedBlocksAreKept
    <2>5. HandsOff'
      BY <1>2, <1>5 DEF KeptInv, HandsOff
    <2> QED
      BY <2>3, <2>4, <2>5 DEF KeptInv
  <1>6. ASSUME NEW stage \in Counters, Goto(t, Alloc(n, stage))
        PROVE  /\ job'[t].pc = "alloc" /\ job'[t].blk = {}
               /\ \A u \in Threads \ {t} : job'[u] = job[u]
    BY <1>6 DEF Goto, Alloc, NoJob, TypeOK
  <1>7. CASE assign_fake_blocknr(t, n, a)
    <2>1. node'[n].state = "fake" /\ node'[n].atom = a /\ \A m \in Nodes \ {n} : node'[m] = node[m]
      BY <1>7 DEF assign_fake_blocknr, TypeOK, NoNode
    <2>2. atom' = atom /\ job' = job
      BY <1>7 DEF assign_fake_blocknr
    <2> QED
      BY <1>3, <1>5, <2>1, <2>2
  <1>8. CASE do_jnode_make_dirty(t, n, a)
    <2>1. /\ node[n].state = "clean" /\ node'[n].blk = node[n].blk /\ node'[n].atom = a
          /\ \A m \in Nodes \ {n} : node'[m] = node[m]
      BY <1>3, <1>8 DEF do_jnode_make_dirty, TypeOK, NodeRecords
    <2>2. job' = job /\ \A c \in Atoms \ {a} : atom'[c] = atom[c]
      BY <1>8 DEF do_jnode_make_dirty, TypeOK
    <2> QED
      BY <1>3, <1>5, <2>1, <2>2
  <1>9. CASE uncapture_node(t, n, a)
    <2>1. /\ node'[n].state = "none" /\ node'[n].atom = None /\ job' = job
          /\ \A m \in Nodes \ {n} : node'[m] = node[m]
      BY <1>9 DEF uncapture_node, TypeOK, NoNode
    <2>2. \A c \in Atoms \ {a} : atom'[c] = atom[c]
      BY <1>9 DEF uncapture_node, TypeOK
    <2> QED
      BY <1>3, <1>5, <2>1, <2>2
  <1>10. CASE flush_created(t, n, a) \/ flush_relocated_extent(t, n, a)
    <2>1. node' = node /\ atom' = atom
      BY <1>10 DEF flush_created, flush_relocated_extent
    <2>2. \E stage \in Counters : Goto(t, Alloc(n, stage))
      BY <1>10, CountersType DEF flush_created, flush_relocated_extent
    <2> QED
      BY <1>3, <1>5, <1>6, <2>1, <2>2
  <1>11. CASE flush_relocated_znode(t, n, a)
    <2>1. /\ node'[n].blk = node[n].blk /\ node'[n].state = node[n].state
          /\ node'[n].atom = node[n].atom /\ \A m \in Nodes \ {n} : node'[m] = node[m]
      BY <1>3, <1>11 DEF flush_relocated_znode, TypeOK, NodeRecords
    <2>2. \A c \in Atoms \ {a} : atom'[c] = atom[c]
      BY <1>11 DEF flush_relocated_znode, TypeOK
    <2>3. Goto(t, Alloc(n, "grabbed"))
      BY <1>11 DEF flush_relocated_znode
    <2>4. /\ job'[t].pc = "alloc" /\ job'[t].blk = {}
          /\ \A u \in Threads \ {t} : job'[u] = job[u]
      BY <1>6, <2>3, CountersType
    <2> QED
      BY <1>3, <1>5, <2>1, <2>2, <2>4
  <1>12. CASE jnode_make_wander(t, n, a)
    <2>1. /\ node[n].state = "dirty" /\ node'[n].blk = node[n].blk
          /\ node'[n].atom = node[n].atom /\ \A m \in Nodes \ {n} : node'[m] = node[m]
      BY <1>3, <1>12 DEF jnode_make_wander, TypeOK, NodeRecords
    <2>2. atom' = atom /\ job' = job
      BY <1>12 DEF jnode_make_wander
    <2> QED
      BY <1>3, <1>5, <2>1, <2>2
  <1> QED
    BY <1>1, <1>7, <1>8, <1>9, <1>10, <1>11, <1>12

LEMMA PlaceKeptInv ==
  ASSUME TypeInv, OwnInv, KeptInv, NEW t \in Threads, Place(t)
  PROVE  KeptInv'
  <1> USE DEF TypeInv
  <1> DEFINE n == job[t].node
             a == trans[t]
  <1>1. job[t].pc \in Placing
    BY DEF Place, sa_alloc_blocks, alloc_too_far, alloc_blocks_done, squeeze_target_full,
           sa_dealloc_blocks, dealloc_blocks_done, dset_add_fails, At, Placing
  <1>2. n \in Nodes /\ a \in Atoms /\ job[t] \in Jobs /\ node[n] \in NodeRecords
    BY <1>1 DEF AtWork, TypeOK
  <1>3. commit' = commit /\ commit_mutex' = commit_mutex /\ trans' = trans
    BY DEF Place, sa_alloc_blocks, alloc_too_far, alloc_blocks_done, squeeze_target_full,
           sa_dealloc_blocks, dealloc_blocks_done, dset_add_fails
  <1> HIDE DEF n, a
  <1>4. /\ job'[t].pc \in Placing \cup {"idle", "panic"}
        /\ \/ job'[t].blk = {} \/ job'[t].blk = job[t].blk
           \/ \E b \in Blocks \ working : job'[t].blk = {b}
    <2>1. NoJob.pc = "idle" /\ NoJob.blk = {}
      BY DEF NoJob
    <2>2. CASE sa_alloc_blocks(t)
      <3>1. PICK b \in Blocks \ working :
              Goto(t, [job[t] EXCEPT !.pc = "allocated", !.blk = {b}])
        BY <2>2 DEF sa_alloc_blocks
      <3>2. job'[t].pc = "allocated" /\ job'[t].blk = {b}
        BY <1>2, <3>1 DEF Goto, TypeOK, Jobs
      <3> QED
        BY <3>2 DEF Placing
    <2>3. CASE alloc_too_far(t) \/ alloc_blocks_done(t) \/ dealloc_blocks_done(t)
      BY <2>1, <2>3 DEF alloc_too_far, alloc_blocks_done, dealloc_blocks_done, Goto, TypeOK
    <2>4. CASE squeeze_target_full(t) \/ dset_add_fails(t)
      BY <1>2, <2>4 DEF squeeze_target_full, dset_add_fails, Placing, Goto, TypeOK, Jobs
    <2>5. CASE sa_dealloc_blocks(t)
      BY <1>2, <2>5 DEF sa_dealloc_blocks, Placing, Goto, TypeOK, Jobs
    <2> QED
      BY <2>2, <2>3, <2>4, <2>5 DEF Place
  <1>5. \A u \in Threads \ {t} : job'[u] = job[u]
    BY DEF Place, sa_alloc_blocks, alloc_too_far, alloc_blocks_done, squeeze_target_full,
           sa_dealloc_blocks, dealloc_blocks_done, dset_add_fails, Goto, TypeOK
  <1>6. \A u \in Threads \ {t} : job[u].pc \in Commits => a # trans[u] /\ trans[u] \in Atoms
    BY NotTheCommitters DEF KeptInv, CommitterInv, a
  <1>7. /\ \A m \in Nodes \ {n} : node'[m] = node[m]
        /\ \A c \in Atoms \ {a} : atom'[c] = atom[c]
        /\ \/ node'[n].atom = a /\ node'[n].state = "reloc"
           \/ /\ node'[n].atom = node[n].atom /\ node'[n].state = node[n].state
              /\ node'[n].blk = node[n].blk
    <2>1. CASE alloc_too_far(t)
      BY <1>2, <2>1 DEF alloc_too_far, GetReservationBack, TypeOK, NodeRecords, n, a
    <2>2. CASE alloc_blocks_done(t)
      BY <1>2, <2>2 DEF alloc_blocks_done, TypeOK, n, a
    <2>3. CASE squeeze_target_full(t) \/ dealloc_blocks_done(t)
      BY <2>3 DEF squeeze_target_full, dealloc_blocks_done, TypeOK, a
    <2>4. CASE dset_add_fails(t)
      BY <1>2, <2>4 DEF dset_add_fails, TypeOK, NodeRecords, n, a
    <2>5. CASE sa_alloc_blocks(t) \/ sa_dealloc_blocks(t)
      BY <2>5 DEF sa_alloc_blocks, sa_dealloc_blocks
    <2> QED
      BY <2>1, <2>2, <2>3, <2>4, <2>5 DEF Place
  <1>8. CommitterInv'
    <2>1. job'[t].pc \notin Commits
      BY <1>4, <1>5 DEF Commits, Placing
    <2>2. ASSUME NEW u \in Threads \ {t}, job[u].pc \in Commits
          PROVE  /\ trans'[t] # trans[u]
                 /\ \A m \in Nodes : node'[m].atom = trans[u] =>
                      node[m].atom = trans[u] /\ node'[m].state = node[m].state
                 /\ atom'[trans[u]].delete_set = atom[trans[u]].delete_set
      BY <1>3, <1>6, <1>7, <2>2 DEF a
    <2> QED
      BY <1>3, <1>5, <2>1, <2>2, CommittersStay DEF KeptInv
  <1>9. working' = working \/ working' = working \ job[t].blk \/ working \subseteq working'
    BY DEF Place, sa_alloc_blocks, alloc_too_far, alloc_blocks_done, squeeze_target_full,
           sa_dealloc_blocks, dealloc_blocks_done, dset_add_fails
  <1>10. CommittedBlocksAreKept'
    BY <1>3, <1>7, <1>9 DEF KeptInv, CommittedBlocksAreKept, HandsOff
  <1>11. HandsOff'
    BY <1>3, <1>4, <1>5 DEF KeptInv, CommittedBlocksAreKept, HandsOff
  <1> QED
    BY <1>8, <1>10, <1>11 DEF KeptInv

LEMMA OwnersApart ==
  ASSUME OwnInv
  PROVE  /\ \A n \in Nodes : node[n].blk \subseteq working
         /\ \A n \in Nodes, a \in Atoms : node[n].blk \cap atom[a].delete_set = {}
         /\ \A n \in Nodes, t \in Threads : node[n].blk \cap job[t].blk = {}
  BY OwnedIs, OwnersAssumption DEF OwnInv, Divided, Owners

(* The committer updates the COMMIT bitmap.                                *)
LEMMA PreCommitKeptInv ==
  ASSUME TypeInv, OwnInv, KeptInv, NEW t \in Threads, NEW a \in Atoms, pre_commit_hook(t, a)
  PROVE  KeptInv'
  <1> USE DEF TypeInv
  <1> DEFINE R == RelocatedBlocks(a)
             D == atom[a].delete_set
  <1>1. /\ commit' = (commit \cup R) \ D /\ working' = working /\ atom' = atom
        /\ commit_mutex = None /\ commit_mutex' = t
        /\ \A u \in Threads \ {t} : trans[u] # a
        /\ \A n \in Nodes : node[n].atom = a => node[n].state \in {"reloc", "ovrwr"}
    BY DEF pre_commit_hook, NodesOf
  <1>2. \A u \in Threads : job[u].pc \notin Commits
    BY <1>1, NotTheCommitters DEF KeptInv
  <1>3. /\ \A u \in Threads \ {t} : job'[u] = job[u] /\ trans'[u] = trans[u]
        /\ job'[t].blk = {} /\ trans'[t] = a
    BY DEF pre_commit_hook, Goto, NoJob, TypeOK
  <1>4. /\ \A n \in Relocated(a) : /\ node'[n].state = "clean" /\ node'[n].atom = None
                                   /\ node'[n].blk = node[n].blk
        /\ \A n \in Nodes \ Relocated(a) : node'[n] = node[n]
    BY DEF pre_commit_hook, TypeOK, NodeRecords, Relocated, NodesOf
  <1>5. \A n \in Relocated(a) : n \in Nodes /\ node[n].blk \subseteq R
    BY DEF RelocatedBlocks, Relocated, NodesOf
  <1>6. \A b \in R : \E n \in Nodes : b \in node[n].blk
    BY DEF RelocatedBlocks, Relocated, NodesOf
  <1> HIDE DEF R, D
  <1>7. CommitterInv'
    <2> SUFFICES ASSUME NEW u \in Threads, job'[u].pc \in Commits
                 PROVE  /\ commit_mutex' = u
                        /\ \A v \in Threads \ {u} : trans'[v] # trans'[u]
                        /\ \A n \in Nodes : node'[n].atom = trans'[u] => node'[n].state = "ovrwr"
                        /\ atom'[trans'[u]].delete_set \cap commit' = {}
      BY DEF CommitterInv
    <2>1. u = t
      BY <1>2, <1>3
    <2>2. ASSUME NEW n \in Nodes, node'[n].atom = a
          PROVE  node'[n].state = "ovrwr"
      <3>1. n \notin Relocated(a)
        BY <1>4, <2>2, NoneAssumption
      <3>2. node'[n] = node[n] /\ node[n].atom = a
        BY <1>4, <2>2, <3>1
      <3> QED
        BY <1>1, <3>1, <3>2 DEF Relocated, NodesOf
    <2> QED
      BY <1>1, <1>3, <2>1, <2>2 DEF D
  <1>8. CommittedBlocksAreKept'
    <2>1. commit' \subseteq working'
      BY <1>1, <1>6, OwnersApart DEF KeptInv, CommittedBlocksAreKept
    <2>2. ASSUME NEW n \in Nodes, node'[n].state \in {"clean", "dirty", "ovrwr"}
          PROVE  node'[n].blk \subseteq commit'
      <3>1. node[n].blk \cap D = {}
        BY OwnersApart DEF D
      <3>2. CASE n \in Relocated(a)
        BY <1>1, <1>4, <1>5, <3>1, <3>2
      <3>3. CASE n \notin Relocated(a)
        BY <1>1, <1>4, <2>2, <3>1, <3>3 DEF KeptInv, CommittedBlocksAreKept
      <3> QED
        BY <3>2, <3>3
    <2> QED
      BY <2>1, <2>2 DEF CommittedBlocksAreKept
  <1>9. HandsOff'
    <2> SUFFICES ASSUME NEW u \in Threads, u # t
                 PROVE  job[u].blk \cap commit' = {}
      BY <1>3 DEF HandsOff
    <2> QED
      BY <1>1, <1>6, OwnersApart DEF KeptInv, HandsOff
  <1> QED
    BY <1>7, <1>8, <1>9 DEF KeptInv

LEMMA CommitKeptInv ==
  ASSUME TypeInv, OwnInv, KeptInv, NEW t \in Threads, Commit(t)
  PROVE  KeptInv'
  <1> USE DEF TypeInv
  <1> SUFFICES ASSUME ~\E a \in Atoms : pre_commit_hook(t, a)
               PROVE  KeptInv'
    BY PreCommitKeptInv
  <1> DEFINE a == trans[t]
  <1>1. /\ job[t].pc \in Commits /\ job[t] \in Jobs
        /\ \/ get_overwrite_set(t) \/ grab_tx(t)
           \/ alloc_wandered_block(t) \/ wandered_block_done(t) \/ write_tx_back(t)
           \/ apply_dset(t) \/ used2free(t) \/ commit_done(t)
    BY DEF Commit, get_overwrite_set, grab_tx, alloc_wandered_block, wandered_block_done,
           write_tx_back, apply_dset, used2free, commit_done, At, Commits, TypeOK
  <1>2. /\ a \in Atoms /\ a # None /\ commit_mutex = t
        /\ \A u \in Threads \ {t} : job[u].pc \notin Commits /\ trans[u] # a
        /\ \A n \in Nodes : node[n].atom = a => node[n].state = "ovrwr"
        /\ atom[a].delete_set \cap commit = {}
    BY <1>1, NotTheCommitters DEF KeptInv, CommitterInv
  <1>3. commit' = commit
    BY <1>1 DEF get_overwrite_set, grab_tx, alloc_wandered_block, wandered_block_done,
                write_tx_back, apply_dset, used2free, commit_done
  <1>4. \A u \in Threads \ {t} : job'[u] = job[u]
    BY <1>1 DEF get_overwrite_set, grab_tx, alloc_wandered_block, wandered_block_done,
                write_tx_back, apply_dset, used2free, commit_done, Panic, Goto, TypeOK
  <1> HIDE DEF a
  (* A step that leaves t in the commit, or panics.                         *)
  <1>5. ASSUME commit_mutex' = commit_mutex, trans' = trans,
               \A n \in Nodes : /\ node'[n].atom = node[n].atom
                                /\ node'[n].state = node[n].state /\ node'[n].blk = node[n].blk,
               atom'[a].delete_set \cap commit = {}, job'[t].blk \cap commit = {},
               commit \subseteq working'
        PROVE  KeptInv'
    <2>1. CommitterInv'
      BY <1>2, <1>3, <1>4, <1>5 DEF CommitterInv, a
    <2>2. CommittedBlocksAreKept'
      BY <1>3, <1>5 DEF KeptInv, CommittedBlocksAreKept
    <2>3. HandsOff'
      BY <1>3, <1>4, <1>5 DEF KeptInv, HandsOff
    <2> QED
      BY <2>1, <2>2, <2>3 DEF KeptInv
  <1>6. job[t].blk \cap commit = {} /\ commit \subseteq working
    BY DEF KeptInv, HandsOff, CommittedBlocksAreKept
  <1>a. ASSUME Panic(t), working' = working, commit_mutex' = commit_mutex, trans' = trans
        PROVE  KeptInv'
    <2>1. job'[t].blk = job[t].blk /\ node' = node /\ atom' = atom
      BY <1>1, <1>a DEF Panic, Goto, TypeOK, Jobs
    <2> QED
      BY <1>2, <1>5, <1>6, <1>a, <2>1
  <1>7. CASE get_overwrite_set(t)
    <2>1. working' = working /\ commit_mutex' = commit_mutex /\ trans' = trans
      BY <1>7 DEF get_overwrite_set
    <2>2. CASE ~Panic(t)
      <3> DEFINE size == job[t].count + Cardinality(Overwritten(a))
                 pc == IF size = 0 THEN "free" ELSE "txgrab"
      <3>1. /\ atom' = [atom EXCEPT ![a].flush_reserved = 0]
            /\ node' = [n \in Nodes |->
                 IF node[n].atom = a THEN [node[n] EXCEPT !.reserved = FALSE] ELSE node[n]]
            /\ Goto(t, [job[t] EXCEPT !.pc = pc, !.count = size])
        BY <1>7, <2>2 DEF get_overwrite_set, a
      <3> HIDE DEF size, pc
      <3>2. job'[t].blk = job[t].blk
        BY <1>1, <3>1 DEF Goto, TypeOK, Jobs
      <3>3. \A n \in Nodes : /\ node'[n].atom = node[n].atom
                             /\ node'[n].state = node[n].state /\ node'[n].blk = node[n].blk
        BY <3>1 DEF TypeOK, NodeRecords
      <3>4. atom'[a].delete_set = atom[a].delete_set
        BY <1>2, <3>1 DEF TypeOK, AtomRecords
      <3> QED
        BY <1>2, <1>5, <1>6, <2>1, <3>2, <3>3, <3>4
    <2> QED
      BY <1>a, <2>1, <2>2
  <1>8. CASE grab_tx(t)
    <2>1. working' = working /\ commit_mutex' = commit_mutex /\ trans' = trans
      BY <1>8 DEF grab_tx
    <2>2. CASE ~Panic(t)
      <3>1. job'[t].blk = job[t].blk /\ node' = node /\ atom' = atom
        BY <1>1, <1>8, <2>2 DEF grab_tx, Goto, TypeOK, Jobs
      <3> QED
        BY <1>2, <1>5, <1>6, <2>1, <3>1
    <2> QED
      BY <1>a, <2>1, <2>2
  <1>9. CASE alloc_wandered_block(t)
    <2>1. /\ commit_mutex' = commit_mutex /\ trans' = trans /\ node' = node /\ atom' = atom
          /\ working \subseteq working'
      BY <1>9 DEF alloc_wandered_block
    <2>2. PICK b \in Blocks \ working :
            Goto(t, [job[t] EXCEPT !.pc = "wandered", !.blk = @ \cup {b}, !.count = @ - 1])
      BY <1>9 DEF alloc_wandered_block
    <2>3. job'[t].blk = job[t].blk \cup {b}
      BY <1>1, <2>2 DEF Goto, TypeOK, Jobs
    <2>4. job'[t].blk \cap commit = {} /\ commit \subseteq working'
      BY <1>6, <2>1, <2>3
    <2> QED
      BY <1>2, <1>5, <2>1, <2>4
  <1>10. CASE wandered_block_done(t) \/ used2free(t)
    <2>1. /\ commit_mutex' = commit_mutex /\ trans' = trans /\ node' = node /\ atom' = atom
          /\ working' = working
      BY <1>10 DEF wandered_block_done, used2free
    <2>2. job'[t].blk = job[t].blk
      BY <1>1, <1>10 DEF wandered_block_done, used2free, Goto, TypeOK, Jobs
    <2> QED
      BY <1>2, <1>5, <1>6, <2>1, <2>2
  <1>11. CASE write_tx_back(t)
    <2>1. /\ commit_mutex' = commit_mutex /\ trans' = trans /\ node' = node /\ working' = working
          /\ job'[t].blk = {}
      BY <1>11 DEF write_tx_back, Goto, TypeOK, NoJob
    <2>2. atom'[a].delete_set = atom[a].delete_set \cup job[t].blk
      BY <1>2, <1>11 DEF write_tx_back, TypeOK, AtomRecords, a
    <2> QED
      BY <1>2, <1>5, <1>6, <2>1, <2>2
  <1>12. CASE apply_dset(t)
    <2>1. commit_mutex' = commit_mutex /\ trans' = trans /\ node' = node
      BY <1>12 DEF apply_dset
    <2>2. job'[t].blk = job[t].blk
      BY <1>1, <1>12 DEF apply_dset, Goto, TypeOK, Jobs
    <2>3. PICK b \in atom[a].delete_set :
            working' = working \ {b} /\ atom' = [atom EXCEPT ![a].delete_set = @ \ {b}]
      BY <1>12 DEF apply_dset, a
    <2>4. atom'[a].delete_set = atom[a].delete_set \ {b}
      BY <1>2, <2>3 DEF TypeOK, AtomRecords
    <2> QED
      BY <1>2, <1>5, <1>6, <2>1, <2>2, <2>3, <2>4
  <1>13. CASE commit_done(t)
    <2>1. job'[t] = NoJob /\ working' = working /\ NoJob.pc \notin Commits /\ NoJob.blk = {}
      BY <1>13, NoJobIdle DEF commit_done, Goto, TypeOK
    <2>2. CommitterInv'
      BY <1>2, <1>4, <2>1 DEF CommitterInv
    <2>3. \A n \in Nodes : /\ node'[n].blk = node[n].blk
                           /\ node'[n].state = node[n].state \/ node[n].atom = a
      BY <1>13 DEF commit_done, TypeOK, NodeRecords, a
    <2>4. CommittedBlocksAreKept'
      BY <1>2, <1>3, <2>1, <2>3 DEF KeptInv, CommittedBlocksAreKept
    <2>5. HandsOff'
      BY <1>3, <1>4, <2>1 DEF KeptInv, HandsOff
    <2> QED
      BY <2>2, <2>4, <2>5 DEF KeptInv
  <1> QED
    BY <1>1, <1>7, <1>8, <1>9, <1>10, <1>11, <1>12, <1>13

LEMMA FuseKeptInv ==
  ASSUME TypeInv, KeptInv, Fuse
  PROVE  KeptInv'
  <1> USE DEF TypeInv
  <1>1. PICK small \in Atoms, large \in Atoms : capture_fuse_into(small, large)
    BY DEF Fuse
  <1>2. /\ commit' = commit /\ working' = working /\ commit_mutex' = commit_mutex /\ job' = job
        /\ ~Committing(small) /\ ~Committing(large)
        /\ \A u \in Threads : trans'[u] = IF trans[u] = small THEN large ELSE trans[u]
    BY <1>1 DEF capture_fuse_into
  <1>3. \A n \in Nodes : /\ node'[n].blk = node[n].blk /\ node'[n].state = node[n].state
                         /\ node'[n].atom = IF node[n].atom = small THEN large ELSE node[n].atom
    BY <1>1 DEF capture_fuse_into, TypeOK, NodeRecords
  <1>4. \A c \in Atoms \ {small, large} : atom'[c] = atom[c]
    BY <1>1 DEF capture_fuse_into, TypeOK
  <1>5. CommitterInv'
    <2> SUFFICES ASSUME NEW u \in Threads, job'[u].pc \in Commits
                 PROVE  /\ commit_mutex' = u
                        /\ \A v \in Threads \ {u} : trans'[v] # trans'[u]
                        /\ \A n \in Nodes : node'[n].atom = trans'[u] => node'[n].state = "ovrwr"
                        /\ atom'[trans'[u]].delete_set \cap commit' = {}
      BY DEF CommitterInv
    <2>1. job[u].pc \in Commits
      BY <1>2
    <2>2. trans[u] \in Atoms \ {small, large} /\ trans'[u] = trans[u]
      BY <1>2, <2>1, NotTheCommitters DEF KeptInv
    <2> QED
      BY <1>2, <1>3, <1>4, <2>1, <2>2 DEF KeptInv, CommitterInv
  <1>6. CommittedBlocksAreKept' /\ HandsOff'
    BY <1>2, <1>3 DEF KeptInv, CommittedBlocksAreKept, HandsOff
  <1> QED
    BY <1>5, <1>6 DEF KeptInv

LEMMA InitKeptInv == Init => KeptInv
  <1> SUFFICES ASSUME Init PROVE KeptInv
    OBVIOUS
  <1>1. \A t \in Threads : job[t].pc \notin Commits /\ job[t].blk = {}
    BY NoJobIdle DEF Init
  <1>2. commit = working /\ \A n \in Nodes : node[n].blk \subseteq working
    BY DEF Init
  <1> QED
    BY <1>1, <1>2 DEF KeptInv, CommittedBlocksAreKept, CommitterInv, HandsOff

(* A block of the committed tree stays allocated until the commit that     *)
(* frees it has been written back, and a node that is not being relocated  *)
(* is in its committed place: what BA_DEFER and the two bitmaps are for.   *)
THEOREM CommittedKept == Spec => []CommittedBlocksAreKept
  <1>1. TypeInv /\ OwnInv /\ KeptInv /\ [Next]_vars => KeptInv'
    <2> SUFFICES ASSUME TypeInv, OwnInv, KeptInv, [Next]_vars PROVE KeptInv'
      OBVIOUS
    <2>1. CASE UNCHANGED vars
      BY <2>1 DEF vars, KeptInv, CommittedBlocksAreKept, CommitterInv, HandsOff
    <2>2. CASE Next
      BY <2>2, GrabKeptInv, ChangeKeptInv, PlaceKeptInv, CommitKeptInv, FuseKeptInv DEF Next
    <2> QED
      BY <2>1, <2>2
  <1>2. KeptInv => CommittedBlocksAreKept
    BY DEF KeptInv
  <1> QED
    BY <1>1, <1>2, InitKeptInv, TypeCorrect, OwnInvHolds, PTL DEF Spec
=============================================================================
