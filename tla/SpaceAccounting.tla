--------------------------- MODULE SpaceAccounting ---------------------------
(***************************************************************************)
(* Disk space accounting (src/block_alloc.c), with the part of the bitmap  *)
(* allocator (src/plugin/space/bitmap.c), of the transaction model         *)
(* (src/plugin/txmod.c) and of the log writer (src/wander.c) that moves    *)
(* blocks between counters.                                                *)
(*                                                                         *)
(* Every block of the device is counted in exactly one counter of the      *)
(* super block.  A thread grabs blocks before an operation, turns them     *)
(* into fake allocated or flush reserved ones while it changes the tree,   *)
(* and flush and commit turn those into used ones.  Bits of the WORKING    *)
(* bitmap are set and cleared in separate critical sections from the       *)
(* counters; the COMMIT bitmap changes when an atom commits.               *)
(*                                                                         *)
(* A conversion xxx2yyy is one step: the context counter it also changes   *)
(* is private to the thread, and the atom counter is changed with the atom *)
(* lock held over both.                                                    *)
(***************************************************************************)
EXTENDS Integers, FiniteSets, FiniteSetsExt

CONSTANTS
  Threads,      \* contexts
  Atoms,
  Nodes,        \* leaf nodes, formatted (znodes) and unformatted (jnodes)
  Formatted,    \* the formatted ones
  Blocks,       \* block numbers
  Reserved,     \* sbinfo->blocks_reserved
  NotLeaves,    \* bitmap and super blocks in the overwrite set of a commit
  TxSize,       \* blocks for the tx head and the wander records
  MaxGrab,      \* bound: most blocks a thread grabs in one call
  DsetFails     \* can atom_dset_deferred_add_extent run out of memory?

ASSUME NodesAssumption == IsFiniteSet(Nodes) /\ Formatted \subseteq Nodes
ASSUME OwnersAssumption ==
  Nodes \cap Atoms = {} /\ Nodes \cap Threads = {} /\ Atoms \cap Threads = {}
ASSUME BlocksAssumption == IsFiniteSet(Blocks)
ASSUME SizesAssumption ==
  Reserved \in Nat /\ NotLeaves \in Nat /\ TxSize \in Nat /\ MaxGrab \in Nat
ASSUME DsetAssumption == DsetFails \in BOOLEAN

None == "none"
ASSUME NoneAssumption == None \notin Threads \cup Atoms \cup Nodes

VARIABLES
  sb,            \* counters of the super block
  blocks_free_committed,
  ctx,           \* per thread: grabbed_blocks, grab_enabled of its context
  trans,         \* per thread: the atom of its transaction handle
  atom,          \* per atom: flush_reserved, nr_blocks_allocated, delete_set
  node,          \* per node: state, block, atom, JNODE_FLUSH_RESERVED
  working,       \* blocks set in the WORKING bitmap
  commit,        \* blocks set in the COMMIT bitmap
  delete_mutex,  \* owner of sbinfo->delete_mutex
  commit_mutex,  \* owner of tmgr->commit_mutex
  job            \* per thread: the call it is in

vars == <<sb, blocks_free_committed, ctx, trans, atom, node, working, commit,
          delete_mutex, commit_mutex, job>>

Counters == {"free", "used", "grabbed", "fake", "fake_unformatted",
             "flush_reserved", "clustered"}

NodeStates == {"none", "fake", "clean", "dirty", "reloc", "ovrwr"}

Contexts == [grabbed : Int, enabled : BOOLEAN]
AtomRecords == [flush_reserved : Int, nr_blocks_allocated : Int, delete_set : SUBSET Blocks]
NodeRecords == [state : NodeStates, blk : SUBSET Blocks, atom : Atoms \cup {None},
                reserved : BOOLEAN]

(* Where a thread is: pc; the node it works on; the block or blocks it has *)
(* been given; the stage (counter) they come from; how many blocks it      *)
(* still wants; whether it was called by reiser4_grab_reserved.            *)
PCs == {"idle", "retry", "mutex", "alloc", "allocated", "unmap", "unmapped",
        "overwrite", "txgrab", "wander", "wandered", "free", "freed", "panic"}
Jobs == [pc : PCs, node : Nodes \cup {None}, blk : SUBSET Blocks,
         stage : Counters \ {"used"}, count : Nat, reserved : BOOLEAN]
NoJob == [pc |-> "idle", node |-> None, blk |-> {}, stage |-> "free", count |-> 0,
          reserved |-> FALSE]

NoAtom == [flush_reserved |-> 0, nr_blocks_allocated |-> 0, delete_set |-> {}]
NoNode == [state |-> "none", blk |-> {}, atom |-> None, reserved |-> FALSE]
Clean(b) == [state |-> "clean", blk |-> {b}, atom |-> None, reserved |-> FALSE]

(* A mounted file system: each node is absent or has its block.            *)
Init ==
  /\ node \in [Nodes -> {NoNode} \cup {Clean(b) : b \in Blocks}]
  /\ \A m, n \in Nodes : m # n => node[m].blk \cap node[n].blk = {}
  /\ working = UNION {node[n].blk : n \in Nodes}
  /\ commit = working
  /\ sb = [c \in Counters |->
             CASE c = "used" -> Cardinality(working)
               [] c = "free" -> Cardinality(Blocks) - Cardinality(working)
               [] OTHER -> 0]
  /\ blocks_free_committed = Cardinality(Blocks) - Cardinality(working)
  /\ ctx = [t \in Threads |-> [grabbed |-> 0, enabled |-> TRUE]]
  /\ trans = [t \in Threads |-> None]
  /\ atom = [a \in Atoms |-> NoAtom]
  /\ delete_mutex = None
  /\ commit_mutex = None
  /\ job = [t \in Threads |-> NoJob]

-----------------------------------------------------------------------------
(* Conversions between counters                                            *)

Convert(from, to, count) == [sb EXCEPT ![from] = @ - count, ![to] = @ + count]

fake_counter(n) == IF n \in Formatted THEN "fake" ELSE "fake_unformatted"

AddGrabbed(t, count) == [ctx EXCEPT ![t].grabbed = @ + count]
SubGrabbed(t, count) == [ctx EXCEPT ![t].grabbed = @ - count]

Idle(t) == job[t].pc = "idle"
Goto(t, j) == job' = [job EXCEPT ![t] = j]
At(t, pc) == job[t].pc = pc

(* Nodes are long-term locked by the thread that works on them.            *)
Locked(n) == \E t \in Threads : job[t].node = n
NodesOf(a) == {n \in Nodes : node[n].atom = a}
HasHandles(a) == \E t \in Threads : trans[t] = a

-----------------------------------------------------------------------------
(* Grabbing                                                                *)

(* Mutant: the blocks asked for are not compared with the free ones.       *)
any_free_will_do(count, use_reserved) ==
  sb["free"] >= (IF use_reserved THEN 0 ELSE Reserved)
EnoughFree(count, use_reserved) ==
  sb["free"] >= count + (IF use_reserved THEN 0 ELSE Reserved)

(* reiser4_grab that succeeds.                                             *)
reiser4_grab(t, count) ==
  /\ sb' = Convert("free", "grabbed", count)
  /\ ctx' = [ctx EXCEPT ![t] = [grabbed |-> @.grabbed + count, enabled |-> FALSE]]

(* Mutant: what is missing is grabbed later, with the reserve subtracted.  *)
grab_missing_later(t, count, for_delete) ==
  /\ Idle(t) /\ ctx[t].enabled
  /\ for_delete => delete_mutex # t
  /\ \/ EnoughFree(count, FALSE) /\ reiser4_grab(t, count) /\ UNCHANGED <<job, trans>>
     \/ /\ ~EnoughFree(count, FALSE)
        /\ Goto(t, [NoJob EXCEPT !.pc = "retry", !.count = count - Reserved - sb["free"],
                                 !.reserved = for_delete])
        /\ trans' = [trans EXCEPT ![t] = None]
        /\ UNCHANGED <<sb, ctx>>
  /\ UNCHANGED <<blocks_free_committed, atom, node, working, commit,
                 delete_mutex, commit_mutex>>

(* reiser4_grab_space with BA_CAN_COMMIT, also as the first step of        *)
(* reiser4_grab_reserved.  Without space all transactions are committed    *)
(* (the handle is closed for that) and grabbing is tried again.            *)
reiser4_grab_space(t, count, for_delete) ==
  /\ Idle(t) /\ ctx[t].enabled
  /\ for_delete => delete_mutex # t
  /\ \/ EnoughFree(count, FALSE) /\ reiser4_grab(t, count) /\ UNCHANGED <<job, trans>>
     \/ /\ ~EnoughFree(count, FALSE)
        /\ Goto(t, [NoJob EXCEPT !.pc = "retry", !.count = count, !.reserved = for_delete])
        /\ trans' = [trans EXCEPT ![t] = None]
        /\ UNCHANGED <<sb, ctx>>
  /\ UNCHANGED <<blocks_free_committed, atom, node, working, commit,
                 delete_mutex, commit_mutex>>

(* txnmgr_force_commit_all has returned.                                   *)
retry_grab(t) ==
  LET use_reserved == delete_mutex = t IN
  /\ At(t, "retry")
  /\ \/ /\ EnoughFree(job[t].count, use_reserved)
        /\ reiser4_grab(t, job[t].count)
        /\ Goto(t, NoJob)
        /\ UNCHANGED delete_mutex
     \/ /\ ~EnoughFree(job[t].count, use_reserved)
        /\ ctx' = [ctx EXCEPT ![t].enabled = TRUE]
        /\ Goto(t, IF job[t].reserved /\ ~use_reserved THEN [job[t] EXCEPT !.pc = "mutex"]
                                                       ELSE NoJob)
        /\ delete_mutex' = IF use_reserved THEN None ELSE delete_mutex
        /\ UNCHANGED sb
  /\ UNCHANGED <<blocks_free_committed, trans, atom, node, working, commit, commit_mutex>>

(* reiser4_grab_reserved takes the delete mutex and tries the reserve.     *)
take_delete_mutex(t) ==
  /\ At(t, "mutex") /\ delete_mutex = None
  /\ delete_mutex' = t
  /\ \/ /\ EnoughFree(job[t].count, TRUE)
        /\ reiser4_grab(t, job[t].count)
        /\ Goto(t, NoJob)
     \/ /\ ~EnoughFree(job[t].count, TRUE)
        /\ Goto(t, [job[t] EXCEPT !.pc = "retry"])
        /\ UNCHANGED <<sb, ctx>>
  /\ UNCHANGED <<blocks_free_committed, trans, atom, node, working, commit, commit_mutex>>

(* reiser4_grab_reserved by the thread that has the delete mutex already.  *)
grab_reserved_nested(t, count) ==
  /\ Idle(t) /\ ctx[t].enabled /\ delete_mutex = t
  /\ \/ EnoughFree(count, TRUE) /\ reiser4_grab(t, count) /\ UNCHANGED delete_mutex
     \/ ~EnoughFree(count, TRUE) /\ delete_mutex' = None /\ UNCHANGED <<sb, ctx>>
  /\ UNCHANGED <<blocks_free_committed, trans, atom, node, working, commit,
                 commit_mutex, job>>

reiser4_release_reserved(t) ==
  /\ Idle(t) /\ delete_mutex = t
  /\ delete_mutex' = None
  /\ UNCHANGED <<sb, blocks_free_committed, ctx, trans, atom, node, working, commit,
                 commit_mutex, job>>

(* The end of a context: reiser4_done_context.  The handle is closed.      *)
all_grabbed2free(t) ==
  /\ Idle(t) /\ delete_mutex # t
  /\ sb' = Convert("grabbed", "free", ctx[t].grabbed)
  /\ ctx' = [ctx EXCEPT ![t] = [grabbed |-> 0, enabled |-> TRUE]]
  /\ trans' = [trans EXCEPT ![t] = None]
  /\ UNCHANGED <<blocks_free_committed, atom, node, working, commit,
                 delete_mutex, commit_mutex, job>>

-----------------------------------------------------------------------------
(* Other conversions of grabbed blocks                                     *)

grabbed2free_mark(t, mark) ==
  /\ Idle(t) /\ mark < ctx[t].grabbed
  /\ sb' = Convert("grabbed", "free", ctx[t].grabbed - mark)
  /\ ctx' = [ctx EXCEPT ![t].grabbed = mark]
  /\ UNCHANGED <<blocks_free_committed, trans, atom, node, working, commit,
                 delete_mutex, commit_mutex, job>>

grabbed2cluster_reserved(t) ==
  /\ Idle(t) /\ ctx[t].grabbed > 0
  /\ sb' = Convert("grabbed", "clustered", 1)
  /\ ctx' = SubGrabbed(t, 1)
  /\ UNCHANGED <<blocks_free_committed, trans, atom, node, working, commit,
                 delete_mutex, commit_mutex, job>>

(* A cluster's reservation may be taken over by any thread.                *)
cluster_reserved2grabbed(t) ==
  /\ Idle(t) /\ sb["clustered"] > 0
  /\ sb' = Convert("clustered", "grabbed", 1)
  /\ ctx' = AddGrabbed(t, 1)
  /\ UNCHANGED <<blocks_free_committed, trans, atom, node, working, commit,
                 delete_mutex, commit_mutex, job>>

-----------------------------------------------------------------------------
(* Changing the tree                                                       *)

Committing(a) == commit_mutex # None /\ trans[commit_mutex] = a

(* Thread t, in atom a or in none, has locked node n, of atom a or of none. *)
Captures(t, n, a) ==
  /\ Idle(t) /\ ~Locked(n) /\ ~Committing(a)
  /\ trans[t] \in {None, a} /\ node[n].atom \in {None, a}
  /\ trans' = [trans EXCEPT ![t] = a]

(* assign_fake_blocknr_formatted and fake_blocknr_unformatted.             *)
assign_fake_blocknr(t, n, a) ==
  /\ Captures(t, n, a) /\ node[n].state = "none" /\ ctx[t].grabbed > 0
  /\ sb' = Convert("grabbed", fake_counter(n), 1)
  /\ ctx' = SubGrabbed(t, 1)
  /\ node' = [node EXCEPT ![n] = [NoNode EXCEPT !.state = "fake", !.atom = a]]
  /\ UNCHANGED <<blocks_free_committed, atom, working, commit,
                 delete_mutex, commit_mutex, job>>

(* A clean leaf is made dirty: a block is reserved for its flush.          *)
do_jnode_make_dirty(t, n, a) ==
  /\ Captures(t, n, a) /\ node[n].state = "clean" /\ ctx[t].grabbed > 0
  /\ sb' = Convert("grabbed", "flush_reserved", 1)
  /\ ctx' = SubGrabbed(t, 1)
  /\ atom' = [atom EXCEPT ![a].flush_reserved = @ + 1]
  /\ node' = [node EXCEPT ![n] = [@ EXCEPT !.state = "dirty", !.atom = a, !.reserved = TRUE]]
  /\ UNCHANGED <<blocks_free_committed, working, commit, delete_mutex, commit_mutex, job>>

(* Mutant: a new node is deleted and its fake block is not freed.          *)
uncapture_keeps_fake(t, n, a) ==
  /\ Captures(t, n, a) /\ node[n].state = "fake"
  /\ node' = [node EXCEPT ![n] = NoNode]
  /\ UNCHANGED <<sb, ctx, atom, blocks_free_committed, working, commit,
                 delete_mutex, commit_mutex, job>>
(* A node leaves the tree: uncapture_znode, or the kill hook of extents,   *)
(* which leaves the block reserved for the flush of the node in the atom.  *)
uncapture_node(t, n, a) ==
  LET returned == n \in Formatted /\ node[n].reserved IN
  /\ Captures(t, n, a) /\ node[n].state # "none"
  /\ node' = [node EXCEPT ![n] = NoNode]
  /\ IF node[n].state = "fake"
     THEN /\ sb' = Convert(fake_counter(n), "free", 1)
          /\ UNCHANGED <<ctx, atom>>
     ELSE /\ sb' = IF returned THEN Convert("flush_reserved", "grabbed", 1) ELSE sb
          /\ ctx' = IF returned THEN AddGrabbed(t, 1) ELSE ctx
          /\ atom' = [atom EXCEPT
               ![a].delete_set = @ \cup node[n].blk,
               ![a].flush_reserved = IF returned THEN @ - 1 ELSE @]
  /\ UNCHANGED <<blocks_free_committed, working, commit, delete_mutex, commit_mutex, job>>

(* Mutant: the flush reserved blocks of the small atom are forgotten.      *)
fuse_without_reserved(small, large) ==
  /\ small # large /\ ~Committing(small) /\ ~Committing(large)
  /\ HasHandles(small) \/ NodesOf(small) # {}
  /\ node' = [n \in Nodes |->
       IF node[n].atom = small THEN [node[n] EXCEPT !.atom = large] ELSE node[n]]
  /\ trans' = [t \in Threads |-> IF trans[t] = small THEN large ELSE trans[t]]
  /\ atom' = [atom EXCEPT
       ![small] = NoAtom,
       ![large].nr_blocks_allocated = @ + atom[small].nr_blocks_allocated,
       ![large].delete_set = @ \cup atom[small].delete_set]
  /\ UNCHANGED <<sb, blocks_free_committed, ctx, working, commit,
                 delete_mutex, commit_mutex, job>>
(* The part of capture_fuse_into that is about space.                      *)
capture_fuse_into(small, large) ==
  /\ small # large /\ ~Committing(small) /\ ~Committing(large)
  /\ HasHandles(small) \/ NodesOf(small) # {}
  /\ node' = [n \in Nodes |->
       IF node[n].atom = small THEN [node[n] EXCEPT !.atom = large] ELSE node[n]]
  /\ trans' = [t \in Threads |-> IF trans[t] = small THEN large ELSE trans[t]]
  /\ atom' = [atom EXCEPT
       ![small] = NoAtom,
       ![large] = [flush_reserved |-> @.flush_reserved + atom[small].flush_reserved,
                   nr_blocks_allocated |->
                     @.nr_blocks_allocated + atom[small].nr_blocks_allocated,
                   delete_set |-> @.delete_set \cup atom[small].delete_set]]
  /\ UNCHANGED <<sb, blocks_free_committed, ctx, working, commit,
                 delete_mutex, commit_mutex, job>>

-----------------------------------------------------------------------------
(* Flush: a node gets its place on disk                                    *)

Alloc(n, stage) == [NoJob EXCEPT !.pc = "alloc", !.node = n, !.stage = stage]

(* A new node: its fake block is used.                                     *)
flush_created(t, n, a) ==
  /\ Captures(t, n, a) /\ node[n].state = "fake"
  /\ Goto(t, Alloc(n, fake_counter(n)))
  /\ UNCHANGED <<sb, blocks_free_committed, ctx, atom, node, working, commit,
                 delete_mutex, commit_mutex>>

(* forward_try_defragment_locality turns the flush reserved block of a     *)
(* znode into a grabbed one first.                                         *)
flush_relocated_znode(t, n, a) ==
  /\ Captures(t, n, a) /\ node[n].state = "dirty" /\ n \in Formatted
  /\ sb' = Convert("flush_reserved", "grabbed", 1)
  /\ ctx' = AddGrabbed(t, 1)
  /\ atom' = [atom EXCEPT ![a].flush_reserved = @ - 1]
  /\ node' = [node EXCEPT ![n].reserved = FALSE]
  /\ Goto(t, Alloc(n, "grabbed"))
  /\ UNCHANGED <<blocks_free_committed, working, commit, delete_mutex, commit_mutex>>

flush_relocated_extent(t, n, a) ==
  /\ Captures(t, n, a) /\ node[n].state = "dirty" /\ n \notin Formatted
  /\ Goto(t, Alloc(n, "flush_reserved"))
  /\ UNCHANGED <<sb, blocks_free_committed, ctx, atom, node, working, commit,
                 delete_mutex, commit_mutex>>

jnode_make_wander(t, n, a) ==
  /\ Captures(t, n, a) /\ node[n].state = "dirty"
  /\ node' = [node EXCEPT ![n].state = "ovrwr"]
  /\ UNCHANGED <<sb, blocks_free_committed, ctx, atom, working, commit,
                 delete_mutex, commit_mutex, job>>

(* The space allocator sets a bit of the WORKING bitmap.                   *)
sa_alloc_blocks(t) ==
  /\ At(t, "alloc")
  /\ \E b \in Blocks \ working :
       /\ working' = working \cup {b}
       /\ Goto(t, [job[t] EXCEPT !.pc = "allocated", !.blk = {b}])
  /\ UNCHANGED <<sb, blocks_free_committed, ctx, trans, atom, node, commit,
                 delete_mutex, commit_mutex>>

(* There is no free block close enough (max_dist): a znode stays where it  *)
(* is, and gets its reservation back.                                      *)
GetReservationBack(t, n) ==
  /\ sb' = Convert("grabbed", "flush_reserved", 1)
  /\ ctx' = SubGrabbed(t, 1)
  /\ node' = [node EXCEPT ![n].reserved = TRUE]

alloc_too_far(t) ==
  LET n == job[t].node IN
  /\ At(t, "alloc") /\ n \in Formatted
  /\ IF job[t].stage = "grabbed"
     THEN /\ GetReservationBack(t, n)
          /\ atom' = [atom EXCEPT ![trans[t]].flush_reserved = @ + 1]
     ELSE UNCHANGED <<sb, ctx, atom, node>>
  /\ Goto(t, NoJob)
  /\ UNCHANGED <<blocks_free_committed, trans, working, commit, delete_mutex, commit_mutex>>

(* Mutant: the allocated block is counted as free again.                   *)
used_counted_free(t, stage) ==
  /\ sb' = Convert(stage, "free", 1)
  /\ ctx' = IF stage = "grabbed" THEN SubGrabbed(t, 1) ELSE ctx
(* The end of reiser4_alloc_blocks: grabbed2used, fake_allocated2used or   *)
(* flush_reserved2used, and nr_blocks_allocated (BA_PERMANENT); atm is the *)
(* atom after that.                                                        *)
UseBlock(t, stage) ==
  /\ sb' = Convert(stage, "used", 1)
  /\ ctx' = IF stage = "grabbed" THEN SubGrabbed(t, 1) ELSE ctx
AtomWithBlock(a, stage) ==
  [atom[a] EXCEPT !.nr_blocks_allocated = @ + 1,
                  !.flush_reserved = IF stage = "flush_reserved" THEN @ - 1 ELSE @]

(* Mutant: the old block is not put into the delete set.                   *)
old_block_lost(t) ==
  LET n == job[t].node
      a == trans[t]
  IN /\ At(t, "allocated")
     /\ UseBlock(t, job[t].stage)
     /\ atom' = [atom EXCEPT ![a] = AtomWithBlock(a, job[t].stage)]
     /\ node' = [node EXCEPT ![n] = [state |-> "reloc", blk |-> job[t].blk,
                                     atom |-> a, reserved |-> FALSE]]
     /\ Goto(t, NoJob)
     /\ UNCHANGED <<blocks_free_committed, trans, working, commit,
                    delete_mutex, commit_mutex>>

(* Mutant: the old block is freed at once (BA_DEFER is forgotten).         *)
old_block_freed(t) ==
  LET n == job[t].node
      a == trans[t]
  IN /\ At(t, "allocated")
     /\ sb' = [Convert(job[t].stage, "used", 1) EXCEPT
                !["used"] = @ - Cardinality(node[n].blk), !["free"] = @ + Cardinality(node[n].blk)]
     /\ ctx' = IF job[t].stage = "grabbed" THEN SubGrabbed(t, 1) ELSE ctx
     /\ atom' = [atom EXCEPT ![a] = AtomWithBlock(a, job[t].stage)]
     /\ node' = [node EXCEPT ![n] = [state |-> "reloc", blk |-> job[t].blk,
                                     atom |-> a, reserved |-> FALSE]]
     /\ working' = working \ node[n].blk
     /\ Goto(t, NoJob)
     /\ UNCHANGED <<blocks_free_committed, trans, commit, delete_mutex, commit_mutex>>

(* The node moves to its new block; the old one goes to the delete set.    *)
alloc_blocks_done(t) ==
  LET n == job[t].node
      a == trans[t]
  IN /\ At(t, "allocated")
     /\ UseBlock(t, job[t].stage)
     /\ atom' = [atom EXCEPT ![a] = [AtomWithBlock(a, job[t].stage) EXCEPT
                                       !.delete_set = @ \cup node[n].blk]]
     /\ node' = [node EXCEPT ![n] = [state |-> "reloc", blk |-> job[t].blk,
                                     atom |-> a, reserved |-> FALSE]]
     /\ Goto(t, NoJob)
     /\ UNCHANGED <<blocks_free_committed, trans, working, commit,
                    delete_mutex, commit_mutex>>

(* squeeze_relocate_unformatted finds the left node full: the block just   *)
(* allocated is given back, bitmap first, counters next.                   *)
squeeze_target_full(t) ==
  /\ At(t, "allocated") /\ job[t].node \notin Formatted
  /\ UseBlock(t, job[t].stage)
  /\ atom' = [atom EXCEPT ![trans[t]] = AtomWithBlock(trans[t], job[t].stage)]
  /\ Goto(t, [job[t] EXCEPT !.pc = "unmap"])
  /\ UNCHANGED <<blocks_free_committed, trans, node, working, commit,
                 delete_mutex, commit_mutex>>

sa_dealloc_blocks(t) ==
  /\ At(t, "unmap")
  /\ working' = working \ job[t].blk
  /\ Goto(t, [job[t] EXCEPT !.pc = "unmapped", !.blk = {}])
  /\ UNCHANGED <<sb, blocks_free_committed, ctx, trans, atom, node, commit,
                 delete_mutex, commit_mutex>>

(* Mutants: the used counter, the atom's counter are not decremented.      *)
used_not_subtracted(t) ==
  /\ At(t, "unmapped")
  /\ sb' = [sb EXCEPT ![job[t].stage] = @ + 1]
  /\ atom' = [atom EXCEPT
       ![trans[t]].nr_blocks_allocated = @ - 1,
       ![trans[t]].flush_reserved = IF job[t].stage = "flush_reserved" THEN @ + 1 ELSE @]
  /\ Goto(t, NoJob)
  /\ UNCHANGED <<blocks_free_committed, ctx, trans, node, working, commit,
                 delete_mutex, commit_mutex>>
nr_blocks_allocated_kept(t) ==
  /\ At(t, "unmapped")
  /\ sb' = Convert("used", job[t].stage, 1)
  /\ atom' = [atom EXCEPT
       ![trans[t]].flush_reserved = IF job[t].stage = "flush_reserved" THEN @ + 1 ELSE @]
  /\ Goto(t, NoJob)
  /\ UNCHANGED <<blocks_free_committed, ctx, trans, node, working, commit,
                 delete_mutex, commit_mutex>>

(* used2flush_reserved or used2fake_allocated.                             *)
dealloc_blocks_done(t) ==
  /\ At(t, "unmapped")
  /\ sb' = Convert("used", job[t].stage, 1)
  /\ atom' = [atom EXCEPT
       ![trans[t]].nr_blocks_allocated = @ - 1,
       ![trans[t]].flush_reserved = IF job[t].stage = "flush_reserved" THEN @ + 1 ELSE @]
  /\ Goto(t, NoJob)
  /\ UNCHANGED <<blocks_free_committed, ctx, trans, node, working, commit,
                 delete_mutex, commit_mutex>>

(* forward_try_defragment_locality has allocated a block and cannot put    *)
(* the old one into the delete set: it gets the reservation back, although *)
(* the block is used by now, and grabbed2free_mark is a BUG.               *)
dset_add_fails(t) ==
  LET n == job[t].node
      a == trans[t]
  IN /\ DsetFails
     /\ At(t, "allocated") /\ n \in Formatted /\ job[t].stage = "grabbed"
     /\ sb' = [sb EXCEPT !["used"] = @ + 1, !["flush_reserved"] = @ + 1,
                         !["grabbed"] = @ - 2]
     /\ ctx' = SubGrabbed(t, 2)
     /\ atom' = [atom EXCEPT ![a] =
          [AtomWithBlock(a, "grabbed") EXCEPT !.flush_reserved = @ + 1]]
     /\ node' = [node EXCEPT ![n].reserved = TRUE]
     /\ Goto(t, [job[t] EXCEPT !.pc = "panic"])
     /\ UNCHANGED <<blocks_free_committed, trans, working, commit,
                    delete_mutex, commit_mutex>>

-----------------------------------------------------------------------------
(* Commit                                                                  *)

Relocated(a) == {n \in NodesOf(a) : node[n].state = "reloc"}
Overwritten(a) == {n \in NodesOf(a) : node[n].state = "ovrwr"}
RelocatedBlocks(a) == UNION {node[n].blk : n \in Relocated(a)}

(* reiser4_pre_commit_hook: the COMMIT bitmap gets the blocks of the       *)
(* relocate set and loses the delete set; then the relocate set is         *)
(* uncaptured.  Both bitmap blocks and the super block are overwritten.    *)
pre_commit_hook(t, a) ==
  LET changed == Relocated(a) # {} \/ atom[a].delete_set # {} IN
  /\ Idle(t) /\ trans[t] \in {None, a} /\ commit_mutex = None
  /\ \A u \in Threads \ {t} : trans[u] # a
  /\ NodesOf(a) # {} \/ atom[a].delete_set # {}
  /\ \A n \in NodesOf(a) : node[n].state \in {"reloc", "ovrwr"}
  /\ commit' = (commit \cup RelocatedBlocks(a)) \ atom[a].delete_set
  /\ blocks_free_committed' = blocks_free_committed
       + Cardinality(atom[a].delete_set) - atom[a].nr_blocks_allocated
  /\ node' = [n \in Nodes |->
       IF n \in Relocated(a) THEN [node[n] EXCEPT !.state = "clean", !.atom = None]
                             ELSE node[n]]
  /\ commit_mutex' = t
  /\ trans' = [trans EXCEPT ![t] = a]
  /\ Goto(t, [NoJob EXCEPT !.pc = "overwrite", !.count = IF changed THEN NotLeaves ELSE 0])
  /\ UNCHANGED <<sb, ctx, atom, working, delete_mutex>>

(* Space that cannot be grabbed for the log makes reiser4_write_logs fail, *)
(* which is a panic.                                                       *)
Panic(t) ==
  /\ Goto(t, [job[t] EXCEPT !.pc = "panic"])
  /\ UNCHANGED <<sb, ctx, atom, node>>

(* get_overwrite_set: blocks for the bitmap and super blocks are grabbed,  *)
(* everything that was reserved for flush becomes grabbed.                 *)
get_overwrite_set(t) ==
  LET a == trans[t]
      reserved == atom[a].flush_reserved
      size == job[t].count + Cardinality(Overwritten(a))
  IN /\ At(t, "overwrite")
     /\ \/ ~EnoughFree(job[t].count, TRUE) /\ Panic(t)
        \/ /\ EnoughFree(job[t].count, TRUE)
           /\ sb' = [sb EXCEPT !["free"] = @ - job[t].count,
                               !["flush_reserved"] = @ - reserved,
                               !["grabbed"] = @ + job[t].count + reserved]
           /\ ctx' = AddGrabbed(t, job[t].count + reserved)
           /\ atom' = [atom EXCEPT ![a].flush_reserved = 0]
           /\ node' = [n \in Nodes |->
                IF node[n].atom = a THEN [node[n] EXCEPT !.reserved = FALSE] ELSE node[n]]
           /\ Goto(t, [job[t] EXCEPT !.pc = IF size = 0 THEN "free" ELSE "txgrab",
                                     !.count = size])
     /\ UNCHANGED <<blocks_free_committed, trans, working, commit,
                    delete_mutex, commit_mutex>>

(* The start of commit_tx.                                                 *)
grab_tx(t) ==
  /\ At(t, "txgrab")
  /\ \/ ~EnoughFree(TxSize, TRUE) /\ Panic(t)
     \/ /\ EnoughFree(TxSize, TRUE)
        /\ reiser4_grab(t, TxSize)
        /\ Goto(t, [job[t] EXCEPT !.pc = "wander", !.count = @ + TxSize])
        /\ UNCHANGED <<atom, node>>
  /\ UNCHANGED <<blocks_free_committed, trans, working, commit, delete_mutex, commit_mutex>>

(* alloc_wandered_blocks and alloc_tx, a block at a time: the bitmap, then *)
(* the counters.  job.blk collects the blocks.                             *)
alloc_wandered_block(t) ==
  /\ At(t, "wander") /\ job[t].count > 0
  /\ \E b \in Blocks \ working :
       /\ working' = working \cup {b}
       /\ Goto(t, [job[t] EXCEPT !.pc = "wandered", !.blk = @ \cup {b}, !.count = @ - 1])
  /\ UNCHANGED <<sb, blocks_free_committed, ctx, trans, atom, node, commit,
                 delete_mutex, commit_mutex>>

wandered_block_done(t) ==
  /\ At(t, "wandered")
  /\ UseBlock(t, "grabbed")
  /\ Goto(t, [job[t] EXCEPT !.pc = "wander"])
  /\ UNCHANGED <<blocks_free_committed, trans, atom, node, working, commit,
                 delete_mutex, commit_mutex>>

(* The transaction is committed and written back: dealloc_tx_list and      *)
(* dealloc_wmap add the log's blocks to the delete set.                    *)
write_tx_back(t) ==
  /\ At(t, "wander") /\ job[t].count = 0
  /\ atom' = [atom EXCEPT ![trans[t]].delete_set = @ \cup job[t].blk]
  /\ Goto(t, [NoJob EXCEPT !.pc = "free"])
  /\ UNCHANGED <<sb, blocks_free_committed, ctx, trans, node, working, commit,
                 delete_mutex, commit_mutex>>

(* reiser4_post_write_back_hook applies the delete set to the WORKING      *)
(* bitmap (apply_dset), a block at a time, and counts the block as free.   *)
apply_dset(t) ==
  /\ At(t, "free")
  /\ \E b \in atom[trans[t]].delete_set :
       /\ working' = working \ {b}
       /\ atom' = [atom EXCEPT ![trans[t]].delete_set = @ \ {b}]
  /\ Goto(t, [job[t] EXCEPT !.pc = "freed"])
  /\ UNCHANGED <<sb, blocks_free_committed, ctx, trans, node, commit,
                 delete_mutex, commit_mutex>>

used2free(t) ==
  /\ At(t, "freed")
  /\ sb' = Convert("used", "free", 1)
  /\ Goto(t, [job[t] EXCEPT !.pc = "free"])
  /\ UNCHANGED <<blocks_free_committed, ctx, trans, atom, node, working, commit,
                 delete_mutex, commit_mutex>>

(* put_overwrite_set; the atom is done and its handle closed.              *)
commit_done(t) ==
  LET a == trans[t] IN
  /\ At(t, "free") /\ atom[a].delete_set = {}
  /\ node' = [n \in Nodes |->
       IF node[n].atom = a THEN [node[n] EXCEPT !.state = "clean", !.atom = None] ELSE node[n]]
  /\ atom' = [atom EXCEPT ![a] = NoAtom]
  /\ trans' = [trans EXCEPT ![t] = None]
  /\ commit_mutex' = None
  /\ Goto(t, NoJob)
  /\ UNCHANGED <<sb, blocks_free_committed, ctx, working, commit, delete_mutex>>

-----------------------------------------------------------------------------
Grab(t) ==
  \/ \E c \in 1..MaxGrab :
       \/ \E for_delete \in BOOLEAN : reiser4_grab_space(t, c, for_delete)
       \/ grab_reserved_nested(t, c)
  \/ retry_grab(t) \/ take_delete_mutex(t) \/ reiser4_release_reserved(t)
  \/ all_grabbed2free(t)
  \/ \E mark \in 0..MaxGrab : grabbed2free_mark(t, mark)
  \/ grabbed2cluster_reserved(t) \/ cluster_reserved2grabbed(t)

Change(t) ==
  \E n \in Nodes, a \in Atoms :
    \/ assign_fake_blocknr(t, n, a) \/ do_jnode_make_dirty(t, n, a)
    \/ uncapture_node(t, n, a)
    \/ flush_created(t, n, a) \/ flush_relocated_znode(t, n, a)
    \/ flush_relocated_extent(t, n, a) \/ jnode_make_wander(t, n, a)

Place(t) ==
  \/ sa_alloc_blocks(t) \/ alloc_too_far(t) \/ alloc_blocks_done(t)
  \/ squeeze_target_full(t) \/ sa_dealloc_blocks(t) \/ dealloc_blocks_done(t)
  \/ dset_add_fails(t)

Commit(t) ==
  \/ \E a \in Atoms : pre_commit_hook(t, a)
  \/ get_overwrite_set(t) \/ grab_tx(t)
  \/ alloc_wandered_block(t) \/ wandered_block_done(t) \/ write_tx_back(t)
  \/ apply_dset(t) \/ used2free(t) \/ commit_done(t)

Fuse == \E small, large \in Atoms : capture_fuse_into(small, large)

Panicked == \E t \in Threads : job[t].pc = "panic"

Next ==
  /\ ~Panicked
  /\ Fuse \/ \E t \in Threads : Grab(t) \/ Change(t) \/ Place(t) \/ Commit(t)

Spec == Init /\ [][Next]_vars

-----------------------------------------------------------------------------
(* Properties                                                              *)

TypeOK ==
  /\ sb \in [Counters -> Int]
  /\ blocks_free_committed \in Int
  /\ ctx \in [Threads -> Contexts]
  /\ trans \in [Threads -> Atoms \cup {None}]
  /\ atom \in [Atoms -> AtomRecords]
  /\ node \in [Nodes -> NodeRecords]
  /\ working \subseteq Blocks
  /\ commit \subseteq Blocks
  /\ delete_mutex \in Threads \cup {None}
  /\ commit_mutex \in Threads \cup {None}
  /\ job \in [Threads -> Jobs]

(* "Their sum must be number of blocks on a device" (block_alloc.c:207),   *)
(* after every conversion: reiser4_check_block_counters.                   *)
Total(c) == c["free"] + c["used"] + c["grabbed"] + c["fake"] + c["fake_unformatted"]
              + c["flush_reserved"] + c["clustered"]
CountersAddUp == Total(sb) = Cardinality(Blocks)

(* No counter is overdrawn: the BUG_ON of sub_from_ctx_grabbed and the     *)
(* assertions of the other sub_from_ functions (block_alloc.c:146-219).    *)
NothingOverdrawn ==
  /\ \A c \in Counters : sb[c] >= 0
  /\ \A t \in Threads : ctx[t].grabbed >= 0
  /\ \A a \in Atoms : atom[a].flush_reserved >= 0

(* The grabbed blocks are those of the contexts, the flush reserved blocks *)
(* those of the atoms, and an atom has enough of them for its nodes that   *)
(* no flush is placing, whatever fuses and is deleted (zam-940).           *)
ReservationsAreOwned ==
  /\ sb["grabbed"] = MapThenSumSet(LAMBDA t : ctx[t].grabbed, Threads)
  /\ sb["flush_reserved"] = MapThenSumSet(LAMBDA a : atom[a].flush_reserved, Atoms)
  /\ \A a \in Atoms :
       Cardinality({n \in NodesOf(a) : node[n].reserved /\ ~Locked(n)})
         <= atom[a].flush_reserved

(* A fake allocated block is counted for every node without a place on     *)
(* disk; one is missing while an allocation is taken back.                 *)
FakeBlocksAreCounted ==
  \A c \in {"fake", "fake_unformatted"} :
    sb[c] + Cardinality({t \in Threads : job[t].pc \in {"unmap", "unmapped"} /\ job[t].stage = c})
      = Cardinality({n \in Nodes : node[n].state = "fake" /\ fake_counter(n) = c})

(* A thread that has a reserved block in hand finds a free bit, although   *)
(* other threads are between the bitmap and the counters: the allocation   *)
(* of reserved space does not fail (zam-821, vs-420).                      *)
AllocationSucceeds ==
  \A t \in Threads :
    At(t, "alloc") \/ (At(t, "wander") /\ job[t].count > 0) => working # Blocks

(* Every used block has one owner, which is a node, a delete set or the    *)
(* log being written: nothing is leaked, allocated twice or freed twice.   *)
Owned ==
  [o \in Nodes \cup Atoms \cup Threads |->
     IF o \in Nodes THEN node[o].blk
     ELSE IF o \in Atoms THEN atom[o].delete_set ELSE job[o].blk]
EveryBlockHasOneOwner ==
  /\ working = UNION {Owned[o] : o \in DOMAIN Owned}
  /\ \A o, p \in DOMAIN Owned : o # p => Owned[o] \cap Owned[p] = {}

(* A block of the committed tree is not free for allocation, until the     *)
(* commit that frees it has been written back (BA_DEFER); and a node that  *)
(* is overwritten, clean or not yet flushed is in its committed place.     *)
CommittedBlocksAreKept ==
  /\ commit \subseteq working
  /\ \A n \in Nodes : node[n].state \in {"clean", "dirty", "ovrwr"} => node[n].blk \subseteq commit

(* The number of free blocks that a commit logs in the super block is that *)
(* of the COMMIT bitmap it logs (bitmap.c:1463-1471, wander.c:1203).       *)
FreeCommittedMatches == blocks_free_committed = Cardinality(Blocks) - Cardinality(commit)
=============================================================================
