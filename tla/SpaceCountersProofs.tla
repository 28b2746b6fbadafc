------------------------ MODULE SpaceCountersProofs ------------------------
(***************************************************************************)
(* The block counters of SpaceAccounting always sum up to the size of the  *)
(* device.  Every action moves blocks with Convert, except for the three   *)
(* that move two lots at once.                                             *)
(***************************************************************************)
EXTENDS SpaceAccountingProofs

LEMMA ConvertKeepsTotal ==
  ASSUME TypeOK, NEW from \in Counters, NEW to \in Counters \ {from}, NEW count \in Int
  PROVE  Total(Convert(from, to, count)) = Total(sb)
  <1>1. \A c \in Counters : sb[c] \in Int
    BY DEF TypeOK
  <1>2. ASSUME NEW c \in Counters
        PROVE  Convert(from, to, count)[c] = IF c = from THEN sb[c] - count
                                             ELSE IF c = to THEN sb[c] + count ELSE sb[c]
    BY <1>1 DEF TypeOK, Convert
  <1> QED
    BY <1>1, <1>2 DEF Total, Counters

LEMMA GrabKeepsTotal ==
  ASSUME TypeInv, NEW t \in Threads, Grab(t)
  PROVE  Total(sb') = Total(sb)
  <1> USE CountersType DEF TypeInv
  <1>1. job[t].count \in Nat /\ ctx[t].grabbed \in Int
    BY JobFields, CtxFields DEF TypeOK
  <1>2. ASSUME NEW c \in Nat, reiser4_grab(t, c)
        PROVE  Total(sb') = Total(sb)
    BY <1>2, ConvertKeepsTotal DEF reiser4_grab
  <1>3. ASSUME NEW c \in 1..MaxGrab, NEW for_delete \in BOOLEAN,
               reiser4_grab_space(t, c, for_delete) \/ grab_reserved_nested(t, c)
        PROVE  Total(sb') = Total(sb)
    <2>1. c \in Nat
      BY SizesAssumption
    <2> QED
      BY <1>2, <1>3, <2>1 DEF reiser4_grab_space, grab_reserved_nested
  <1>4. CASE retry_grab(t) \/ take_delete_mutex(t)
    BY <1>1, <1>2, <1>4 DEF retry_grab, take_delete_mutex
  <1>5. CASE reiser4_release_reserved(t)
    BY <1>5 DEF reiser4_release_reserved
  <1>6. CASE all_grabbed2free(t)
    BY <1>1, <1>6, ConvertKeepsTotal DEF all_grabbed2free
  <1>7. ASSUME NEW mark \in 0..MaxGrab, grabbed2free_mark(t, mark)
        PROVE  Total(sb') = Total(sb)
    <2>1. ctx[t].grabbed - mark \in Int
      BY <1>1, SizesAssumption
    <2> QED
      BY <1>7, <2>1, ConvertKeepsTotal DEF grabbed2free_mark
  <1>8. CASE grabbed2cluster_reserved(t)
    BY <1>8, ConvertKeepsTotal DEF grabbed2cluster_reserved
  <1>9. CASE cluster_reserved2grabbed(t)
    BY <1>9, ConvertKeepsTotal DEF cluster_reserved2grabbed
  <1> QED
    BY <1>3, <1>4, <1>5, <1>6, <1>7, <1>8, <1>9 DEF Grab

LEMMA ChangeKeepsTotal ==
  ASSUME TypeInv, NEW t \in Threads, Change(t)
  PROVE  Total(sb') = Total(sb)
  <1> USE CountersType DEF TypeInv
  <1>1. PICK n \in Nodes, a \in Atoms :
          \/ assign_fake_blocknr(t, n, a) \/ do_jnode_make_dirty(t, n, a)
          \/ uncapture_node(t, n, a)
          \/ flush_created(t, n, a) \/ flush_relocated_znode(t, n, a)
          \/ flush_relocated_extent(t, n, a) \/ jnode_make_wander(t, n, a)
    BY DEF Change
  <1>2. CASE assign_fake_blocknr(t, n, a)
    BY <1>2, ConvertKeepsTotal DEF assign_fake_blocknr
  <1>3. CASE do_jnode_make_dirty(t, n, a)
    BY <1>3, ConvertKeepsTotal DEF do_jnode_make_dirty
  <1>4. CASE uncapture_node(t, n, a)
    <2>1. \/ sb' = sb
          \/ sb' = Convert(fake_counter(n), "free", 1)
          \/ sb' = Convert("flush_reserved", "grabbed", 1)
      BY <1>4 DEF uncapture_node
    <2> QED
      BY <2>1, ConvertKeepsTotal
  <1>5. CASE flush_relocated_znode(t, n, a)
    BY <1>5, ConvertKeepsTotal DEF flush_relocated_znode
  <1>6. CASE flush_created(t, n, a) \/ flush_relocated_extent(t, n, a) \/ jnode_make_wander(t, n, a)
    BY <1>6 DEF flush_created, flush_relocated_extent, jnode_make_wander
  <1> QED
    BY <1>1, <1>2, <1>3, <1>4, <1>5, <1>6

LEMMA PlaceKeepsTotal ==
  ASSUME TypeInv, NEW t \in Threads, Place(t)
  PROVE  Total(sb') = Total(sb)
  <1> USE CountersType DEF TypeInv
  <1>1. job[t].stage \in Counters \ {"used"}
    BY JobFields DEF TypeOK
  <1>2. CASE sa_alloc_blocks(t) \/ sa_dealloc_blocks(t)
    BY <1>2 DEF sa_alloc_blocks, sa_dealloc_blocks
  <1>3. CASE alloc_too_far(t)
    BY <1>3, ConvertKeepsTotal DEF alloc_too_far, GetReservationBack
  <1>4. CASE alloc_blocks_done(t) \/ squeeze_target_full(t)
    BY <1>1, <1>4, ConvertKeepsTotal DEF alloc_blocks_done, squeeze_target_full, UseBlock
  <1>5. CASE dealloc_blocks_done(t)
    BY <1>1, <1>5, ConvertKeepsTotal DEF dealloc_blocks_done
  <1>6. CASE dset_add_fails(t)
    BY <1>6 DEF dset_add_fails, TypeOK, Total, Counters
  <1> QED
    BY <1>2, <1>3, <1>4, <1>5, <1>6 DEF Place

LEMMA CommitKeepsTotal ==
  ASSUME TypeInv, NEW t \in Threads, Commit(t)
  PROVE  Total(sb') = Total(sb)
  <1> USE CountersType DEF TypeInv
  <1>1. CASE get_overwrite_set(t)
    <2>1. trans[t] \in Atoms
      BY <1>1 DEF get_overwrite_set, At, AtWork, Commits
    <2>2. atom[trans[t]].flush_reserved \in Int /\ job[t].count \in Int
      BY <2>1, AtomFields, JobFields DEF TypeOK
    <2>3. \/ sb' = sb
          \/ sb' = [sb EXCEPT !["free"] = @ - job[t].count,
                              !["flush_reserved"] = @ - atom[trans[t]].flush_reserved,
                              !["grabbed"] = @ + job[t].count + atom[trans[t]].flush_reserved]
      BY <1>1 DEF get_overwrite_set, Panic
    <2> QED
      BY <2>2, <2>3 DEF TypeOK, Total, Counters
  <1>2. CASE grab_tx(t)
    <2>1. sb' = sb \/ sb' = Convert("free", "grabbed", TxSize)
      BY <1>2 DEF grab_tx, Panic, reiser4_grab
    <2>2. TxSize \in Int
      BY SizesAssumption
    <2> QED
      BY <2>1, <2>2, ConvertKeepsTotal
  <1>3. CASE wandered_block_done(t)
    BY <1>3, ConvertKeepsTotal DEF wandered_block_done, UseBlock
  <1>4. CASE used2free(t)
    BY <1>4, ConvertKeepsTotal DEF used2free
  <1>5. CASE \/ \E a \in Atoms : pre_commit_hook(t, a)
             \/ alloc_wandered_block(t) \/ write_tx_back(t) \/ apply_dset(t) \/ commit_done(t)
    BY <1>5 DEF pre_commit_hook, alloc_wandered_block, write_tx_back, apply_dset, commit_done
  <1> QED
    BY <1>1, <1>2, <1>3, <1>4, <1>5 DEF Commit

LEMMA InitCountersAddUp == Init => CountersAddUp
  <1> SUFFICES ASSUME Init PROVE CountersAddUp
    OBVIOUS
  <1>1. working \in SUBSET Blocks
    BY InitTypeInv DEF TypeInv, TypeOK
  <1>2. Cardinality(working) \in Int /\ Cardinality(Blocks) \in Int
    BY <1>1, SizeType
  <1>3. /\ sb["used"] = Cardinality(working)
        /\ sb["free"] = Cardinality(Blocks) - Cardinality(working)
        /\ sb["grabbed"] = 0 /\ sb["fake"] = 0 /\ sb["fake_unformatted"] = 0
        /\ sb["flush_reserved"] = 0 /\ sb["clustered"] = 0
    BY DEF Init, Counters
  <1> QED
    BY <1>2, <1>3 DEF CountersAddUp, Total

(* Whatever threads grab, reserve, allocate, free, fuse and commit, and    *)
(* although a failing allocation moves a block twice, the counters of the  *)
(* super block sum up to the blocks of the device, the condition that      *)
(* reiser4_check_block_counters asserts (block_alloc.c:207).               *)
THEOREM CountersAlwaysAddUp == Spec => []CountersAddUp
  <1>1. TypeInv /\ CountersAddUp /\ [Next]_vars => CountersAddUp'
    <2> SUFFICES ASSUME TypeInv, CountersAddUp, [Next]_vars PROVE Total(sb') = Total(sb)
      BY DEF CountersAddUp
    <2>1. CASE UNCHANGED vars
      BY <2>1 DEF vars
    <2>2. CASE Fuse
      BY <2>2 DEF Fuse, capture_fuse_into
    <2>3. CASE \E t \in Threads : Grab(t) \/ Change(t) \/ Place(t) \/ Commit(t)
      BY <2>3, GrabKeepsTotal, ChangeKeepsTotal, PlaceKeepsTotal, CommitKeepsTotal
    <2> QED
      BY <2>1, <2>2, <2>3 DEF Next
  <1> QED
    BY <1>1, InitCountersAddUp, TypeCorrect, PTL DEF Spec
=============================================================================
