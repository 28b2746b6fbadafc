------------------------ MODULE SpaceAccountingProofs ------------------------
(***************************************************************************)
(* Proofs about SpaceAccounting, for any number of threads, atoms, nodes   *)
(* and blocks: the types of the variables, and the sum of the counters.    *)
(***************************************************************************)
EXTENDS SpaceAccounting, FiniteSetTheorems, TLAPS

-----------------------------------------------------------------------------
(* The values of the operators                                             *)

LEMMA SizeType ==
  ASSUME NEW S \in SUBSET Blocks
  PROVE  Cardinality(S) \in Nat
  BY BlocksAssumption, FS_Subset, FS_CardinalityType

LEMMA NodesSizeType ==
  ASSUME NEW S \in SUBSET Nodes
  PROVE  Cardinality(S) \in Nat
  BY NodesAssumption, FS_Subset, FS_CardinalityType

LEMMA NoJobType == NoJob \in Jobs
  BY DEF NoJob, Jobs, PCs, Counters

LEMMA NoNodeType == NoNode \in NodeRecords
  BY DEF NoNode, NodeRecords, NodeStates

LEMMA NoAtomType == NoAtom \in AtomRecords
  BY DEF NoAtom, AtomRecords

LEMMA ConvertType ==
  ASSUME TypeOK, NEW from \in Counters, NEW to \in Counters, NEW count \in Int
  PROVE  Convert(from, to, count) \in [Counters -> Int]
  BY DEF TypeOK, Convert

LEMMA CountersType ==
  /\ "free" \in Counters /\ "used" \in Counters /\ "grabbed" \in Counters
  /\ "flush_reserved" \in Counters /\ "clustered" \in Counters
  /\ \A n \in Nodes : fake_counter(n) \in Counters \ {"used", "free", "grabbed"}
  BY DEF Counters, fake_counter

LEMMA CtxFields ==
  ASSUME TypeOK, NEW t \in Threads
  PROVE  ctx[t].grabbed \in Int /\ ctx[t].enabled \in BOOLEAN
  BY DEF TypeOK, Contexts

LEMMA CtxType ==
  ASSUME TypeOK, NEW t \in Threads
  PROVE  /\ \A g \in Int, e \in BOOLEAN :
              [ctx EXCEPT ![t] = [grabbed |-> g, enabled |-> e]] \in [Threads -> Contexts]
         /\ \A g \in Int : [ctx EXCEPT ![t].grabbed = g] \in [Threads -> Contexts]
         /\ \A e \in BOOLEAN : [ctx EXCEPT ![t].enabled = e] \in [Threads -> Contexts]
         /\ \A g \in Int : AddGrabbed(t, g) \in [Threads -> Contexts]
         /\ \A g \in Int : SubGrabbed(t, g) \in [Threads -> Contexts]
  BY DEF TypeOK, Contexts, AddGrabbed, SubGrabbed

LEMMA JobFields ==
  ASSUME NEW j \in Jobs
  PROVE  /\ j.pc \in PCs /\ j.node \in Nodes \cup {None} /\ j.blk \in SUBSET Blocks
         /\ j.stage \in Counters \ {"used"} /\ j.count \in Nat /\ j.reserved \in BOOLEAN
  BY DEF Jobs

LEMMA AtomFields ==
  ASSUME NEW r \in AtomRecords
  PROVE  r.flush_reserved \in Int /\ r.nr_blocks_allocated \in Int /\ r.delete_set \in SUBSET Blocks
  BY DEF AtomRecords

LEMMA AtomType ==
  ASSUME TypeOK, NEW a \in Atoms
  PROVE  /\ \A r \in AtomRecords : [atom EXCEPT ![a] = r] \in [Atoms -> AtomRecords]
         /\ \A f \in Int : [atom EXCEPT ![a].flush_reserved = f] \in [Atoms -> AtomRecords]
         /\ \A d \in SUBSET Blocks : [atom EXCEPT ![a].delete_set = d] \in [Atoms -> AtomRecords]
         /\ \A d \in SUBSET Blocks, f \in Int :
              [atom EXCEPT ![a].delete_set = d, ![a].flush_reserved = f] \in [Atoms -> AtomRecords]
         /\ \A b, f \in Int :
              [atom EXCEPT ![a].nr_blocks_allocated = b, ![a].flush_reserved = f]
                \in [Atoms -> AtomRecords]
  BY DEF TypeOK, AtomRecords

LEMMA AtomWithBlockType ==
  ASSUME TypeOK, NEW a \in Atoms, NEW stage \in Counters
  PROVE  /\ AtomWithBlock(a, stage) \in AtomRecords
         /\ AtomWithBlock(a, stage).delete_set = atom[a].delete_set
  <1>1. atom[a] \in AtomRecords
    BY DEF TypeOK
  <1>2. atom[a].flush_reserved \in Int /\ atom[a].nr_blocks_allocated \in Int
    BY <1>1, AtomFields
  <1>3. \A f, b \in Int :
          /\ [atom[a] EXCEPT !.nr_blocks_allocated = b, !.flush_reserved = f] \in AtomRecords
          /\ [atom[a] EXCEPT !.nr_blocks_allocated = b, !.flush_reserved = f].delete_set
               = atom[a].delete_set
    BY <1>1 DEF AtomRecords
  <1> DEFINE b == atom[a].nr_blocks_allocated + 1
             f == IF stage = "flush_reserved" THEN atom[a].flush_reserved - 1
                                              ELSE atom[a].flush_reserved
  <1>4. b \in Int /\ f \in Int
    BY <1>2
  <1>5. AtomWithBlock(a, stage) = [atom[a] EXCEPT !.nr_blocks_allocated = b, !.flush_reserved = f]
    BY <1>1 DEF AtomWithBlock, AtomRecords
  <1> HIDE DEF b, f
  <1> QED
    BY <1>3, <1>4, <1>5

LEMMA NodeFields ==
  ASSUME NEW r \in NodeRecords
  PROVE  /\ r.state \in NodeStates /\ r.blk \in SUBSET Blocks
         /\ r.atom \in Atoms \cup {None} /\ r.reserved \in BOOLEAN
  BY DEF NodeRecords

-----------------------------------------------------------------------------
(* Types                                                                   *)

(* A thread that flushes has its node and its atom, one that commits has   *)
(* its atom: without this the atom's record it reads would have no type.   *)
Placing == {"alloc", "allocated", "unmap", "unmapped"}
Commits == {"overwrite", "txgrab", "wander", "wandered", "free", "freed"}
AtWork ==
  \A t \in Threads :
    /\ job[t].pc \in Placing => job[t].node \in Nodes
    /\ job[t].pc \in Placing \cup Commits => trans[t] \in Atoms

TypeInv == TypeOK /\ AtWork

LEMMA InitTypeInv == Init => TypeInv
  <1> SUFFICES ASSUME Init PROVE TypeInv
    OBVIOUS
  <1>1. working \in SUBSET Blocks
    BY DEF Init, NoNode, Clean
  <1>2. Cardinality(working) \in Int /\ Cardinality(Blocks) \in Int
    BY <1>1, SizeType
  <1>3. sb \in [Counters -> Int] /\ blocks_free_committed \in Int
    BY <1>2 DEF Init
  <1>4. \A b \in Blocks : Clean(b) \in NodeRecords
    BY DEF Clean, NodeRecords, NodeStates
  <1>5. node \in [Nodes -> NodeRecords]
    BY <1>4, NoNodeType DEF Init
  <1>6. atom \in [Atoms -> AtomRecords]
    BY NoAtomType DEF Init
  <1>7. ctx \in [Threads -> Contexts]
    BY DEF Init, Contexts
  <1>8. job \in [Threads -> Jobs]
    BY NoJobType DEF Init
  <1>9. TypeOK
    BY <1>1, <1>3, <1>5, <1>6, <1>7, <1>8 DEF Init, TypeOK
  <1>10. AtWork
    BY DEF Init, AtWork, NoJob, Placing, Commits
  <1> QED
    BY <1>9, <1>10 DEF TypeInv

(* The thread goes to a place where it has what it needs there.            *)
LEMMA GotoAtWork ==
  ASSUME TypeInv, NEW t \in Threads, NEW j \in Jobs, Goto(t, j),
         \A u \in Threads \ {t} : trans[u] \in Atoms => trans'[u] \in Atoms,
         j.pc \in Placing => j.node \in Nodes,
         j.pc \in Placing \cup Commits => trans'[t] \in Atoms
  PROVE  AtWork' /\ job' \in [Threads -> Jobs]
  BY DEF TypeInv, TypeOK, Goto, AtWork

LEMMA StayAtWork ==
  ASSUME TypeInv, job' = job,
         \A t \in Threads : trans[t] \in Atoms /\ ~Idle(t) => trans'[t] \in Atoms
  PROVE  AtWork' /\ job' \in [Threads -> Jobs]
  <1>1. \A t \in Threads : job[t].pc \in Placing \cup Commits => ~Idle(t)
    BY DEF Idle, Placing, Commits
  <1> QED
    BY <1>1 DEF TypeInv, TypeOK, AtWork

LEMMA NoJobIdle == NoJob.pc \notin Placing \cup Commits /\ NoJob.blk = {}
  BY DEF NoJob, Placing, Commits

LEMMA GrabStepType ==
  ASSUME TypeOK, NEW t \in Threads, NEW c \in Nat, reiser4_grab(t, c)
  PROVE  sb' \in [Counters -> Int] /\ ctx' \in [Threads -> Contexts]
  <1>1. sb' \in [Counters -> Int]
    BY ConvertType, CountersType DEF reiser4_grab
  <1>2. ctx' = [ctx EXCEPT ![t] = [grabbed |-> ctx[t].grabbed + c, enabled |-> FALSE]]
    BY DEF reiser4_grab, TypeOK
  <1>3. ctx[t].grabbed + c \in Int
    BY CtxFields
  <1> QED
    BY <1>1, <1>2, <1>3, CtxType

LEMMA GrabTypeInv ==
  ASSUME TypeInv, NEW t \in Threads, Grab(t)
  PROVE  TypeInv'
  <1> USE CountersType, NoJobType, NoJobIdle DEF TypeInv
  <1>0. job[t] \in Jobs /\ job[t].count \in Nat /\ ctx[t].grabbed \in Int
    BY JobFields, CtxFields DEF TypeOK
  <1>1. ASSUME NEW c \in 1..MaxGrab, NEW for_delete \in BOOLEAN,
               reiser4_grab_space(t, c, for_delete)
        PROVE  TypeInv'
    <2>0. c \in Nat
      BY SizesAssumption
    <2> DEFINE j == [NoJob EXCEPT !.pc = "retry", !.count = c, !.reserved = for_delete]
    <2>1. j \in Jobs /\ j.pc = "retry" /\ j.pc \notin Placing \cup Commits
      BY <2>0 DEF NoJob, Jobs, PCs, Counters, Placing, Commits
    <2> HIDE DEF j
    <2>2. sb' \in [Counters -> Int] /\ ctx' \in [Threads -> Contexts]
      BY <1>1, <2>0, GrabStepType DEF reiser4_grab_space, TypeOK
    <2>3. AtWork' /\ job' \in [Threads -> Jobs]
      <3>1. CASE UNCHANGED <<job, trans>>
        BY <3>1, StayAtWork
      <3>2. CASE Goto(t, j) /\ trans' = [trans EXCEPT ![t] = None]
        <4>1. \A u \in Threads \ {t} : trans'[u] = trans[u]
          BY <3>2 DEF TypeOK
        <4> QED
          BY <2>1, <3>2, <4>1, GotoAtWork
      <3> QED
        BY <1>1, <3>1, <3>2 DEF reiser4_grab_space, j
    <2> QED
      BY <1>1, <2>2, <2>3 DEF reiser4_grab_space, TypeOK
  <1>2. ASSUME NEW c \in 1..MaxGrab, grab_reserved_nested(t, c)
        PROVE  TypeInv'
    <2>0. c \in Nat
      BY SizesAssumption
    <2>1. sb' \in [Counters -> Int] /\ ctx' \in [Threads -> Contexts]
      BY <1>2, <2>0, GrabStepType DEF grab_reserved_nested, TypeOK
    <2>2. AtWork' /\ job' \in [Threads -> Jobs]
      BY <1>2, StayAtWork DEF grab_reserved_nested
    <2> QED
      BY <1>2, <2>1, <2>2 DEF grab_reserved_nested, TypeOK
  <1>3. CASE retry_grab(t)
    <2> DEFINE j == IF job[t].reserved /\ ~(delete_mutex = t)
                    THEN [job[t] EXCEPT !.pc = "mutex"] ELSE NoJob
    <2>1. j \in Jobs /\ j.pc \notin Placing \cup Commits
      BY <1>0 DEF Jobs, PCs, Placing, Commits
    <2>2. [ctx EXCEPT ![t].enabled = TRUE] \in [Threads -> Contexts]
      BY <1>0, CtxType
    <2>3. sb' \in [Counters -> Int] /\ ctx' \in [Threads -> Contexts]
      BY <1>0, <1>3, <2>2, GrabStepType DEF retry_grab, TypeOK
    <2>4. Goto(t, NoJob) \/ Goto(t, j)
      BY <1>3 DEF retry_grab
    <2>5. trans' = trans
      BY <1>3 DEF retry_grab
    <2> HIDE DEF j
    <2>6. AtWork' /\ job' \in [Threads -> Jobs]
      BY <2>1, <2>4, <2>5, GotoAtWork
    <2> QED
      BY <1>3, <2>3, <2>6 DEF retry_grab, TypeOK
  <1>4. CASE take_delete_mutex(t)
    <2>1. [job[t] EXCEPT !.pc = "retry"] \in Jobs
      BY <1>0 DEF Jobs, PCs
    <2>2. [job[t] EXCEPT !.pc = "retry"].pc \notin Placing \cup Commits
      BY <1>0 DEF Jobs, Placing, Commits
    <2>3. sb' \in [Counters -> Int] /\ ctx' \in [Threads -> Contexts]
      BY <1>0, <1>4, GrabStepType DEF take_delete_mutex, TypeOK
    <2>4. AtWork' /\ job' \in [Threads -> Jobs]
      BY <1>4, <2>1, <2>2, GotoAtWork DEF take_delete_mutex
    <2> QED
      BY <1>4, <2>3, <2>4 DEF take_delete_mutex, TypeOK
  <1>5. CASE reiser4_release_reserved(t)
    BY <1>5, StayAtWork DEF reiser4_release_reserved, TypeOK
  <1>6. CASE all_grabbed2free(t)
    <2>1. sb' \in [Counters -> Int] /\ ctx' \in [Threads -> Contexts]
      <3>1. sb' \in [Counters -> Int]
        BY <1>0, <1>6, ConvertType DEF all_grabbed2free
      <3>2. ctx' \in [Threads -> Contexts]
        BY <1>6 DEF all_grabbed2free, TypeOK, Contexts
      <3> QED
        BY <3>1, <3>2
    <2>2. AtWork' /\ job' \in [Threads -> Jobs]
      BY <1>6, StayAtWork DEF all_grabbed2free, TypeOK
    <2> QED
      BY <1>6, <2>1, <2>2 DEF all_grabbed2free, TypeOK
  <1>7. ASSUME NEW mark \in 0..MaxGrab, grabbed2free_mark(t, mark)
        PROVE  TypeInv'
    <2>1. mark \in Int /\ ctx[t].grabbed - mark \in Int
      BY <1>0, SizesAssumption
    <2>2. sb' \in [Counters -> Int] /\ ctx' \in [Threads -> Contexts]
      BY <1>7, <2>1, ConvertType, CtxType DEF grabbed2free_mark
    <2>3. AtWork' /\ job' \in [Threads -> Jobs]
      BY <1>7, StayAtWork DEF grabbed2free_mark
    <2> QED
      BY <1>7, <2>2, <2>3 DEF grabbed2free_mark, TypeOK
  <1>8. CASE grabbed2cluster_reserved(t)
    <2>1. sb' \in [Counters -> Int] /\ ctx' \in [Threads -> Contexts]
      <3>1. sb' \in [Counters -> Int]
        BY <1>8, ConvertType DEF grabbed2cluster_reserved
      <3>2. ctx' \in [Threads -> Contexts]
        BY <1>8, CtxType DEF grabbed2cluster_reserved
      <3> QED
        BY <3>1, <3>2
    <2>2. AtWork' /\ job' \in [Threads -> Jobs]
      BY <1>8, StayAtWork DEF grabbed2cluster_reserved
    <2> QED
      BY <1>8, <2>1, <2>2 DEF grabbed2cluster_reserved, TypeOK
  <1>9. CASE cluster_reserved2grabbed(t)
    <2>1. sb' \in [Counters -> Int] /\ ctx' \in [Threads -> Contexts]
      <3>1. sb' \in [Counters -> Int]
        BY <1>9, ConvertType DEF cluster_reserved2grabbed
      <3>2. ctx' \in [Threads -> Contexts]
        BY <1>9, CtxType DEF cluster_reserved2grabbed
      <3> QED
        BY <3>1, <3>2
    <2>2. AtWork' /\ job' \in [Threads -> Jobs]
      BY <1>9, StayAtWork DEF cluster_reserved2grabbed
    <2> QED
      BY <1>9, <2>1, <2>2 DEF cluster_reserved2grabbed, TypeOK
  <1> QED
    BY <1>1, <1>2, <1>3, <1>4, <1>5, <1>6, <1>7, <1>8, <1>9 DEF Grab

LEMMA NodeType ==
  ASSUME TypeOK, NEW n \in Nodes
  PROVE  /\ \A r \in NodeRecords : [node EXCEPT ![n] = r] \in [Nodes -> NodeRecords]
         /\ \A r \in BOOLEAN : [node EXCEPT ![n].reserved = r] \in [Nodes -> NodeRecords]
         /\ \A x \in NodeStates : [node EXCEPT ![n].state = x] \in [Nodes -> NodeRecords]
  BY DEF TypeOK, NodeRecords

LEMMA CapturesType ==
  ASSUME TypeInv, NEW t \in Threads, NEW n \in Nodes, NEW a \in Atoms, Captures(t, n, a)
  PROVE  /\ Idle(t)
         /\ trans' \in [Threads -> Atoms \cup {None}] /\ trans'[t] = a
         /\ \A u \in Threads \ {t} : trans'[u] = trans[u]
  BY DEF TypeInv, TypeOK, Captures

LEMMA ChangeTypeInv ==
  ASSUME TypeInv, NEW t \in Threads, Change(t)
  PROVE  TypeInv'
  <1> USE CountersType, NoJobType, NoJobIdle DEF TypeInv
  <1>a. PICK n \in Nodes, a \in Atoms :
          \/ assign_fake_blocknr(t, n, a) \/ do_jnode_make_dirty(t, n, a)
          \/ uncapture_node(t, n, a)
          \/ flush_created(t, n, a) \/ flush_relocated_znode(t, n, a)
          \/ flush_relocated_extent(t, n, a) \/ jnode_make_wander(t, n, a)
    BY DEF Change
  <1>b. Captures(t, n, a)
    BY <1>a DEF assign_fake_blocknr, do_jnode_make_dirty, uncapture_node, flush_created,
                flush_relocated_znode, flush_relocated_extent, jnode_make_wander
  <1>1. /\ trans' \in [Threads -> Atoms \cup {None}] /\ trans'[t] = a
        /\ \A u \in Threads \ {t} : trans'[u] = trans[u]
    BY <1>b, CapturesType
  <1>2. job' = job => AtWork' /\ job' \in [Threads -> Jobs]
    BY <1>1, <1>b, CapturesType, StayAtWork
  <1>3. /\ atom[a].flush_reserved \in Int /\ atom[a].delete_set \in SUBSET Blocks
        /\ node[n].blk \in SUBSET Blocks
    BY AtomFields, NodeFields DEF TypeOK
  <1>4. ASSUME NEW stage \in Counters \ {"used"}, Goto(t, Alloc(n, stage))
        PROVE  AtWork' /\ job' \in [Threads -> Jobs]
    <2>1. Alloc(n, stage) \in Jobs /\ Alloc(n, stage).node = n
      BY DEF Alloc, NoJob, Jobs, PCs
    <2> QED
      BY <1>1, <1>4, <2>1, GotoAtWork
  <1>5. CASE assign_fake_blocknr(t, n, a)
    <2>1. sb' \in [Counters -> Int]
      BY <1>5, ConvertType DEF assign_fake_blocknr
    <2>2. ctx' \in [Threads -> Contexts]
      BY <1>5, CtxType DEF assign_fake_blocknr
    <2>3. [NoNode EXCEPT !.state = "fake", !.atom = a] \in NodeRecords
      BY DEF NoNode, NodeRecords, NodeStates
    <2>4. node' \in [Nodes -> NodeRecords]
      BY <1>5, <2>3, NodeType DEF assign_fake_blocknr
    <2> QED
      BY <1>1, <1>2, <1>5, <2>1, <2>2, <2>4 DEF assign_fake_blocknr, TypeOK
  <1>6. CASE do_jnode_make_dirty(t, n, a)
    <2>1. sb' \in [Counters -> Int]
      BY <1>6, ConvertType DEF do_jnode_make_dirty
    <2>2. ctx' \in [Threads -> Contexts]
      BY <1>6, CtxType DEF do_jnode_make_dirty
    <2> DEFINE r == [node[n] EXCEPT !.state = "dirty", !.atom = a, !.reserved = TRUE]
    <2>5. r \in NodeRecords
      BY DEF TypeOK, NodeRecords, NodeStates
    <2>6. node' = [node EXCEPT ![n] = r]
      BY <1>6 DEF do_jnode_make_dirty, TypeOK
    <2>3. node' \in [Nodes -> NodeRecords]
      BY <2>5, <2>6, NodeType
    <2>4. atom' \in [Atoms -> AtomRecords]
      BY <1>3, <1>6 DEF do_jnode_make_dirty, TypeOK, AtomRecords
    <2> QED
      BY <1>1, <1>2, <1>6, <2>1, <2>2, <2>3, <2>4 DEF do_jnode_make_dirty, TypeOK
  <1>7. CASE uncapture_node(t, n, a)
    <2>1. sb' \in [Counters -> Int]
      <3>1. Convert("flush_reserved", "grabbed", 1) \in [Counters -> Int]
        BY ConvertType
      <3>2. Convert(fake_counter(n), "free", 1) \in [Counters -> Int]
        BY ConvertType
      <3> QED
        BY <1>7, <3>1, <3>2 DEF uncapture_node, TypeOK
    <2>2. ctx' \in [Threads -> Contexts]
      BY <1>7, CtxType DEF uncapture_node, TypeOK
    <2>3. node' \in [Nodes -> NodeRecords]
      BY <1>7, NoNodeType, NodeType DEF uncapture_node
    <2>4. atom' \in [Atoms -> AtomRecords]
      BY <1>3, <1>7 DEF uncapture_node, TypeOK, AtomRecords
    <2> QED
      BY <1>1, <1>2, <1>7, <2>1, <2>2, <2>3, <2>4 DEF uncapture_node, TypeOK
  <1>8. CASE flush_created(t, n, a)
    BY <1>1, <1>4, <1>8 DEF flush_created, TypeOK
  <1>9. CASE flush_relocated_znode(t, n, a)
    <2>1. sb' \in [Counters -> Int]
      BY <1>9, ConvertType DEF flush_relocated_znode
    <2>2. ctx' \in [Threads -> Contexts]
      BY <1>9, CtxType DEF flush_relocated_znode
    <2>3. node' \in [Nodes -> NodeRecords]
      BY <1>9, NodeType DEF flush_relocated_znode
    <2>4. atom' \in [Atoms -> AtomRecords]
      BY <1>3, <1>9 DEF flush_relocated_znode, TypeOK, AtomRecords
    <2>5. AtWork' /\ job' \in [Threads -> Jobs]
      BY <1>4, <1>9 DEF flush_relocated_znode
    <2> QED
      BY <1>1, <1>9, <2>1, <2>2, <2>3, <2>4, <2>5 DEF flush_relocated_znode, TypeOK
  <1>10. CASE flush_relocated_extent(t, n, a)
    BY <1>1, <1>4, <1>10 DEF flush_relocated_extent, TypeOK
  <1>11. CASE jnode_make_wander(t, n, a)
    <2>1. node' \in [Nodes -> NodeRecords]
      BY <1>11 DEF jnode_make_wander, TypeOK, NodeRecords, NodeStates
    <2> QED
      BY <1>1, <1>2, <1>11, <2>1 DEF jnode_make_wander, TypeOK
  <1> QED
    BY <1>a, <1>5, <1>6, <1>7, <1>8, <1>9, <1>10, <1>11

LEMMA UseBlockType ==
  ASSUME TypeOK, NEW t \in Threads, NEW stage \in Counters, UseBlock(t, stage)
  PROVE  sb' \in [Counters -> Int] /\ ctx' \in [Threads -> Contexts]
  <1>1. sb' \in [Counters -> Int]
    BY ConvertType, CountersType DEF UseBlock
  <1>2. ctx' \in [Threads -> Contexts]
    BY CtxType DEF UseBlock, TypeOK
  <1> QED
    BY <1>1, <1>2

LEMMA PlaceTypeInv ==
  ASSUME TypeInv, NEW t \in Threads, Place(t)
  PROVE  TypeInv'
  <1> USE CountersType, NoJobType, NoJobIdle DEF TypeInv
  <1> DEFINE n == job[t].node
             a == trans[t]
  <1>1. job[t].pc \in Placing
    BY DEF Place, sa_alloc_blocks, alloc_too_far, alloc_blocks_done, squeeze_target_full,
           sa_dealloc_blocks, dealloc_blocks_done, dset_add_fails, At, Placing
  <1>2. /\ n \in Nodes /\ a \in Atoms /\ node[n] \in NodeRecords /\ atom[a] \in AtomRecords
        /\ job[t] \in Jobs /\ job[t].stage \in Counters /\ job[t].blk \in SUBSET Blocks
    BY <1>1, JobFields DEF AtWork, TypeOK
  <1>3. /\ atom[a].flush_reserved \in Int /\ atom[a].nr_blocks_allocated \in Int
        /\ atom[a].delete_set \in SUBSET Blocks /\ node[n].blk \in SUBSET Blocks
    BY <1>2, AtomFields, NodeFields
  <1>4. \A b \in SUBSET Blocks : \A pc \in Placing \cup {"panic"} :
          /\ [job[t] EXCEPT !.pc = pc, !.blk = b] \in Jobs
          /\ [job[t] EXCEPT !.pc = pc, !.blk = b].node = n
          /\ [job[t] EXCEPT !.pc = pc] \in Jobs
          /\ [job[t] EXCEPT !.pc = pc].node = n
    BY <1>2 DEF Jobs, Placing, PCs
  <1>5. ASSUME NEW j \in Jobs, Goto(t, j), trans' = trans, j = NoJob \/ j.node = n
        PROVE  AtWork' /\ job' \in [Threads -> Jobs]
    BY <1>2, <1>5, GotoAtWork
  <1>6. [atom EXCEPT ![a] = AtomWithBlock(a, job[t].stage)] \in [Atoms -> AtomRecords]
    BY <1>2, AtomWithBlockType, AtomType
  <1> HIDE DEF n, a
  <1>7. CASE sa_alloc_blocks(t)
    <2>1. PICK b \in Blocks : /\ working' = working \cup {b}
                              /\ Goto(t, [job[t] EXCEPT !.pc = "allocated", !.blk = {b}])
      BY <1>7 DEF sa_alloc_blocks
    <2>2. AtWork' /\ job' \in [Threads -> Jobs]
      BY <1>4, <1>5, <1>7, <2>1 DEF sa_alloc_blocks, Placing
    <2> QED
      BY <1>7, <2>1, <2>2 DEF sa_alloc_blocks, TypeOK
  <1>8. CASE alloc_too_far(t)
    <2>1. AtWork' /\ job' \in [Threads -> Jobs]
      BY <1>5, <1>8 DEF alloc_too_far
    <2>2. CASE job[t].stage = "grabbed"
      <3>1. sb' \in [Counters -> Int]
        BY <1>8, <2>2, ConvertType DEF alloc_too_far, GetReservationBack
      <3>2. ctx' \in [Threads -> Contexts]
        BY <1>8, <2>2, CtxType DEF alloc_too_far, GetReservationBack
      <3>3. node' \in [Nodes -> NodeRecords]
        BY <1>2, <1>8, <2>2, NodeType DEF alloc_too_far, GetReservationBack, n
      <3>4. atom' \in [Atoms -> AtomRecords]
        BY <1>2, <1>3, <1>8, <2>2 DEF alloc_too_far, a, TypeOK, AtomRecords
      <3> QED
        BY <1>8, <2>1, <3>1, <3>2, <3>3, <3>4 DEF alloc_too_far, TypeOK
    <2>3. CASE job[t].stage # "grabbed"
      BY <1>8, <2>1, <2>3 DEF alloc_too_far, TypeOK
    <2> QED
      BY <2>2, <2>3
  <1>9. CASE alloc_blocks_done(t)
    <2> DEFINE r == [AtomWithBlock(a, job[t].stage) EXCEPT !.delete_set = @ \cup node[n].blk]
               m == [state |-> "reloc", blk |-> job[t].blk, atom |-> a, reserved |-> FALSE]
    <2>1. r \in AtomRecords
      <3>1. AtomWithBlock(a, job[t].stage) \in AtomRecords
        BY <1>2, AtomWithBlockType
      <3> QED
        BY <1>3, <3>1 DEF AtomRecords
    <2>2. m \in NodeRecords
      BY <1>2 DEF NodeRecords, NodeStates
    <2>3. atom' = [atom EXCEPT ![a] = r] /\ node' = [node EXCEPT ![n] = m]
      BY <1>9 DEF alloc_blocks_done, a, n
    <2> HIDE DEF r, m
    <2>4. atom' \in [Atoms -> AtomRecords] /\ node' \in [Nodes -> NodeRecords]
      BY <1>2, <2>1, <2>2, <2>3, AtomType, NodeType
    <2>5. AtWork' /\ job' \in [Threads -> Jobs]
      BY <1>5, <1>9 DEF alloc_blocks_done
    <2> QED
      BY <1>2, <1>9, <2>4, <2>5, UseBlockType DEF alloc_blocks_done, TypeOK
  <1>10. CASE squeeze_target_full(t)
    <2>1. atom' \in [Atoms -> AtomRecords]
      BY <1>6, <1>10 DEF squeeze_target_full, a
    <2>2. AtWork' /\ job' \in [Threads -> Jobs]
      BY <1>4, <1>5, <1>10 DEF squeeze_target_full, Placing
    <2> QED
      BY <1>2, <1>10, <2>1, <2>2, UseBlockType DEF squeeze_target_full, TypeOK
  <1>11. CASE sa_dealloc_blocks(t)
    <2>1. AtWork' /\ job' \in [Threads -> Jobs]
      BY <1>4, <1>5, <1>11 DEF sa_dealloc_blocks, Placing
    <2> QED
      BY <1>11, <2>1 DEF sa_dealloc_blocks, TypeOK
  <1>12. CASE dealloc_blocks_done(t)
    <2>1. sb' \in [Counters -> Int]
      BY <1>2, <1>12, ConvertType DEF dealloc_blocks_done
    <2>2. atom' \in [Atoms -> AtomRecords]
      <3>1. CASE job[t].stage = "flush_reserved"
        BY <1>2, <1>3, <1>12, <3>1 DEF dealloc_blocks_done, TypeOK, AtomRecords, a
      <3>2. CASE job[t].stage # "flush_reserved"
        BY <1>2, <1>3, <1>12, <3>2 DEF dealloc_blocks_done, TypeOK, AtomRecords, a
      <3> QED
        BY <3>1, <3>2
    <2>3. AtWork' /\ job' \in [Threads -> Jobs]
      BY <1>5, <1>12 DEF dealloc_blocks_done
    <2> QED
      BY <1>12, <2>1, <2>2, <2>3 DEF dealloc_blocks_done, TypeOK
  <1>13. CASE dset_add_fails(t)
    <2>1. sb' \in [Counters -> Int]
      BY <1>13 DEF dset_add_fails, TypeOK
    <2>2. ctx' \in [Threads -> Contexts]
      BY <1>13, CtxType DEF dset_add_fails
    <2> DEFINE r == [AtomWithBlock(a, "grabbed") EXCEPT !.flush_reserved = @ + 1]
    <2>3. r \in AtomRecords
      <3>1. AtomWithBlock(a, "grabbed") \in AtomRecords
        BY <1>2, AtomWithBlockType
      <3> QED
        BY <3>1 DEF AtomRecords
    <2>4. atom' = [atom EXCEPT ![a] = r]
      BY <1>13 DEF dset_add_fails, a
    <2> HIDE DEF r
    <2>5. atom' \in [Atoms -> AtomRecords]
      BY <1>2, <2>3, <2>4, AtomType
    <2>6. node' \in [Nodes -> NodeRecords]
      BY <1>2, <1>13, NodeType DEF dset_add_fails, n
    <2>7. AtWork' /\ job' \in [Threads -> Jobs]
      BY <1>4, <1>5, <1>13 DEF dset_add_fails
    <2> QED
      BY <1>13, <2>1, <2>2, <2>5, <2>6, <2>7 DEF dset_add_fails, TypeOK
  <1> QED
    BY <1>7, <1>8, <1>9, <1>10, <1>11, <1>12, <1>13 DEF Place

LEMMA CommitTypeInv ==
  ASSUME TypeInv, NEW t \in Threads, Commit(t)
  PROVE  TypeInv'
  <1> USE CountersType, NoJobType, NoJobIdle DEF TypeInv
  <1>1. job[t] \in Jobs /\ job[t].count \in Nat /\ job[t].blk \in SUBSET Blocks
    BY JobFields DEF TypeOK
  <1>2. \A pc \in Commits \cup {"panic"} : pc \in PCs
    BY DEF Commits, PCs
  <1>a. ASSUME NEW pc \in Commits \cup {"panic"}
        PROVE  [job[t] EXCEPT !.pc = pc] \in Jobs /\ [job[t] EXCEPT !.pc = pc].pc = pc
    BY <1>1, <1>2 DEF Jobs
  <1>b. ASSUME NEW pc \in Commits, NEW c \in Nat
        PROVE  /\ [job[t] EXCEPT !.pc = pc, !.count = c] \in Jobs
               /\ [job[t] EXCEPT !.pc = pc, !.count = c].pc = pc
    BY <1>1, <1>2 DEF Jobs
  <1>c. ASSUME NEW pc \in Commits, NEW c \in Nat
        PROVE  /\ [NoJob EXCEPT !.pc = pc, !.count = c] \in Jobs
               /\ [NoJob EXCEPT !.pc = pc, !.count = c].pc = pc
    BY <1>2 DEF Jobs
  <1>3. \A pc \in Commits \cup {"panic"} : pc \notin Placing
    BY DEF Commits, Placing
  <1>4. /\ \A pc \in {"overwrite", "txgrab", "wander", "wandered", "free", "freed"} :
             pc \in Commits
        /\ \A pc \in Commits : job[t].pc = pc => trans[t] \in Atoms
    BY DEF Commits, AtWork
  <1>5. ASSUME NEW j \in Jobs, j.pc \in Commits \cup {"panic"}, Goto(t, j), trans' = trans,
               job[t].pc \in Commits
        PROVE  AtWork' /\ job' \in [Threads -> Jobs]
    BY <1>3, <1>4, <1>5, GotoAtWork
  <1>6. job[t].pc \in Commits =>
          /\ atom[trans[t]] \in AtomRecords /\ atom[trans[t]].flush_reserved \in Int
          /\ atom[trans[t]].delete_set \in SUBSET Blocks
    BY <1>4, AtomFields DEF TypeOK
  <1>7. \A S \in SUBSET Nodes : Cardinality(S) \in Nat
    BY NodesSizeType
  <1>8. ASSUME NEW a \in Atoms, pre_commit_hook(t, a)
        PROVE  TypeInv'
    <2>1. /\ commit' \in SUBSET Blocks
          /\ trans' \in [Threads -> Atoms \cup {None}] /\ trans'[t] = a
          /\ \A u \in Threads \ {t} : trans'[u] = trans[u]
      <3>1. RelocatedBlocks(a) \in SUBSET Blocks
        BY NodeFields DEF RelocatedBlocks, Relocated, NodesOf, TypeOK
      <3> QED
        BY <1>8, <3>1 DEF pre_commit_hook, TypeOK
    <2>2. blocks_free_committed' \in Int
      <3>1. atom[a].nr_blocks_allocated \in Int /\ Cardinality(atom[a].delete_set) \in Nat
        BY SizeType, AtomFields DEF TypeOK
      <3>2. blocks_free_committed' = blocks_free_committed
              + Cardinality(atom[a].delete_set) - atom[a].nr_blocks_allocated
        BY <1>8 DEF pre_commit_hook
      <3>3. blocks_free_committed \in Int
        BY DEF TypeOK
      <3> QED
        BY <3>1, <3>2, <3>3
    <2>3. node' \in [Nodes -> NodeRecords]
      <3>1. \A n \in Nodes : [node[n] EXCEPT !.state = "clean", !.atom = None] \in NodeRecords
        BY DEF TypeOK, NodeRecords, NodeStates
      <3> QED
        BY <1>8, <3>1 DEF pre_commit_hook, TypeOK
    <2> DEFINE c == IF Relocated(a) # {} \/ atom[a].delete_set # {} THEN NotLeaves ELSE 0
               j == [NoJob EXCEPT !.pc = "overwrite", !.count = c]
    <2>4. c \in Nat
      BY SizesAssumption
    <2>5. Goto(t, j)
      BY <1>8 DEF pre_commit_hook
    <2> HIDE DEF c
    <2>6. j \in Jobs /\ j.pc = "overwrite"
      BY <1>c, <1>4, <2>4
    <2> HIDE DEF j
    <2>7. AtWork' /\ job' \in [Threads -> Jobs]
      BY <1>3, <1>4, <2>1, <2>5, <2>6, GotoAtWork
    <2> QED
      BY <1>8, <2>1, <2>2, <2>3, <2>7 DEF pre_commit_hook, TypeOK
  <1>9. CASE get_overwrite_set(t)
    <2> DEFINE a == trans[t]
               size == job[t].count + Cardinality(Overwritten(a))
               pc == IF size = 0 THEN "free" ELSE "txgrab"
    <2>1. job[t].pc \in Commits /\ trans' = trans
      BY <1>4, <1>9 DEF get_overwrite_set, At
    <2>2. size \in Nat
      <3>1. Overwritten(a) \in SUBSET Nodes
        BY DEF Overwritten, NodesOf
      <3> QED
        BY <1>1, <1>7, <3>1
    <2>3. CASE Panic(t)
      <3>1. AtWork' /\ job' \in [Threads -> Jobs]
        BY <1>a, <1>5, <2>1, <2>3 DEF Panic
      <3> QED
        BY <1>9, <2>3, <3>1 DEF get_overwrite_set, Panic, TypeOK
    <2>4. CASE ~Panic(t)
      <3>1. /\ sb' = [sb EXCEPT !["free"] = @ - job[t].count,
                               !["flush_reserved"] = @ - atom[a].flush_reserved,
                               !["grabbed"] = @ + job[t].count + atom[a].flush_reserved]
            /\ ctx' = AddGrabbed(t, job[t].count + atom[a].flush_reserved)
            /\ atom' = [atom EXCEPT ![a].flush_reserved = 0]
            /\ node' = [n \in Nodes |->
                 IF node[n].atom = a THEN [node[n] EXCEPT !.reserved = FALSE] ELSE node[n]]
            /\ Goto(t, [job[t] EXCEPT !.pc = pc, !.count = size])
        BY <1>9, <2>4 DEF get_overwrite_set
      <3>2. sb' \in [Counters -> Int]
        BY <1>1, <1>6, <2>1, <3>1 DEF TypeOK
      <3>3. ctx' \in [Threads -> Contexts]
        <4>1. job[t].count + atom[a].flush_reserved \in Int
          BY <1>1, <1>6, <2>1
        <4> QED
          BY <3>1, <4>1, CtxType
      <3>4. atom' \in [Atoms -> AtomRecords]
        BY <1>4, <1>6, <2>1, <3>1 DEF TypeOK, AtomRecords
      <3>5. node' \in [Nodes -> NodeRecords]
        <4>1. \A n \in Nodes : [node[n] EXCEPT !.reserved = FALSE] \in NodeRecords
          BY DEF TypeOK, NodeRecords
        <4> QED
          BY <3>1, <4>1 DEF TypeOK
      <3>6. pc \in Commits
        BY <1>4
      <3> HIDE DEF pc, size
      <3>7. AtWork' /\ job' \in [Threads -> Jobs]
        BY <1>b, <1>5, <2>1, <2>2, <3>1, <3>6
      <3> QED
        BY <1>9, <3>2, <3>3, <3>4, <3>5, <3>7 DEF get_overwrite_set, TypeOK
    <2> QED
      BY <2>3, <2>4
  <1>10. CASE grab_tx(t)
    <2>1. job[t].pc \in Commits /\ trans' = trans
      BY <1>4, <1>10 DEF grab_tx, At
    <2>2. CASE Panic(t)
      <3>1. AtWork' /\ job' \in [Threads -> Jobs]
        BY <1>a, <1>5, <2>1, <2>2 DEF Panic
      <3> QED
        BY <1>10, <2>2, <3>1 DEF grab_tx, Panic, TypeOK
    <2>3. CASE ~Panic(t)
      <3>1. /\ reiser4_grab(t, TxSize)
            /\ Goto(t, [job[t] EXCEPT !.pc = "wander", !.count = job[t].count + TxSize])
            /\ UNCHANGED <<atom, node>>
        BY <1>1, <1>10, <2>3 DEF grab_tx, Jobs
      <3>2. job[t].count + TxSize \in Nat
        BY <1>1, SizesAssumption
      <3> DEFINE j == [job[t] EXCEPT !.pc = "wander", !.count = job[t].count + TxSize]
      <3>4. j \in Jobs /\ j.pc = "wander"
        BY <1>b, <1>4, <3>2
      <3>5. Goto(t, j)
        BY <3>1
      <3> HIDE DEF j
      <3>3. AtWork' /\ job' \in [Threads -> Jobs]
        BY <1>4, <1>5, <2>1, <3>4, <3>5
      <3> QED
        BY <1>10, <3>1, <3>3, SizesAssumption, GrabStepType DEF grab_tx, TypeOK
    <2> QED
      BY <2>2, <2>3
  <1>11. CASE alloc_wandered_block(t)
    <2>1. job[t].pc \in Commits /\ trans' = trans
      BY <1>4, <1>11 DEF alloc_wandered_block, At
    <2>2. PICK b \in Blocks :
            /\ working' = working \cup {b}
            /\ Goto(t, [job[t] EXCEPT !.pc = "wandered", !.blk = job[t].blk \cup {b},
                                      !.count = job[t].count - 1])
      BY <1>1, <1>11 DEF alloc_wandered_block, Jobs
    <2>3. job[t].count - 1 \in Nat /\ job[t].blk \cup {b} \in SUBSET Blocks
      BY <1>1, <1>11 DEF alloc_wandered_block
    <2> DEFINE j == [job[t] EXCEPT !.pc = "wandered", !.blk = job[t].blk \cup {b},
                                   !.count = job[t].count - 1]
    <2>5. j \in Jobs /\ j.pc = "wandered"
      BY <1>1, <2>3 DEF Jobs, PCs
    <2> HIDE DEF j
    <2>4. AtWork' /\ job' \in [Threads -> Jobs]
      BY <1>4, <1>5, <2>1, <2>2, <2>5 DEF j
    <2> QED
      BY <1>11, <2>2, <2>4 DEF alloc_wandered_block, TypeOK
  <1>12. CASE wandered_block_done(t)
    <2>1. job[t].pc \in Commits /\ trans' = trans
      BY <1>4, <1>12 DEF wandered_block_done, At
    <2>2. AtWork' /\ job' \in [Threads -> Jobs]
      BY <1>a, <1>4, <1>5, <1>12, <2>1 DEF wandered_block_done
    <2> QED
      BY <1>12, <2>2, UseBlockType DEF wandered_block_done, TypeOK
  <1>13. CASE write_tx_back(t)
    <2>1. job[t].pc \in Commits /\ trans' = trans
      BY <1>4, <1>13 DEF write_tx_back, At
    <2> DEFINE j == [NoJob EXCEPT !.pc = "free"]
    <2>4. j \in Jobs /\ j.pc = "free"
      BY DEF Jobs, PCs
    <2>5. Goto(t, j)
      BY <1>13 DEF write_tx_back
    <2> HIDE DEF j
    <2>2. AtWork' /\ job' \in [Threads -> Jobs]
      BY <1>4, <1>5, <2>1, <2>4, <2>5
    <2>3. atom' \in [Atoms -> AtomRecords]
      BY <1>1, <1>4, <1>13, <2>1 DEF write_tx_back, TypeOK, AtomRecords
    <2> QED
      BY <1>13, <2>2, <2>3 DEF write_tx_back, TypeOK
  <1>14. CASE apply_dset(t)
    <2>1. job[t].pc \in Commits /\ trans' = trans
      BY <1>4, <1>14 DEF apply_dset, At
    <2>2. AtWork' /\ job' \in [Threads -> Jobs]
      BY <1>a, <1>4, <1>5, <1>14, <2>1 DEF apply_dset
    <2>3. PICK b : /\ working' = working \ {b}
                   /\ atom' = [atom EXCEPT ![trans[t]].delete_set = @ \ {b}]
      BY <1>14 DEF apply_dset
    <2>4. atom' \in [Atoms -> AtomRecords]
      BY <1>4, <2>1, <2>3 DEF TypeOK, AtomRecords
    <2> QED
      BY <1>14, <2>2, <2>3, <2>4 DEF apply_dset, TypeOK
  <1>15. CASE used2free(t)
    <2>1. job[t].pc \in Commits /\ trans' = trans
      BY <1>4, <1>15 DEF used2free, At
    <2>2. AtWork' /\ job' \in [Threads -> Jobs]
      BY <1>a, <1>4, <1>5, <1>15, <2>1 DEF used2free
    <2> QED
      <3>1. sb' \in [Counters -> Int]
        BY <1>15, ConvertType DEF used2free
      <3> QED
        BY <1>15, <2>2, <3>1 DEF used2free, TypeOK
  <1>16. CASE commit_done(t)
    <2>1. job[t].pc \in Commits
      BY <1>4, <1>16 DEF commit_done, At
    <2>2. AtWork' /\ job' \in [Threads -> Jobs]
      BY <1>16, GotoAtWork DEF commit_done, TypeOK
    <2>3. atom' \in [Atoms -> AtomRecords]
      BY <1>4, <1>16, <2>1, NoAtomType, AtomType DEF commit_done
    <2>4. node' \in [Nodes -> NodeRecords]
      <3>1. \A n \in Nodes : [node[n] EXCEPT !.state = "clean", !.atom = None] \in NodeRecords
        BY DEF TypeOK, NodeRecords, NodeStates
      <3> QED
        BY <1>16, <3>1 DEF commit_done, TypeOK
    <2> QED
      BY <1>16, <2>2, <2>3, <2>4 DEF commit_done, TypeOK
  <1> QED
    BY <1>8, <1>9, <1>10, <1>11, <1>12, <1>13, <1>14, <1>15, <1>16 DEF Commit

LEMMA FuseTypeInv ==
  ASSUME TypeInv, Fuse
  PROVE  TypeInv'
  <1> USE DEF TypeInv
  <1>1. PICK small \in Atoms, large \in Atoms : capture_fuse_into(small, large)
    BY DEF Fuse
  <1>2. trans' \in [Threads -> Atoms \cup {None}] /\ AtWork' /\ job' \in [Threads -> Jobs]
    BY <1>1 DEF capture_fuse_into, TypeOK, AtWork
  <1>3. node' \in [Nodes -> NodeRecords]
    <2>1. \A n \in Nodes : [node[n] EXCEPT !.atom = large] \in NodeRecords
      BY DEF TypeOK, NodeRecords
    <2> QED
      BY <1>1, <2>1 DEF capture_fuse_into, TypeOK
  <1>4. atom' \in [Atoms -> AtomRecords]
    BY <1>1, NoAtomType DEF capture_fuse_into, TypeOK, AtomRecords
  <1> QED
    BY <1>1, <1>2, <1>3, <1>4 DEF capture_fuse_into, TypeOK

(* Every variable keeps its type, and a thread that flushes or commits has *)
(* the node and the atom that the code dereferences (block_alloc.c,        *)
(* wander.c): TypeInv is inductive.                                        *)
THEOREM TypeCorrect == Spec => []TypeInv
  <1>1. TypeInv /\ [Next]_vars => TypeInv'
    <2> SUFFICES ASSUME TypeInv, [Next]_vars PROVE TypeInv'
      OBVIOUS
    <2>1. CASE UNCHANGED vars
      BY <2>1 DEF vars, TypeInv, TypeOK, AtWork
    <2>2. CASE Next
      BY <2>2, GrabTypeInv, ChangeTypeInv, PlaceTypeInv, CommitTypeInv, FuseTypeInv DEF Next
    <2> QED
      BY <2>1, <2>2
  <1> QED
    BY <1>1, InitTypeInv, PTL DEF Spec

(* The type invariant alone.                                               *)
THEOREM TypesHold == Spec => []TypeOK
  <1>1. TypeInv => TypeOK
    BY DEF TypeInv
  <1> QED
    BY <1>1, TypeCorrect, PTL
=============================================================================
