------------------------ MODULE SpaceOwnershipProofs ------------------------
(***************************************************************************)
(* Every used block of SpaceAccounting has exactly one owner, and the      *)
(* blocks of the committed tree are never given away.                      *)
(***************************************************************************)
EXTENDS SpaceAccountingProofs

-----------------------------------------------------------------------------
(* Owners that divide a set of blocks among themselves.                    *)

Divided(F, D, W) ==
  /\ \A b \in W : \E o \in D : b \in F[o]
  /\ \A o \in D : F[o] \subseteq W
  /\ \A o, p \in D : o # p => F[o] \cap F[p] = {}

(* A block M changes hands.                                                *)
LEMMA MoveKeepsDivided ==
  ASSUME NEW F, NEW G, NEW D, NEW W, NEW o \in D, NEW p \in D, o # p,
         NEW M, M \subseteq F[o], Divided(F, D, W),
         G[o] = F[o] \ M, G[p] = F[p] \cup M,
         \A q \in D \ {o, p} : G[q] = F[q]
  PROVE  Divided(G, D, W)
  <1>1. (\A b \in W : \E q \in D : b \in G[q]) /\ (\A q \in D : G[q] \subseteq W)
    BY DEF Divided
  <1>2. \A q, r \in D : q # r => G[q] \cap G[r] = {}
    BY DEF Divided
  <1> QED
    BY <1>1, <1>2 DEF Divided

LEMMA GrowKeepsDivided ==
  ASSUME NEW F, NEW G, NEW D, NEW W, NEW o \in D, NEW b, b \notin W, Divided(F, D, W),
         G[o] = F[o] \cup {b}, \A q \in D \ {o} : G[q] = F[q]
  PROVE  Divided(G, D, W \cup {b})
  BY DEF Divided

LEMMA ShrinkKeepsDivided ==
  ASSUME NEW F, NEW G, NEW D, NEW W, NEW o \in D, NEW M, M \subseteq F[o], Divided(F, D, W),
         G[o] = F[o] \ M, \A q \in D \ {o} : G[q] = F[q]
  PROVE  Divided(G, D, W \ M)
  BY DEF Divided

LEMMA SameKeepsDivided ==
  ASSUME NEW F, NEW G, NEW D, NEW W, Divided(F, D, W), \A q \in D : G[q] = F[q]
  PROVE  Divided(G, D, W)
  BY DEF Divided

-----------------------------------------------------------------------------
(* One owner                                                               *)

Owners == Nodes \cup Atoms \cup Threads

LEMMA OwnedIs ==
  /\ DOMAIN Owned = Owners
  /\ \A n \in Nodes : Owned[n] = node[n].blk
  /\ \A a \in Atoms : Owned[a] = atom[a].delete_set
  /\ \A t \in Threads : Owned[t] = job[t].blk
  BY OwnersAssumption DEF Owned, Owners

LEMMA OwnedIsNext ==
  /\ (DOMAIN Owned)' = Owners
  /\ \A n \in Nodes : Owned'[n] = node'[n].blk
  /\ \A a \in Atoms : Owned'[a] = atom'[a].delete_set
  /\ \A t \in Threads : Owned'[t] = job'[t].blk
  BY OwnersAssumption DEF Owned, Owners

LEMMA OneOwnerMeansDivided == EveryBlockHasOneOwner <=> Divided(Owned, Owners, working)
  BY OwnedIs DEF EveryBlockHasOneOwner, Divided

(* Blocks are in the hands of a thread only between the bitmap and the end *)
(* of the call; a node that is not on disk has no block.                   *)
Held == {"allocated", "unmap", "wander", "wandered", "panic"}
EmptyHands ==
  /\ \A t \in Threads : job[t].pc \notin Held => job[t].blk = {}
  /\ \A n \in Nodes : node[n].state \in {"none", "fake"} => node[n].blk = {}

OwnInv == Divided(Owned, Owners, working) /\ EmptyHands

LEMMA NothingMoves ==
  ASSUME OwnInv, working' = working,
         \A n \in Nodes : node'[n].blk = node[n].blk,
         \A a \in Atoms : atom'[a].delete_set = atom[a].delete_set,
         \A t \in Threads : job'[t].blk = job[t].blk
  PROVE  Divided(Owned', Owners, working')
  <1>1. \A o \in Owners : Owned'[o] = Owned[o]
    BY OwnedIs, OwnedIsNext DEF Owners
  <1> QED
    BY <1>1, SameKeepsDivided DEF OwnInv

LEMMA GotoOwns ==
  ASSUME TypeInv, NEW t \in Threads, NEW j \in Jobs, Goto(t, j)
  PROVE  job'[t] = j /\ \A u \in Threads \ {t} : job'[u] = job[u]
  BY DEF TypeInv, TypeOK, Goto

(* A thread that goes elsewhere with the same blocks in hand.              *)
LEMMA GotoEmptyHanded ==
  ASSUME TypeInv, OwnInv, NEW t \in Threads, NEW j \in Jobs, Goto(t, j),
         j.blk = {}, job[t].blk = {}, node' = node, atom' = atom, working' = working
  PROVE  OwnInv'
  <1>1. job'[t] = j /\ \A u \in Threads \ {t} : job'[u] = job[u]
    BY GotoOwns
  <1>2. \A u \in Threads : job'[u].blk = job[u].blk
    BY <1>1
  <1>3. EmptyHands'
    BY <1>1 DEF OwnInv, EmptyHands
  <1> QED
    BY <1>2, <1>3, NothingMoves DEF OwnInv

LEMMA GrabOwnInv ==
  ASSUME TypeInv, OwnInv, NEW t \in Threads, Grab(t)
  PROVE  OwnInv'
  <1> USE NoJobType, NoJobIdle
  <1>1. job[t] \in Jobs /\ \A pc \in {"idle", "retry", "mutex"} : At(t, pc) => job[t].blk = {}
    BY DEF TypeInv, TypeOK, OwnInv, EmptyHands, Held, At
  <1>2. working' = working /\ node' = node /\ atom' = atom
    BY DEF Grab, reiser4_grab_space, grab_reserved_nested, retry_grab, take_delete_mutex,
           reiser4_release_reserved, all_grabbed2free, grabbed2free_mark,
           grabbed2cluster_reserved, cluster_reserved2grabbed
  <1>3. ASSUME job' = job PROVE OwnInv'
    BY <1>2, <1>3, NothingMoves DEF OwnInv, EmptyHands
  <1>4. ASSUME NEW c \in 1..MaxGrab, NEW for_delete \in BOOLEAN,
               reiser4_grab_space(t, c, for_delete)
        PROVE  OwnInv'
    <2> DEFINE j == [NoJob EXCEPT !.pc = "retry", !.count = c, !.reserved = for_delete]
    <2>0. c \in Nat
      BY SizesAssumption
    <2>1. j \in Jobs /\ j.blk = {}
      BY <2>0 DEF NoJob, Jobs, PCs, Counters
    <2>2. job' = job \/ Goto(t, j)
      BY <1>4 DEF reiser4_grab_space
    <2> HIDE DEF j
    <2>3. job[t].blk = {}
      BY <1>1, <1>4 DEF reiser4_grab_space, Idle, At
    <2> QED
      BY <1>2, <1>3, <2>1, <2>2, <2>3, GotoEmptyHanded
  <1>5. CASE retry_grab(t) \/ take_delete_mutex(t)
    <2>1. job[t].blk = {}
      BY <1>1, <1>5 DEF retry_grab, take_delete_mutex
    <2>2. \A pc \in {"mutex", "retry"} :
            [job[t] EXCEPT !.pc = pc] \in Jobs /\ [job[t] EXCEPT !.pc = pc].blk = {}
      BY <1>1, <2>1 DEF Jobs, PCs
    <2>3. \/ Goto(t, NoJob) \/ Goto(t, [job[t] EXCEPT !.pc = "mutex"])
          \/ Goto(t, [job[t] EXCEPT !.pc = "retry"])
      BY <1>5 DEF retry_grab, take_delete_mutex
    <2> QED
      BY <1>2, <2>1, <2>2, <2>3, GotoEmptyHanded
  <1>6. CASE \/ \E c \in 1..MaxGrab : grab_reserved_nested(t, c)
             \/ reiser4_release_reserved(t) \/ all_grabbed2free(t)
             \/ \E mark \in 0..MaxGrab : grabbed2free_mark(t, mark)
             \/ grabbed2cluster_reserved(t) \/ cluster_reserved2grabbed(t)
    BY <1>3, <1>6 DEF grab_reserved_nested, reiser4_release_reserved, all_grabbed2free,
                      grabbed2free_mark, grabbed2cluster_reserved, cluster_reserved2grabbed
  <1> QED
    BY <1>4, <1>5, <1>6 DEF Grab

(* The block of a node goes to the delete set of an atom.                  *)
LEMMA ToDeleteSet ==
  ASSUME TypeInv, OwnInv, NEW n \in Nodes, NEW a \in Atoms, working' = working, job' = job,
         node'[n].blk = {}, \A m \in Nodes \ {n} : node'[m].blk = node[m].blk,
         atom'[a].delete_set = atom[a].delete_set \cup node[n].blk,
         \A c \in Atoms \ {a} : atom'[c].delete_set = atom[c].delete_set
  PROVE  Divided(Owned', Owners, working')
  <1>1. n \in Owners /\ a \in Owners /\ n # a
    BY OwnersAssumption DEF Owners
  <1>2. Owned'[n] = Owned[n] \ node[n].blk /\ Owned'[a] = Owned[a] \cup node[n].blk
    BY OwnedIs, OwnedIsNext
  <1>3. \A q \in Owners \ {n, a} : Owned'[q] = Owned[q]
    BY OwnedIs, OwnedIsNext DEF Owners
  <1>4. node[n].blk \subseteq Owned[n]
    BY OwnedIs
  <1> QED
    BY <1>1, <1>2, <1>3, <1>4, MoveKeepsDivided DEF OwnInv

LEMMA ChangeOwnInv ==
  ASSUME TypeInv, OwnInv, NEW t \in Threads, Change(t)
  PROVE  OwnInv'
  <1> USE DEF TypeInv
  <1>1. PICK n \in Nodes, a \in Atoms :
          \/ assign_fake_blocknr(t, n, a) \/ do_jnode_make_dirty(t, n, a)
          \/ uncapture_node(t, n, a)
          \/ flush_created(t, n, a) \/ flush_relocated_znode(t, n, a)
          \/ flush_relocated_extent(t, n, a) \/ jnode_make_wander(t, n, a)
    BY DEF Change
  <1>2. Captures(t, n, a) /\ working' = working
    BY <1>1 DEF assign_fake_blocknr, do_jnode_make_dirty, uncapture_node, flush_created,
                flush_relocated_znode, flush_relocated_extent, jnode_make_wander
  <1>3. node[n] \in NodeRecords /\ job[t].blk = {}
    BY <1>2 DEF TypeOK, Captures, Idle, OwnInv, EmptyHands, Held
  <1>4. ASSUME NEW stage \in Counters, Goto(t, Alloc(n, stage))
        PROVE  /\ \A u \in Threads : job'[u].blk = job[u].blk
               /\ \A u \in Threads : job'[u].pc \notin Held => job'[u].blk = {}
    <2>1. job'[t] = Alloc(n, stage) /\ \A u \in Threads \ {t} : job'[u] = job[u]
      BY <1>4 DEF TypeOK, Goto
    <2>2. Alloc(n, stage).blk = {}
      BY DEF Alloc, NoJob
    <2> QED
      BY <1>3, <2>1, <2>2 DEF OwnInv, EmptyHands
  <1>5. CASE assign_fake_blocknr(t, n, a)
    <2>1. /\ node[n].blk = {} /\ node'[n].blk = {}
          /\ \A m \in Nodes \ {n} : node'[m] = node[m]
      BY <1>5 DEF assign_fake_blocknr, OwnInv, EmptyHands, TypeOK, NoNode
    <2>2. EmptyHands'
      BY <1>5, <2>1 DEF assign_fake_blocknr, OwnInv, EmptyHands
    <2>3. \A m \in Nodes : node'[m].blk = node[m].blk
      BY <2>1
    <2>4. atom' = atom /\ job' = job
      BY <1>5 DEF assign_fake_blocknr
    <2> QED
      BY <1>2, <2>2, <2>3, <2>4, NothingMoves DEF OwnInv
  <1>6. CASE do_jnode_make_dirty(t, n, a)
    <2>1. /\ node'[n].blk = node[n].blk /\ node'[n].state = "dirty"
          /\ \A m \in Nodes \ {n} : node'[m] = node[m]
      BY <1>3, <1>6 DEF do_jnode_make_dirty, TypeOK, NodeRecords
    <2>2. EmptyHands'
      BY <1>6, <2>1 DEF do_jnode_make_dirty, OwnInv, EmptyHands
    <2>3. \A c \in Atoms : atom'[c].delete_set = atom[c].delete_set
      BY <1>6 DEF do_jnode_make_dirty, TypeOK, AtomRecords
    <2>4. \A m \in Nodes : node'[m].blk = node[m].blk
      BY <2>1
    <2>5. job' = job
      BY <1>6 DEF do_jnode_make_dirty
    <2> QED
      BY <1>2, <2>2, <2>3, <2>4, <2>5, NothingMoves DEF OwnInv
  <1>7. CASE uncapture_node(t, n, a)
    <2>1. /\ node'[n] = NoNode /\ \A m \in Nodes \ {n} : node'[m] = node[m]
          /\ NoNode.blk = {} /\ job' = job
      BY <1>7 DEF uncapture_node, TypeOK, NoNode
    <2>2. EmptyHands'
      BY <2>1 DEF OwnInv, EmptyHands
    <2>3. CASE node[n].state = "fake"
      <3>1. node[n].blk = {} /\ atom' = atom
        BY <1>7, <2>3 DEF uncapture_node, OwnInv, EmptyHands
      <3>2. \A m \in Nodes : node'[m].blk = node[m].blk
        BY <2>1, <3>1
      <3> QED
        BY <1>2, <2>1, <2>2, <3>1, <3>2, NothingMoves DEF OwnInv
    <2>4. CASE node[n].state # "fake"
      <3>1. /\ atom'[a].delete_set = atom[a].delete_set \cup node[n].blk
            /\ \A c \in Atoms \ {a} : atom'[c].delete_set = atom[c].delete_set
        BY <1>7, <2>4 DEF uncapture_node, TypeOK, AtomRecords
      <3> QED
        BY <1>2, <2>1, <2>2, <3>1, ToDeleteSet DEF OwnInv
    <2> QED
      BY <2>3, <2>4
  <1>8. CASE flush_created(t, n, a) \/ flush_relocated_extent(t, n, a)
    <2>1. node' = node /\ atom' = atom
      BY <1>8 DEF flush_created, flush_relocated_extent
    <2>2. \E stage \in Counters : Goto(t, Alloc(n, stage))
      BY <1>8, CountersType DEF flush_created, flush_relocated_extent
    <2> QED
      BY <1>2, <1>4, <2>1, <2>2, NothingMoves DEF OwnInv, EmptyHands
  <1>9. CASE flush_relocated_znode(t, n, a)
    <2>1. /\ node'[n].blk = node[n].blk /\ node'[n].state = node[n].state
          /\ \A m \in Nodes \ {n} : node'[m] = node[m]
      BY <1>3, <1>9 DEF flush_relocated_znode, TypeOK, NodeRecords
    <2>2. \A c \in Atoms : atom'[c].delete_set = atom[c].delete_set
      BY <1>9 DEF flush_relocated_znode, TypeOK, AtomRecords
    <2>3. Goto(t, Alloc(n, "grabbed"))
      BY <1>9 DEF flush_relocated_znode
    <2>4. EmptyHands'
      BY <1>4, <2>1, <2>3, CountersType DEF OwnInv, EmptyHands
    <2>5. \A m \in Nodes : node'[m].blk = node[m].blk
      BY <2>1
    <2> QED
      BY <1>2, <1>4, <2>2, <2>3, <2>4, <2>5, NothingMoves, CountersType DEF OwnInv
  <1>10. CASE jnode_make_wander(t, n, a)
    <2>1. /\ node'[n].blk = node[n].blk /\ node'[n].state = "ovrwr"
          /\ \A m \in Nodes \ {n} : node'[m] = node[m]
      BY <1>3, <1>10 DEF jnode_make_wander, TypeOK, NodeRecords
    <2>2. EmptyHands'
      BY <1>10, <2>1 DEF jnode_make_wander, OwnInv, EmptyHands
    <2>3. \A m \in Nodes : node'[m].blk = node[m].blk
      BY <2>1
    <2>4. atom' = atom /\ job' = job
      BY <1>10 DEF jnode_make_wander
    <2> QED
      BY <1>2, <2>2, <2>3, <2>4, NothingMoves DEF OwnInv
  <1> QED
    BY <1>1, <1>5, <1>6, <1>7, <1>8, <1>9, <1>10

LEMMA PlaceOwnInv ==
  ASSUME TypeInv, OwnInv, NEW t \in Threads, Place(t)
  PROVE  OwnInv'
  <1> USE NoJobType, NoJobIdle DEF TypeInv
  <1> DEFINE n == job[t].node
             a == trans[t]
  <1>1. job[t].pc \in Placing
    BY DEF Place, sa_alloc_blocks, alloc_too_far, alloc_blocks_done, squeeze_target_full,
           sa_dealloc_blocks, dealloc_blocks_done, dset_add_fails, At, Placing
  <1>2. /\ n \in Nodes /\ a \in Atoms /\ job[t] \in Jobs
        /\ node[n] \in NodeRecords /\ atom[a] \in AtomRecords /\ job[t].stage \in Counters
    BY <1>1, JobFields DEF AtWork, TypeOK
  <1>3. t \in Owners /\ n \in Owners /\ a \in Owners /\ t # n /\ t # a /\ n # a
    BY <1>2, OwnersAssumption DEF Owners
  <1> HIDE DEF n, a
  <1>4. CASE sa_alloc_blocks(t)
    <2>1. PICK b \in Blocks \ working :
            /\ working' = working \cup {b}
            /\ Goto(t, [job[t] EXCEPT !.pc = "allocated", !.blk = {b}])
      BY <1>4 DEF sa_alloc_blocks
    <2>2. /\ job'[t].blk = {b} /\ job'[t].pc = "allocated" /\ job[t].blk = {}
          /\ \A u \in Threads \ {t} : job'[u] = job[u]
      BY <1>2, <1>4, <2>1 DEF sa_alloc_blocks, At, Goto, TypeOK, Jobs, OwnInv, EmptyHands, Held
    <2>3. node' = node /\ atom' = atom
      BY <1>4 DEF sa_alloc_blocks
    <2>4. Owned'[t] = Owned[t] \cup {b} /\ \A q \in Owners \ {t} : Owned'[q] = Owned[q]
      BY <2>2, <2>3, OwnedIs, OwnedIsNext DEF Owners
    <2>5. Divided(Owned', Owners, working')
      BY <1>3, <2>1, <2>4, GrowKeepsDivided DEF OwnInv
    <2> QED
      BY <2>2, <2>3, <2>5 DEF OwnInv, EmptyHands, Held
  <1>5. CASE alloc_too_far(t)
    <2>1. /\ job'[t] = NoJob /\ job[t].blk = {} /\ \A u \in Threads \ {t} : job'[u] = job[u]
      BY <1>5, GotoOwns DEF alloc_too_far, At, OwnInv, EmptyHands, Held
    <2>2. \A m \in Nodes : node'[m].blk = node[m].blk /\ node'[m].state = node[m].state
      BY <1>2, <1>5 DEF alloc_too_far, GetReservationBack, TypeOK, NodeRecords, n
    <2>3. \A c \in Atoms : atom'[c].delete_set = atom[c].delete_set
      BY <1>2, <1>5 DEF alloc_too_far, TypeOK, AtomRecords, a
    <2>4. working' = working
      BY <1>5 DEF alloc_too_far
    <2>5. \A u \in Threads : job'[u].blk = job[u].blk
      BY <2>1
    <2>6. EmptyHands'
      BY <2>1, <2>2 DEF OwnInv, EmptyHands
    <2> QED
      BY <2>2, <2>3, <2>4, <2>5, <2>6, NothingMoves DEF OwnInv
  <1>6. CASE alloc_blocks_done(t)
    <2>1. job'[t] = NoJob /\ \A u \in Threads \ {t} : job'[u] = job[u]
      BY <1>6, GotoOwns DEF alloc_blocks_done
    <2>2. /\ node'[n].blk = job[t].blk /\ node'[n].state = "reloc"
          /\ \A m \in Nodes \ {n} : node'[m] = node[m]
      BY <1>2, <1>6 DEF alloc_blocks_done, TypeOK, n
    <2>3. /\ atom'[a].delete_set = atom[a].delete_set \cup node[n].blk
          /\ \A c \in Atoms \ {a} : atom'[c] = atom[c]
      <3> DEFINE r == AtomWithBlock(a, job[t].stage)
      <3>1. r \in AtomRecords /\ r.delete_set = atom[a].delete_set
        BY <1>2, AtomWithBlockType
      <3>2. atom' = [atom EXCEPT ![a] = [r EXCEPT !.delete_set = @ \cup node[n].blk]]
        BY <1>6 DEF alloc_blocks_done, a, n
      <3> HIDE DEF r
      <3> QED
        BY <1>2, <3>1, <3>2 DEF TypeOK, AtomRecords
    <2>4. working' = working
      BY <1>6 DEF alloc_blocks_done
    (* First the node gives its old block away, then it gets the new one.   *)
    <2> DEFINE F == [o \in Owners |-> IF o = n THEN {}
                                      ELSE IF o = a THEN Owned[a] \cup Owned[n] ELSE Owned[o]]
    <2>5. Divided(F, Owners, working)
      <3>1. F[n] = Owned[n] \ Owned[n] /\ F[a] = Owned[a] \cup Owned[n]
        BY <1>3
      <3>2. \A q \in Owners \ {n, a} : F[q] = Owned[q]
        OBVIOUS
      <3> HIDE DEF F
      <3> QED
        BY <1>3, <3>1, <3>2, MoveKeepsDivided DEF OwnInv
    <2>6. F[t] = job[t].blk /\ F[n] = {} /\ F[a] = atom[a].delete_set \cup node[n].blk
      BY <1>2, <1>3, OwnedIs
    <2>7. \A q \in Owners \ {t, n} : Owned'[q] = F[q]
      <3>1. Owned'[a] = F[a]
        BY <1>2, <2>3, <2>6, OwnedIsNext
      <3>2. \A q \in Owners \ {t, n, a} : F[q] = Owned[q]
        OBVIOUS
      <3> HIDE DEF F
      <3>3. \A q \in Owners \ {t, n, a} : Owned'[q] = Owned[q]
        BY <2>1, <2>2, <2>3, OwnedIs, OwnedIsNext DEF Owners
      <3> QED
        BY <3>1, <3>2, <3>3
    <2>8. Owned'[t] = F[t] \ job[t].blk /\ Owned'[n] = F[n] \cup job[t].blk
      BY <1>2, <2>1, <2>2, <2>6, OwnedIsNext
    <2> HIDE DEF F
    <2>9. Divided(Owned', Owners, working)
      BY <1>3, <2>5, <2>6, <2>7, <2>8, MoveKeepsDivided
    <2>10. EmptyHands'
      BY <2>1, <2>2 DEF OwnInv, EmptyHands
    <2> QED
      BY <2>4, <2>9, <2>10 DEF OwnInv
  <1>7. CASE squeeze_target_full(t) \/ dset_add_fails(t)
    <2>1. \A pc \in {"unmap", "panic"} : /\ [job[t] EXCEPT !.pc = pc] \in Jobs
                                         /\ [job[t] EXCEPT !.pc = pc].pc = pc
                                         /\ [job[t] EXCEPT !.pc = pc].blk = job[t].blk
      BY <1>2 DEF Jobs, PCs
    <2>2. \/ Goto(t, [job[t] EXCEPT !.pc = "unmap"])
          \/ Goto(t, [job[t] EXCEPT !.pc = "panic"])
      BY <1>7 DEF squeeze_target_full, dset_add_fails
    <2>3. /\ job'[t].blk = job[t].blk /\ job'[t].pc \in Held
          /\ \A u \in Threads \ {t} : job'[u] = job[u]
      BY <2>1, <2>2, GotoOwns DEF Held
    <2>4. \A m \in Nodes : node'[m].blk = node[m].blk /\ node'[m].state = node[m].state
      BY <1>2, <1>7 DEF squeeze_target_full, dset_add_fails, TypeOK, NodeRecords, n
    <2>5. \A c \in Atoms : atom'[c].delete_set = atom[c].delete_set
      <3>1. ASSUME NEW stage \in Counters
            PROVE  /\ AtomWithBlock(a, stage) \in AtomRecords
                   /\ AtomWithBlock(a, stage).delete_set = atom[a].delete_set
        BY <1>2, AtomWithBlockType
      <3>2. CASE squeeze_target_full(t)
        BY <1>2, <3>1, <3>2 DEF squeeze_target_full, TypeOK, a
      <3>3. CASE dset_add_fails(t)
        <4> DEFINE r == AtomWithBlock(a, "grabbed")
        <4>1. r \in AtomRecords /\ r.delete_set = atom[a].delete_set
          BY <3>1, CountersType
        <4>2. atom' = [atom EXCEPT ![a] = [r EXCEPT !.flush_reserved = @ + 1]]
          BY <3>3 DEF dset_add_fails, a
        <4> HIDE DEF r
        <4> QED
          BY <1>2, <4>1, <4>2 DEF TypeOK, AtomRecords
      <3> QED
        BY <1>7, <3>2, <3>3
    <2>6. working' = working
      BY <1>7 DEF squeeze_target_full, dset_add_fails
    <2>7. \A u \in Threads : job'[u].blk = job[u].blk
      BY <2>3
    <2>8. EmptyHands'
      BY <2>3, <2>4 DEF OwnInv, EmptyHands
    <2> QED
      BY <2>4, <2>5, <2>6, <2>7, <2>8, NothingMoves DEF OwnInv
  <1>8. CASE sa_dealloc_blocks(t)
    <2>1. job'[t].blk = {} /\ \A u \in Threads \ {t} : job'[u] = job[u]
      BY <1>2, <1>8 DEF sa_dealloc_blocks, Goto, TypeOK, Jobs
    <2>2. node' = node /\ atom' = atom /\ working' = working \ job[t].blk
      BY <1>8 DEF sa_dealloc_blocks
    <2>3. /\ Owned'[t] = Owned[t] \ job[t].blk /\ job[t].blk \subseteq Owned[t]
          /\ \A q \in Owners \ {t} : Owned'[q] = Owned[q]
      BY <2>1, <2>2, OwnedIs, OwnedIsNext DEF Owners
    <2>4. Divided(Owned', Owners, working')
      BY <1>3, <2>2, <2>3, ShrinkKeepsDivided DEF OwnInv
    <2> QED
      BY <2>1, <2>2, <2>4 DEF OwnInv, EmptyHands
  <1>9. CASE dealloc_blocks_done(t)
    <2>1. /\ job'[t] = NoJob /\ job[t].blk = {} /\ \A u \in Threads \ {t} : job'[u] = job[u]
      BY <1>9, GotoOwns DEF dealloc_blocks_done, At, OwnInv, EmptyHands, Held
    <2>2. \A c \in Atoms : atom'[c].delete_set = atom[c].delete_set
      BY <1>2, <1>9 DEF dealloc_blocks_done, TypeOK, AtomRecords, a
    <2>3. node' = node /\ working' = working
      BY <1>9 DEF dealloc_blocks_done
    <2>4. \A u \in Threads : job'[u].blk = job[u].blk
      BY <2>1
    <2>5. EmptyHands'
      BY <2>1, <2>3 DEF OwnInv, EmptyHands
    <2> QED
      BY <2>2, <2>3, <2>4, <2>5, NothingMoves DEF OwnInv
  <1> QED
    BY <1>4, <1>5, <1>6, <1>7, <1>8, <1>9 DEF Place

LEMMA CommitOwnInv ==
  ASSUME TypeInv, OwnInv, NEW t \in Threads, Commit(t)
  PROVE  OwnInv'
  <1> USE NoJobType, NoJobIdle DEF TypeInv
  <1>1. job[t] \in Jobs /\ t \in Owners
    BY DEF TypeOK, Owners
  <1>2. \A pc \in {"overwrite", "txgrab", "free", "freed", "idle"} :
          job[t].pc = pc => job[t].blk = {}
    BY DEF OwnInv, EmptyHands, Held
  <1>3. \A pc \in Commits : job[t].pc = pc => trans[t] \in Atoms
    BY DEF AtWork
  (* The steps that change neither blocks nor delete sets nor the bitmap.   *)
  <1>4. ASSUME NEW j, Goto(t, j), j.blk = job[t].blk,
               j.pc \in Held \/ j.blk = {}, working' = working,
               \A n \in Nodes : node'[n].blk = node[n].blk
                                  /\ (node'[n].state = node[n].state \/ node'[n].state = "clean"),
               \A c \in Atoms : atom'[c].delete_set = atom[c].delete_set
        PROVE  OwnInv'
    <2>1. job'[t] = j /\ \A u \in Threads \ {t} : job'[u] = job[u]
      BY <1>4 DEF TypeOK, Goto
    <2>2. \A u \in Threads : job'[u].blk = job[u].blk
      BY <1>4, <2>1
    <2>3. EmptyHands'
      BY <1>4, <2>1 DEF OwnInv, EmptyHands
    <2> QED
      BY <1>4, <2>2, <2>3, NothingMoves DEF OwnInv
  <1>5. ASSUME NEW a \in Atoms, pre_commit_hook(t, a)
        PROVE  OwnInv'
    <2> DEFINE c == IF Relocated(a) # {} \/ atom[a].delete_set # {} THEN NotLeaves ELSE 0
               j == [NoJob EXCEPT !.pc = "overwrite", !.count = c]
    <2>1. Goto(t, j) /\ working' = working /\ atom' = atom /\ job[t].blk = {}
      BY <1>2, <1>5 DEF pre_commit_hook, Idle
    <2> HIDE DEF c
    <2>2. j.blk = {}
      BY DEF NoJob
    <2> HIDE DEF j
    <2>3. \A n \in Nodes : /\ node'[n].blk = node[n].blk
                           /\ node'[n].state = node[n].state \/ node'[n].state = "clean"
      BY <1>5 DEF pre_commit_hook, TypeOK, NodeRecords
    <2> QED
      BY <1>4, <2>1, <2>2, <2>3
  <1>a. ASSUME Panic(t), working' = working, job[t].blk = {}
        PROVE  OwnInv'
    <2> DEFINE j == [job[t] EXCEPT !.pc = "panic"]
    <2>1. j.blk = job[t].blk
      BY <1>1 DEF Jobs
    <2>2. Goto(t, j) /\ node' = node /\ atom' = atom
      BY <1>a DEF Panic
    <2> HIDE DEF j
    <2> QED
      BY <1>4, <1>a, <2>1, <2>2
  <1>6. CASE get_overwrite_set(t)
    <2>1. working' = working /\ job[t].blk = {}
      BY <1>2, <1>6 DEF get_overwrite_set, At
    <2>2. CASE ~Panic(t)
      <3> DEFINE a == trans[t]
                 size == job[t].count + Cardinality(Overwritten(a))
                 pc == IF size = 0 THEN "free" ELSE "txgrab"
                 j == [job[t] EXCEPT !.pc = pc, !.count = size]
      <3>1. /\ atom' = [atom EXCEPT ![a].flush_reserved = 0]
            /\ node' = [n \in Nodes |->
                 IF node[n].atom = a THEN [node[n] EXCEPT !.reserved = FALSE] ELSE node[n]]
            /\ Goto(t, j)
        BY <1>6, <2>2 DEF get_overwrite_set
      <3> HIDE DEF a, size, pc
      <3>2. j.blk = job[t].blk
        BY <1>1 DEF Jobs
      <3> HIDE DEF j
      <3>3. \A n \in Nodes : node'[n].blk = node[n].blk /\ node'[n].state = node[n].state
        BY <3>1 DEF TypeOK, NodeRecords
      <3>4. \A c \in Atoms : atom'[c].delete_set = atom[c].delete_set
        BY <3>1 DEF TypeOK, AtomRecords
      <3> QED
        BY <1>4, <2>1, <3>1, <3>2, <3>3, <3>4
    <2> QED
      BY <1>a, <2>1, <2>2
  <1>7. CASE grab_tx(t)
    <2>1. working' = working /\ node' = node /\ atom' = atom /\ job[t].blk = {}
      BY <1>2, <1>7 DEF grab_tx, Panic, At
    <2>2. CASE ~Panic(t)
      <3> DEFINE j == [job[t] EXCEPT !.pc = "wander", !.count = job[t].count + TxSize]
      <3>1. Goto(t, j)
        BY <1>1, <1>7, <2>2 DEF grab_tx, Jobs
      <3>2. j.blk = job[t].blk
        BY <1>1 DEF Jobs
      <3> HIDE DEF j
      <3> QED
        BY <1>4, <2>1, <3>1, <3>2
    <2> QED
      BY <1>a, <2>1, <2>2
  <1>8. CASE alloc_wandered_block(t)
    <2>1. PICK b \in Blocks \ working :
            /\ working' = working \cup {b}
            /\ Goto(t, [job[t] EXCEPT !.pc = "wandered", !.blk = job[t].blk \cup {b},
                                      !.count = job[t].count - 1])
      BY <1>1, <1>8 DEF alloc_wandered_block, Jobs
    <2>2. /\ job'[t].blk = job[t].blk \cup {b} /\ job'[t].pc = "wandered"
          /\ \A u \in Threads \ {t} : job'[u] = job[u]
      BY <1>1, <2>1 DEF TypeOK, Goto, Jobs
    <2>3. node' = node /\ atom' = atom
      BY <1>8 DEF alloc_wandered_block
    <2>4. Owned'[t] = Owned[t] \cup {b} /\ \A q \in Owners \ {t} : Owned'[q] = Owned[q]
      BY <2>2, <2>3, OwnedIs, OwnedIsNext DEF Owners
    <2>5. Divided(Owned', Owners, working')
      BY <1>1, <2>1, <2>4, GrowKeepsDivided DEF OwnInv
    <2> QED
      BY <2>2, <2>3, <2>5 DEF OwnInv, EmptyHands, Held
  <1>9. CASE wandered_block_done(t)
    <2>1. working' = working /\ node' = node /\ atom' = atom
      BY <1>9 DEF wandered_block_done
    <2> DEFINE j == [job[t] EXCEPT !.pc = "wander"]
    <2>2. j.blk = job[t].blk /\ j.pc \in Held
      BY <1>1 DEF Jobs, Held
    <2>3. Goto(t, j)
      BY <1>9 DEF wandered_block_done
    <2> HIDE DEF j
    <2> QED
      BY <1>4, <2>1, <2>2, <2>3
  <1>10. CASE write_tx_back(t)
    <2> DEFINE a == trans[t]
    <2>1. a \in Atoms /\ a \in Owners /\ a # t
      BY <1>3, <1>10, OwnersAssumption DEF write_tx_back, At, Commits, Owners
    <2>2. /\ job'[t].blk = {} /\ \A u \in Threads \ {t} : job'[u] = job[u]
      BY <1>10 DEF write_tx_back, Goto, TypeOK, NoJob
    <2>3. /\ atom'[a].delete_set = atom[a].delete_set \cup job[t].blk
          /\ \A c \in Atoms \ {a} : atom'[c] = atom[c]
      BY <1>10, <2>1 DEF write_tx_back, TypeOK, AtomRecords
    <2>4. node' = node /\ working' = working
      BY <1>10 DEF write_tx_back
    <2> HIDE DEF a
    <2>5. Owned'[t] = Owned[t] \ job[t].blk /\ Owned'[a] = Owned[a] \cup job[t].blk
      BY <2>1, <2>2, <2>3, OwnedIs, OwnedIsNext
    <2>6. \A q \in Owners \ {t, a} : Owned'[q] = Owned[q]
      BY <2>2, <2>3, <2>4, OwnedIs, OwnedIsNext DEF Owners
    <2>7. job[t].blk \subseteq Owned[t]
      BY OwnedIs
    <2>8. Divided(Owned', Owners, working')
      BY <1>1, <2>1, <2>4, <2>5, <2>6, <2>7, MoveKeepsDivided DEF OwnInv
    <2> QED
      BY <2>2, <2>4, <2>8 DEF OwnInv, EmptyHands
  <1>11. CASE apply_dset(t)
    <2> DEFINE a == trans[t]
    <2>1. a \in Atoms /\ a \in Owners /\ job[t].blk = {}
      BY <1>2, <1>3, <1>11 DEF apply_dset, At, Commits, Owners
    <2>2. PICK b \in atom[a].delete_set :
            working' = working \ {b} /\ atom' = [atom EXCEPT ![a].delete_set = @ \ {b}]
      BY <1>11 DEF apply_dset
    <2>3. /\ job'[t].blk = {} /\ \A u \in Threads \ {t} : job'[u] = job[u]
      BY <1>1, <1>11, <2>1 DEF apply_dset, Goto, TypeOK, Jobs
    <2>4. /\ atom'[a].delete_set = atom[a].delete_set \ {b}
          /\ \A c \in Atoms \ {a} : atom'[c] = atom[c]
      BY <2>1, <2>2 DEF TypeOK, AtomRecords
    <2>5. node' = node
      BY <1>11 DEF apply_dset
    <2> HIDE DEF a
    <2>6. Owned'[a] = Owned[a] \ {b} /\ {b} \subseteq Owned[a]
      BY <2>1, <2>2, <2>4, OwnedIs, OwnedIsNext
    <2>7. \A q \in Owners \ {a} : Owned'[q] = Owned[q]
      <3>1. \A u \in Threads : job'[u].blk = job[u].blk
        BY <2>1, <2>3
      <3> QED
        BY <2>4, <2>5, <3>1, OwnedIs, OwnedIsNext DEF Owners
    <2>8. Divided(Owned', Owners, working \ {b})
      BY <2>1, <2>6, <2>7, ShrinkKeepsDivided DEF OwnInv
    <2> QED
      BY <2>2, <2>3, <2>5, <2>8 DEF OwnInv, EmptyHands
  <1>12. CASE used2free(t)
    <2>1. working' = working /\ node' = node /\ atom' = atom /\ job[t].blk = {}
      BY <1>2, <1>12 DEF used2free, At
    <2> DEFINE j == [job[t] EXCEPT !.pc = "free"]
    <2>2. j.blk = job[t].blk
      BY <1>1 DEF Jobs
    <2>3. Goto(t, j)
      BY <1>12 DEF used2free
    <2> HIDE DEF j
    <2> QED
      BY <1>4, <2>1, <2>2, <2>3
  <1>13. CASE commit_done(t)
    <2>1. working' = working /\ Goto(t, NoJob) /\ job[t].blk = {} /\ trans[t] \in Atoms
      BY <1>2, <1>3, <1>13 DEF commit_done, At, Commits
    <2>2. \A n \in Nodes : /\ node'[n].blk = node[n].blk
                           /\ node'[n].state = node[n].state \/ node'[n].state = "clean"
      BY <1>13 DEF commit_done, TypeOK, NodeRecords
    <2>3. \A c \in Atoms : atom'[c].delete_set = atom[c].delete_set
      BY <1>13 DEF commit_done, TypeOK, NoAtom
    <2> QED
      BY <1>4, <2>1, <2>2, <2>3
  <1> QED
    BY <1>5, <1>6, <1>7, <1>8, <1>9, <1>10, <1>11, <1>12, <1>13 DEF Commit

LEMMA FuseOwnInv ==
  ASSUME TypeInv, OwnInv, Fuse
  PROVE  OwnInv'
  <1> USE DEF TypeInv
  <1>1. PICK small \in Atoms, large \in Atoms : capture_fuse_into(small, large)
    BY DEF Fuse
  <1>2. small # large /\ small \in Owners /\ large \in Owners
        /\ working' = working /\ job' = job
    BY <1>1 DEF capture_fuse_into, Owners
  <1>3. \A n \in Nodes : node'[n].blk = node[n].blk /\ node'[n].state = node[n].state
    BY <1>1 DEF capture_fuse_into, TypeOK, NodeRecords
  <1>4. /\ atom'[small].delete_set = {}
        /\ atom'[large].delete_set = atom[large].delete_set \cup atom[small].delete_set
        /\ \A c \in Atoms \ {small, large} : atom'[c] = atom[c]
    BY <1>1, <1>2 DEF capture_fuse_into, TypeOK, NoAtom
  <1>5. Owned'[small] = Owned[small] \ Owned[small] /\ Owned'[large] = Owned[large] \cup Owned[small]
    BY <1>4, OwnedIs, OwnedIsNext
  <1>6. \A q \in Owners \ {small, large} : Owned'[q] = Owned[q]
    BY <1>2, <1>3, <1>4, OwnedIs, OwnedIsNext DEF Owners
  <1>7. Divided(Owned', Owners, working')
    BY <1>2, <1>5, <1>6, MoveKeepsDivided DEF OwnInv
  <1> QED
    BY <1>2, <1>3, <1>7 DEF OwnInv, EmptyHands

LEMMA InitOwnInv == Init => OwnInv
  <1> SUFFICES ASSUME Init PROVE OwnInv
    OBVIOUS
  <1>1. (\A t \in Threads : job[t].blk = {}) /\ (\A a \in Atoms : atom[a].delete_set = {})
    BY DEF Init, NoJob, NoAtom
  <1>2. \A n \in Nodes : node[n] = NoNode \/ \E b \in Blocks : node[n] = Clean(b)
    BY DEF Init
  <1>3. EmptyHands
    <2>1. NoNode.blk = {} /\ \A b : Clean(b).state = "clean"
      BY DEF NoNode, Clean
    <2>2. \A n \in Nodes : node[n].state \in {"none", "fake"} => node[n].blk = {}
      BY <1>2, <2>1
    <2> QED
      BY <1>1, <2>2 DEF EmptyHands
  <1>4. \A b : b \in working <=> \E n \in Nodes : b \in node[n].blk
    BY DEF Init
  <1>5. \A m, n \in Nodes : m # n => node[m].blk \cap node[n].blk = {}
    BY DEF Init
  <1>6. Divided(Owned, Owners, working)
    <2>1. \A o \in Owners \ Nodes : Owned[o] = {}
      BY <1>1, OwnedIs DEF Owners
    <2>2. /\ \A b \in working : \E o \in Owners : b \in Owned[o]
          /\ \A o \in Owners : Owned[o] \subseteq working
      BY <1>4, <2>1, OwnedIs DEF Owners
    <2>3. \A o, p \in Owners : o # p => Owned[o] \cap Owned[p] = {}
      BY <1>5, <2>1, OwnedIs DEF Owners
    <2> QED
      BY <2>2, <2>3 DEF Divided
  <1> QED
    BY <1>3, <1>6 DEF OwnInv

(* Every block set in the WORKING bitmap has exactly one owner, and every  *)
(* thread between a bitmap call and its counters holds the block that its  *)
(* position says (block_alloc.c:683-712, 1040-1070).                       *)
THEOREM OwnInvHolds == Spec => []OwnInv
  <1>1. TypeInv /\ OwnInv /\ [Next]_vars => OwnInv'
    <2> SUFFICES ASSUME TypeInv, OwnInv, [Next]_vars PROVE OwnInv'
      OBVIOUS
    <2>1. CASE UNCHANGED vars
      BY <2>1, NothingMoves DEF vars, OwnInv, EmptyHands
    <2>2. CASE Next
      BY <2>2, GrabOwnInv, ChangeOwnInv, PlaceOwnInv, CommitOwnInv, FuseOwnInv DEF Next
    <2> QED
      BY <2>1, <2>2
  <1> QED
    BY <1>1, InitOwnInv, TypeCorrect, PTL DEF Spec

(* No block is leaked, allocated twice or freed twice: the blocks set in   *)
(* the WORKING bitmap are exactly those of the nodes, of the delete sets   *)
(* and in the hands of threads, and no two of these share a block.         *)
THEOREM OneOwner == Spec => []EveryBlockHasOneOwner
  <1>1. OwnInv => EveryBlockHasOneOwner
    BY OneOwnerMeansDivided DEF OwnInv
  <1> QED
    BY <1>1, OwnInvHolds, PTL
=============================================================================
