------------------------------- MODULE Journal -------------------------------
(***************************************************************************)
(* The transaction log (src/wander.c) over a disk with a write cache:      *)
(* atoms relocate or overwrite nodes, commit writes the overwrite set to   *)
(* wandered blocks, then the tx list, the journal header, the overwrite    *)
(* set in place and the journal footer; mount replays what was committed   *)
(* and not written in place.                                               *)
(*                                                                         *)
(* The tree is a set of leaves.  The parent of a leaf holds the block      *)
(* number of the leaf and has a block of its own, which is only            *)
(* overwritten; it stands for the path to the super block.  The bitmap     *)
(* block stands for all bitmap blocks.                                     *)
(*                                                                         *)
(* One atom is open and one may be committing: commit_mutex is held over   *)
(* reiser4_write_logs.  A failed write is a panic, i.e. a crash.           *)
(***************************************************************************)
EXTENDS Naturals, FiniteSets

CONSTANTS
  NLeaves, NData,   \* numbers of leaves, of blocks for leaves and the log
  MaxVer,           \* bound: versions of a leaf
  MaxCrashes,       \* bound: crashes
  HeadsDiffer       \* only behaviours where a tx head is not placed into the
                    \* block of the tx head before it

ASSUME SizesAssumption ==
  /\ NLeaves \in Nat \ {0} /\ NData \in Nat /\ NLeaves <= NData
  /\ MaxVer \in Nat \ {0} /\ MaxCrashes \in Nat
ASSUME HeadsAssumption == HeadsDiffer \in BOOLEAN

(* Block numbers.                                                          *)
JH == 1                                   \* journal header
JF == 2                                   \* journal footer
BM == 3                                   \* bitmap
Leaves == 1..NLeaves
Parent(l) == 3 + l
FirstData == 4 + NLeaves
Data == FirstData..(FirstData + NData - 1)
Block == 1..(FirstData + NData - 1)

VARIABLES
  disk,         \* what survives a crash
  cached,       \* written blocks in the cache of the device
  inflight,     \* submitted blocks
  leaf,         \* per leaf: version, block, set, dirty, atom
  parent,       \* per leaf: the atom of its parent
  working,      \* blocks set in the WORKING bitmap
  commitmap,    \* blocks set in the COMMIT bitmap
  dset,         \* delete sets of the atoms
  hint,         \* sbinfo->blocknr_hint_default
  last_committed_tx,
  log,          \* the commit or the mount in progress
  image,        \* contents after the transaction being committed
  crashes

device == <<disk, cached, inflight>>
vars == <<disk, cached, inflight, leaf, parent, working, commitmap, dset, hint,
          last_committed_tx, log, image, crashes>>

(* Contents of blocks.                                                     *)
LeafBlock(l, ver) == [leaf |-> l, ver |-> ver]
ParentBlock(b) == [blk |-> b]
BitmapBlock(used) == [used |-> used]
Header(tx) == [last_committed_tx |-> tx]
Footer(tx, free) == [last_flushed_tx |-> tx, free_blocks |-> free]
TxHead(prev, next, free) == [prev_tx |-> prev, next_block |-> next, free_blocks |-> free]
WanderRecord(wmap, next) == [wmap |-> wmap, next_block |-> next]
Unused == [unused |-> TRUE]

Has(content, field) == field \in DOMAIN content

Overlay(f, g) == [x \in DOMAIN f \cup DOMAIN g |-> IF x \in DOMAIN f THEN f[x] ELSE g[x]]
On(f, S) == [x \in DOMAIN f \cap S |-> f[x]]
Without(f, S) == [x \in DOMAIN f \ S |-> f[x]]
Nothing == [b \in {} |-> Unused]

NoLog == [pc |-> "idle", set |-> Nothing, wmap |-> Nothing, tx |-> 0, rec |-> 0]

(* A new file system: leaf l is in the l-th data block.                    *)
MkfsBlock(l) == FirstData + l - 1
MkfsUsed == {MkfsBlock(l) : l \in Leaves}
Init ==
  /\ disk = [b \in Block |->
       CASE b = JH -> Header(0)
         [] b = JF -> Footer(0, NData - NLeaves)
         [] b = BM -> BitmapBlock(MkfsUsed)
         [] b \in {Parent(l) : l \in Leaves} -> ParentBlock(MkfsBlock(b - 3))
         [] b \in MkfsUsed -> LeafBlock(b - FirstData + 1, 1)
         [] OTHER -> Unused]
  /\ cached = Nothing
  /\ inflight = Nothing
  /\ leaf = [l \in Leaves |-> [ver |-> 1, blk |-> MkfsBlock(l), set |-> "none",
                               dirty |-> FALSE, atom |-> "none"]]
  /\ parent = [l \in Leaves |-> "none"]
  /\ working = MkfsUsed
  /\ commitmap = MkfsUsed
  /\ dset = [a \in {"open", "commit"} |-> {}]
  /\ hint = 0
  /\ last_committed_tx = 0
  /\ log = NoLog
  /\ image = [l \in Leaves |-> 1]
  /\ crashes = 0

-----------------------------------------------------------------------------
(* The device                                                              *)

Submit(writes) == inflight' = Overlay(writes, inflight)
Read(b) == Overlay(cached, disk)[b]
Written(S) == S \cap DOMAIN inflight = {}

(* A write completes; the device may have made the write before it to the  *)
(* same block durable.                                                     *)
complete(b) ==
  /\ b \in DOMAIN inflight
  /\ \/ UNCHANGED disk
     \/ b \in DOMAIN cached /\ disk' = [disk EXCEPT ![b] = cached[b]]
  /\ cached' = Overlay(On(inflight, {b}), cached)
  /\ inflight' = Without(inflight, {b})
  /\ UNCHANGED <<leaf, parent, working, commitmap, dset, hint,
                 last_committed_tx, log, image, crashes>>

(* The writes to S complete, then those of a block with REQ_PREFLUSH and   *)
(* REQ_FUA: the cache is emptied, and the block is written through it.     *)
(* The order in which S completes cannot be seen: a crash makes any subset *)
(* of what is cached and in flight durable.                                *)
CompleteAndFlush(S) ==
  /\ disk' = Overlay(On(inflight, S), Overlay(cached, disk))
  /\ cached' = Nothing
  /\ inflight' = Without(inflight, S)
Fua(b, content) ==
  /\ disk' = [disk EXCEPT ![b] = content]
  /\ hint' = b
  /\ UNCHANGED <<cached, inflight>>

-----------------------------------------------------------------------------
(* The open atom                                                           *)

Mounted == log.pc \notin {"mount", "replay", "replay_footer"}

modify(l) ==
  /\ Mounted
  /\ leaf[l].atom \in {"none", "open"} /\ leaf[l].ver < MaxVer
  /\ leaf' = [leaf EXCEPT ![l] = [@ EXCEPT !.ver = @ + 1, !.dirty = TRUE, !.atom = "open"]]
  /\ UNCHANGED <<device, parent, working, commitmap, dset, hint,
                 last_committed_tx, log, image, crashes>>

(* Mutant: the old block is free at once.                                  *)
relocate_freeing(l) ==
  /\ Mounted
  /\ leaf[l].atom = "open" /\ leaf[l].set = "none" /\ parent[l] \in {"none", "open"}
  /\ \E b \in Data \ working :
       /\ working' = (working \cup {b}) \ {leaf[l].blk}
       /\ leaf' = [leaf EXCEPT ![l].blk = b, ![l].set = "reloc"]
  /\ dset' = [dset EXCEPT !["open"] = @ \cup {leaf[l].blk}]
  /\ parent' = [parent EXCEPT ![l] = "open"]
  /\ UNCHANGED <<device, commitmap, hint, last_committed_tx, log, image, crashes>>

(* Flush gives a leaf a new block, wherever the preceder hint leads; the   *)
(* parent is captured.                                                     *)
relocate(l) ==
  /\ Mounted
  /\ leaf[l].atom = "open" /\ leaf[l].set = "none" /\ parent[l] \in {"none", "open"}
  /\ \E b \in Data \ working :
       /\ working' = working \cup {b}
       /\ leaf' = [leaf EXCEPT ![l].blk = b, ![l].set = "reloc"]
  /\ dset' = [dset EXCEPT !["open"] = @ \cup {leaf[l].blk}]
  /\ parent' = [parent EXCEPT ![l] = "open"]
  /\ UNCHANGED <<device, commitmap, hint, last_committed_tx, log, image, crashes>>

overwrite(l) ==
  /\ Mounted
  /\ leaf[l].atom = "open" /\ leaf[l].set = "none"
  /\ leaf' = [leaf EXCEPT ![l].set = "ovrwr"]
  /\ UNCHANGED <<device, parent, working, commitmap, dset, hint,
                 last_committed_tx, log, image, crashes>>

(* A relocated leaf is written; it may have been modified again since.     *)
write_fq(l) ==
  LET b == leaf[l].blk IN
  /\ Mounted
  /\ leaf[l].set = "reloc" /\ leaf[l].dirty /\ Written({b})
  /\ Submit([x \in {b} |-> LeafBlock(l, leaf[l].ver)])
  /\ leaf' = [leaf EXCEPT ![l].dirty = FALSE]
  /\ hint' = b
  /\ UNCHANGED <<disk, cached, parent, working, commitmap, dset,
                 last_committed_tx, log, image, crashes>>

-----------------------------------------------------------------------------
(* Allocation for the log: forward from the block written last, around the *)
(* end of the disk if needed.                                              *)

Distance(b) == IF b >= hint THEN b - hint ELSE b + Cardinality(Block) - hint
Free == Data \ working
Before(b, S) == Cardinality({c \in S : Distance(c) < Distance(b)})
NextFit(n) == {b \in Free : Before(b, Free) < n}
Closest(S) == CHOOSE b \in S : \A c \in S : Distance(b) <= Distance(c)
Farthest(S) == CHOOSE b \in S : \A c \in S : Distance(c) <= Distance(b)

(* The wandered blocks follow the order of the overwrite set.              *)
Wandered(originals, S) ==
  [b \in originals |-> CHOOSE w \in S : Before(w, S) = Cardinality({c \in originals : c < b})]

-----------------------------------------------------------------------------
(* Commit                                                                  *)

Captured == {l \in Leaves : leaf[l].atom = "open"}
Relocated == {l \in Captured : leaf[l].set = "reloc"}
Overwritten == {l \in Captured : leaf[l].set = "ovrwr"}

(* Mutant: overwritten nodes are marked, too.                              *)
commit_map_of_all == (commitmap \cup {leaf[l].blk : l \in Relocated} \cup {Parent(l) : l \in Relocated}) \ dset["open"]

(* reiser4_pre_commit_hook_bitmap.                                         *)
NewCommitMap == (commitmap \cup {leaf[l].blk : l \in Relocated}) \ dset["open"]

OverwriteSet ==
  Overlay([b \in {leaf[l].blk : l \in Overwritten} |->
             LET l == CHOOSE l \in Overwritten : leaf[l].blk = b IN LeafBlock(l, leaf[l].ver)],
  Overlay([b \in {Parent(l) : l \in Relocated} |-> ParentBlock(leaf[b - 3].blk)],
          [b \in IF NewCommitMap # commitmap THEN {BM} ELSE {} |-> BitmapBlock(NewCommitMap)]))

(* The atom has been flushed and its relocate set is on disk; the relocate *)
(* set is uncaptured as soon as the commit mutex is held.                  *)
pre_commit ==
  /\ log.pc = "idle" /\ Captured # {}
  /\ \A l \in Captured : leaf[l].set # "none"
  /\ \A l \in Relocated : ~leaf[l].dirty /\ Written({leaf[l].blk})
  /\ image' = [l \in Leaves |-> IF l \in Captured THEN leaf[l].ver ELSE image[l]]
  /\ commitmap' = NewCommitMap
  /\ log' = [NoLog EXCEPT !.pc = "wander", !.set = OverwriteSet]
  /\ leaf' = [l \in Leaves |->
       CASE l \in Relocated -> [leaf[l] EXCEPT !.set = "none", !.atom = "none"]
         [] l \in Overwritten -> [leaf[l] EXCEPT !.dirty = FALSE, !.atom = "commit"]
         [] OTHER -> leaf[l]]
  /\ parent' = [l \in Leaves |-> IF parent[l] = "open" THEN "commit" ELSE parent[l]]
  /\ dset' = [dset EXCEPT !["commit"] = dset["open"], !["open"] = {}]
  /\ UNCHANGED <<device, working, hint, last_committed_tx, crashes>>

alloc_wandered_blocks ==
  LET originals == DOMAIN log.set
      S == NextFit(Cardinality(originals))
      wmap == Wandered(originals, S)
  IN /\ log.pc = "wander" /\ Cardinality(originals) <= Cardinality(Free)
     /\ working' = working \cup S
     /\ Submit([w \in S |-> log.set[CHOOSE b \in originals : wmap[b] = w]])
     /\ hint' = Farthest(S)
     /\ log' = [log EXCEPT !.pc = "tx", !.wmap = wmap]
     /\ UNCHANGED <<disk, cached, leaf, parent, commitmap, dset,
                    last_committed_tx, image, crashes>>

(* Mutant: the list of transactions is cut.                                *)
alloc_tx_unlinked ==
  LET S == NextFit(2)
      head == Closest(S)
      rec == Farthest(S)
  IN /\ log.pc = "tx" /\ Cardinality(Free) >= 2
     /\ HeadsDiffer => head # last_committed_tx
     /\ working' = working \cup S
     /\ Submit([b \in S |->
          IF b = head THEN TxHead(0, rec, NData - Cardinality(commitmap))
                      ELSE WanderRecord(log.wmap, head)])
     /\ hint' = rec
     /\ log' = [log EXCEPT !.pc = "logged", !.tx = head, !.rec = rec]
     /\ UNCHANGED <<disk, cached, leaf, parent, commitmap, dset,
                    last_committed_tx, image, crashes>>

(* Mutant: free blocks of the WORKING bitmap are logged.                   *)
alloc_tx_working ==
  LET S == NextFit(2)
      head == Closest(S)
      rec == Farthest(S)
  IN /\ log.pc = "tx" /\ Cardinality(Free) >= 2
     /\ HeadsDiffer => head # last_committed_tx
     /\ working' = working \cup S
     /\ Submit([b \in S |->
          IF b = head THEN TxHead(last_committed_tx, rec, NData - Cardinality(working))
                      ELSE WanderRecord(log.wmap, head)])
     /\ hint' = rec
     /\ log' = [log EXCEPT !.pc = "logged", !.tx = head, !.rec = rec]
     /\ UNCHANGED <<disk, cached, leaf, parent, commitmap, dset,
                    last_committed_tx, image, crashes>>

(* Mutant: the tx head may be in any free block.                           *)
alloc_tx_anywhere ==
  LET S == NextFit(2)
      head == Closest(S)
      rec == Farthest(S)
  IN /\ log.pc = "tx" /\ Cardinality(Free) >= 2
     /\ working' = working \cup S
     /\ Submit([b \in S |->
          IF b = head THEN TxHead(last_committed_tx, rec, NData - Cardinality(commitmap))
                      ELSE WanderRecord(log.wmap, head)])
     /\ hint' = rec
     /\ log' = [log EXCEPT !.pc = "logged", !.tx = head, !.rec = rec]
     /\ UNCHANGED <<disk, cached, leaf, parent, commitmap, dset,
                    last_committed_tx, image, crashes>>

(* A tx head and a wander record, in a circular list.                      *)
alloc_tx ==
  LET S == NextFit(2)
      head == Closest(S)
      rec == Farthest(S)
  IN /\ log.pc = "tx" /\ Cardinality(Free) >= 2
     /\ HeadsDiffer => head # last_committed_tx
     /\ working' = working \cup S
     /\ Submit([b \in S |->
          IF b = head THEN TxHead(last_committed_tx, rec, NData - Cardinality(commitmap))
                      ELSE WanderRecord(log.wmap, head)])
     /\ hint' = rec
     /\ log' = [log EXCEPT !.pc = "logged", !.tx = head, !.rec = rec]
     /\ UNCHANGED <<disk, cached, leaf, parent, commitmap, dset,
                    last_committed_tx, image, crashes>>

LogBlocks == {log.tx, log.rec} \cup {log.wmap[b] : b \in DOMAIN log.wmap}

(* current_atom_finish_all_fq, then the header's REQ_PREFLUSH.             *)
finish_log ==
  /\ log.pc = "logged"
  /\ CompleteAndFlush(LogBlocks)
  /\ log' = [log EXCEPT !.pc = "header"]
  /\ UNCHANGED <<leaf, parent, working, commitmap, dset, hint,
                 last_committed_tx, image, crashes>>

update_journal_header ==
  /\ log.pc = "header"
  /\ Fua(JH, Header(log.tx))
  /\ last_committed_tx' = log.tx
  /\ log' = [log EXCEPT !.pc = "back"]
  /\ UNCHANGED <<leaf, parent, working, commitmap, dset, image, crashes>>

write_tx_back ==
  /\ log.pc = "back" /\ Written(DOMAIN log.set)
  /\ Submit(log.set)
  /\ hint' = Farthest(DOMAIN log.set)
  /\ log' = [log EXCEPT !.pc = "written"]
  /\ UNCHANGED <<disk, cached, leaf, parent, working, commitmap, dset,
                 last_committed_tx, image, crashes>>

(* Mutant: the footer is written before the overwrite set has completed.   *)
write_back_not_finished ==
  /\ log.pc = "written"
  /\ CompleteAndFlush({})
  /\ log' = [log EXCEPT !.pc = "footer"]
  /\ UNCHANGED <<leaf, parent, working, commitmap, dset, hint,
                 last_committed_tx, image, crashes>>

finish_write_back ==
  /\ log.pc = "written"
  /\ CompleteAndFlush(DOMAIN log.set)
  /\ log' = [log EXCEPT !.pc = "footer"]
  /\ UNCHANGED <<leaf, parent, working, commitmap, dset, hint,
                 last_committed_tx, image, crashes>>

update_journal_footer ==
  /\ log.pc = "footer"
  /\ Fua(JF, Footer(log.tx, NData - Cardinality(commitmap)))
  /\ log' = [log EXCEPT !.pc = "free"]
  /\ UNCHANGED <<leaf, parent, working, commitmap, dset,
                 last_committed_tx, image, crashes>>

(* dealloc_tx_list, dealloc_wmap, reiser4_post_write_back_hook and         *)
(* put_overwrite_set.                                                      *)
post_write_back ==
  /\ log.pc = "free"
  /\ working' = working \ (dset["commit"] \cup LogBlocks)
  /\ dset' = [dset EXCEPT !["commit"] = {}]
  /\ leaf' = [l \in Leaves |-> IF leaf[l].atom = "commit"
                               THEN [leaf[l] EXCEPT !.set = "none", !.atom = "none"]
                               ELSE leaf[l]]
  /\ parent' = [l \in Leaves |-> IF parent[l] = "commit" THEN "none" ELSE parent[l]]
  /\ log' = NoLog
  /\ UNCHANGED <<device, commitmap, hint, last_committed_tx, image, crashes>>

-----------------------------------------------------------------------------
(* Crash and mount                                                         *)

Unmounted == [l \in Leaves |-> [ver |-> 0, blk |-> 0, set |-> "none",
                                dirty |-> FALSE, atom |-> "none"]]

crash ==
  /\ crashes < MaxCrashes
  /\ crashes' = crashes + 1
  /\ \E S \in SUBSET DOMAIN cached, T \in SUBSET DOMAIN inflight :
       disk' = Overlay(On(inflight, T), Overlay(On(cached, S), disk))
  /\ cached' = Nothing
  /\ inflight' = Nothing
  /\ leaf' = Unmounted
  /\ parent' = [l \in Leaves |-> "none"]
  /\ working' = {}
  /\ commitmap' = {}
  /\ dset' = [a \in {"open", "commit"} |-> {}]
  /\ hint' = 0
  /\ last_committed_tx' = 0
  /\ log' = [NoLog EXCEPT !.pc = "mount"]
  /\ image' = [l \in Leaves |-> 0]

(* The walk of replay_oldest_transaction over a disk d: from the last      *)
(* committed transaction back to the one whose predecessor is flushed.     *)
(* 0 if the walk meets a block that is not a tx head, or takes more than   *)
(* WalkBound steps, which OneUnflushed excludes.                           *)
WalkBound == 2
IsTxHead(d, b) == b # 0 /\ Has(d[b], "prev_tx")
OldestTx(d) ==
  LET flushed == d[JF].last_flushed_tx
      walk[k \in 0..WalkBound] ==
        IF k = 0 THEN d[JH].last_committed_tx
        ELSE LET b == walk[k - 1] IN IF IsTxHead(d, b) THEN d[b].prev_tx ELSE 0
      found == {k \in 0..WalkBound : LET b == walk[k] IN IsTxHead(d, b) /\ d[b].prev_tx = flushed}
  IN IF found = {} THEN 0 ELSE walk[CHOOSE k \in found : \A j \in found : k <= j]
AllReplayed(d) == d[JH].last_committed_tx = d[JF].last_flushed_tx

(* The overwrite set, restored from the wander records of tx.              *)
Restored(d, tx) ==
  LET wmap == d[d[tx].next_block].wmap IN [b \in DOMAIN wmap |-> d[wmap[b]]]

replay_transaction ==
  LET d == Overlay(cached, disk)
      tx == OldestTx(d)
  IN /\ log.pc = "mount" /\ ~AllReplayed(d) /\ tx # 0
     /\ Submit(Restored(d, tx))
     /\ log' = [log EXCEPT !.pc = "replay", !.set = Restored(d, tx), !.tx = tx]
     /\ UNCHANGED <<disk, cached, leaf, parent, working, commitmap, dset, hint,
                    last_committed_tx, image, crashes>>

wait_on_jnode_list ==
  /\ log.pc = "replay"
  /\ CompleteAndFlush(DOMAIN log.set)
  /\ log' = [log EXCEPT !.pc = "replay_footer"]
  /\ UNCHANGED <<leaf, parent, working, commitmap, dset, hint,
                 last_committed_tx, image, crashes>>

(* Mutant: the footer keeps its transaction.                               *)
replayed_footer_kept ==
  /\ log.pc = "replay_footer"
  /\ Fua(JF, Footer(disk[JF].last_flushed_tx, Read(log.tx).free_blocks))
  /\ log' = [NoLog EXCEPT !.pc = "mount"]
  /\ UNCHANGED <<leaf, parent, working, commitmap, dset,
                 last_committed_tx, image, crashes>>

update_replayed_footer ==
  /\ log.pc = "replay_footer"
  /\ Fua(JF, Footer(log.tx, Read(log.tx).free_blocks))
  /\ log' = [NoLog EXCEPT !.pc = "mount"]
  /\ UNCHANGED <<leaf, parent, working, commitmap, dset,
                 last_committed_tx, image, crashes>>

(* The contents of a disk d after its journal is replayed.                 *)
Replayed(d) ==
  LET tx == OldestTx(d) IN
  IF AllReplayed(d) \/ tx = 0 THEN d
  ELSE LET r == Restored(d, tx) IN
       [Overlay(r, d) EXCEPT ![JF] = Footer(tx, d[tx].free_blocks)]
Version(d, l) ==
  LET content == d[d[Parent(l)].blk] IN
  IF Has(content, "ver") /\ content.leaf = l THEN content.ver ELSE 0
Versions(d) == [l \in Leaves |-> Version(d, l)]
Recovered == LET r == Replayed(disk) IN Versions(r)

mounted ==
  LET d == Overlay(cached, disk) IN
  /\ log.pc = "mount" /\ AllReplayed(d)
  /\ leaf' = [l \in Leaves |-> [Unmounted[l] EXCEPT !.ver = Version(d, l),
                                                    !.blk = d[Parent(l)].blk]]
  /\ working' = d[BM].used
  /\ commitmap' = d[BM].used
  /\ last_committed_tx' = d[JH].last_committed_tx
  /\ image' = Versions(d)
  /\ log' = NoLog
  /\ UNCHANGED <<device, parent, dset, hint, crashes>>

-----------------------------------------------------------------------------
Update ==
  \E l \in Leaves :
    modify(l) \/ relocate(l) \/ overwrite(l) \/ write_fq(l) \/ complete(leaf[l].blk)

Commit ==
  \/ pre_commit
  \/ alloc_wandered_blocks \/ alloc_tx \/ finish_log \/ update_journal_header
  \/ write_tx_back \/ finish_write_back \/ update_journal_footer \/ post_write_back

Mount == replay_transaction \/ wait_on_jnode_list \/ update_replayed_footer \/ mounted

Next == Update \/ Commit \/ Mount \/ crash

Spec == Init /\ [][Next]_vars

(* A mount goes on when it can.                                            *)
Fairness == WF_vars(Mount)
FairSpec == Spec /\ Fairness

-----------------------------------------------------------------------------
(* Properties                                                              *)

TypeOK ==
  /\ DOMAIN disk = Block /\ DOMAIN cached \subseteq Block /\ DOMAIN inflight \subseteq Block
  /\ leaf \in [Leaves -> [ver : 0..MaxVer, blk : Data \cup {0}, set : {"none", "reloc", "ovrwr"},
                          dirty : BOOLEAN, atom : {"none", "open", "commit"}]]
  /\ parent \in [Leaves -> {"none", "open", "commit"}]
  /\ working \subseteq Data /\ commitmap \subseteq Data
  /\ dset \in [{"open", "commit"} -> SUBSET Data]
  /\ hint \in Block \cup {0} /\ last_committed_tx \in Data \cup {0}
  /\ log.pc \in {"idle", "wander", "tx", "logged", "header", "back", "written", "footer",
                 "free", "mount", "replay", "replay_footer"}
  /\ image \in [Leaves -> 0..MaxVer]
  /\ crashes \in 0..MaxCrashes

(* At every moment the disk and its journal hold the contents after the    *)
(* last transaction whose header was written, all of it and nothing else.  *)
BeforeHeader == log.pc \in {"wander", "tx", "logged", "header"}
Abstract == INSTANCE AtomicStore WITH
  Contents <- [Leaves -> 1..MaxVer],
  store <- Recovered,
  pending <- IF BeforeHeader THEN image ELSE <<>>
CommitIsAtomic == Abstract!Spec

(* The walk back of replay_oldest_transaction ends at its first step: a    *)
(* transaction is written in place before the next one is committed, and   *)
(* the tx heads it meets are tx heads (zam-627).                           *)
OneUnflushed ==
  AllReplayed(disk) \/ (OldestTx(disk) # 0 /\ OldestTx(disk) = disk[JH].last_committed_tx)

(* "all transactions are replayed" (wander.c:1515) when header and footer  *)
(* name the same block: no committed transaction waits to be written in    *)
(* place then.                                                             *)
ReplayedMeansInPlace ==
  AllReplayed(disk) => log.pc \notin {"back", "written", "footer"}

(* The bitmap and the free block counter that a mount recovers are those   *)
(* of the tree it recovers, although the counter is logged apart from the  *)
(* overwrite set (reiser4_journal_recover_sb_data).                        *)
RecoveredSpaceMatches ==
  LET r == Replayed(disk)
      used == {r[Parent(l)].blk : l \in Leaves}
  IN r[BM].used = used /\ r[JF].free_blocks = NData - Cardinality(used)

(* What a recovery would read cannot be allocated: leaves of the committed *)
(* tree and, until it is written in place, the log (BA_DEFER).             *)
RecoveryBlocksKept ==
  LET r == Replayed(disk)
      tx == OldestTx(disk)
      rec == disk[tx].next_block
      logged == IF AllReplayed(disk) \/ tx = 0 THEN {}
                ELSE {tx, rec} \cup {disk[rec].wmap[b] : b \in DOMAIN disk[rec].wmap}
  IN Mounted => {r[Parent(l)].blk : l \in Leaves} \cup logged \subseteq working

(* A mount ends, after crashes in the middle of replay too.                *)
MountCompletes == log.pc = "mount" ~> Mounted
=============================================================================
