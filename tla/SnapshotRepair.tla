--------------------------- MODULE SnapshotRepair ---------------------------
(***************************************************************************)
(* repair_ops.rs, repair_volume.rs, repair_snapshot.rs and                 *)
(* repair_writer/spaceman.rs: sweep an APFS image, apply the repairs it    *)
(* lists, and sweep again.                                                 *)
(*                                                                         *)
(* Repairs are of two kinds.  Most rewrite one block in place: reseal a    *)
(* checksum, set the snapshot count, the sealed flag, the rooted snapshot, *)
(* or (two blocks) the volume group.  Creating the root snapshot is a      *)
(* transaction: it copies every block it changes to blocks the private     *)
(* space manager hands out, and publishes them with one checkpoint (module *)
(* Checkpoint).  Any write may be cut short, by an error that fails the    *)
(* repair or by the death of the process; the user then sweeps again and   *)
(* applies whatever is listed.                                             *)
(*                                                                         *)
(* The pool is the container outside the two rings.  Its blocks are        *)
(* records: the object map, its tree, the volume superblocks, a snapshot   *)
(* metadata tree, frozen volume superblocks, chunk-info blocks and         *)
(* bitmaps.  A snapshot's metadata and name records are one record here,   *)
(* and its name is reduced to whether it has the root-snapshot prefix.     *)
(***************************************************************************)
EXTENDS Checkpoint, FiniteSetsExt, SequencesExt

CONSTANTS
    PoolBlocks,     \* blocks of the pool, at addresses 1 .. PoolBlocks
    ChunkBlocks,    \* blocks one bitmap describes
    Images,         \* the images to start from
    MaxRuns         \* bound: applies in one behaviour

VARIABLES
    pool,           \* the pool
    run,            \* the apply in progress or last reported
    txn,            \* the repair in progress: its remaining writes
    budget,         \* writes that may still be cut short, torn or clean
    overtaken,      \* history: slots of torn superblocks, see Overtake
    image           \* the image the behaviour started from

rvars == <<pool, run, txn, budget, image>>
vars == <<desc, data, app, pool, run, txn, budget, overtaken, image>>

None == 0
Paddrs == 1 .. PoolBlocks
DescBase == PoolBlocks + 1          \* address of descriptor slot 0
Volumes == {"system", "data"}
Minted == 9                         \* the group id made from the volume UUIDs

-----------------------------------------------------------------------------
(* Reading the image that is mounted. *)

Sb == desc[Mounted]
OmapTree == pool[pool[Sb.root].tree]

\* listed_volumes: the newest mapping of the object at or below the mount's xid.
\* A tree whose checksum fails lists nothing to the sweep; no image of the runs
\* starts with one, and the tree is written only where no checkpoint names it.
VolumePaddr(oid) ==
    LET known == {e \in OmapTree.map : e.oid = oid /\ e.xid <= Sb.xid}
    IN  (CHOOSE e \in known : \A f \in known : f.xid <= e.xid).paddr

Live(oid) == pool[VolumePaddr(oid)]

Snaps(apsb) == IF apsb.tree = None THEN {} ELSE pool[apsb.tree].snaps

\* named_root_snapshot_xid.
RootSnaps(apsb) == {s \in Snaps(apsb) : s.root}
RootXid(apsb) == (CHOOSE s \in RootSnaps(apsb) : TRUE).xid

\* read_container_seals succeeds: every object on its walk verifies.
SealsReadable ==
    /\ pool[Sb.root].ok /\ OmapTree.ok
    /\ \A v \in Volumes :
           /\ Live(v).ok
           /\ Live(v).tree # None => pool[Live(v).tree].ok

\* The published ephemeral objects, in the order the maps list them.
Published ==
    [k \in 1 .. Sb.dataLen |->
        [oid  |-> data[DataAt(Sb, k - 1)].oid,
         body |-> data[DataAt(Sb, k - 1)].body]]

SpacemanBody == (CHOOSE o \in Range(Published) : o.oid = "spaceman").body

-----------------------------------------------------------------------------
(* The sweep: what is wrong and can be repaired.  An id is a kind of       *)
(* finding and the address it was found at.                                *)

NeedsRootSnapshot(apsb) ==
    apsb.oid = "system" /\ Snaps(apsb) = {} /\ apsb.count = 0

MayCreateRootSnapshot(apsb) ==
    apsb.oid = "system" /\ ~(Snaps(apsb) = {} /\ apsb.count # 0)

MissingNamedRoot(apsb) == RootSnaps(apsb) = {} /\ MayCreateRootSnapshot(apsb)

CheckBlessing(apsb) == ~MissingNamedRoot(apsb)

CheckRootToXid(apsb) ==
    /\ ~MissingNamedRoot(apsb)
    /\ apsb.oid = "system" /\ RootSnaps(apsb) # {} => apsb.root = RootXid(apsb)

CheckSnapshotCount(apsb) ==
    ~NeedsRootSnapshot(apsb) /\ apsb.count = Cardinality(Snaps(apsb))

CheckSnapshotNames(apsb) == ~NeedsRootSnapshot(apsb)

CheckVolumeSeal(apsb) == apsb.sealed = apsb.integrity

VolumeGroupOk == Live("system").group # None /\ Live("system").group = Live("data").group

\* Blocks the sweep reads whose checksum fails.
BadSums ==
    {DescBase + s : s \in {s \in DescSlots : desc[s].kind # "blank" /\ ~desc[s].ok}}
    \cup {p \in {Sb.root, pool[Sb.root].tree} \cup {VolumePaddr(v) : v \in Volumes} :
             ~pool[p].ok}

\* The kinds in the order their ids sort.
Kinds == <<"blessing", "checksum", "root-to-xid", "snapshot-count",
           "snapshot-names", "volume-group", "volume-seal">>

Fails(kind, p) ==
    CASE kind = "blessing"       -> ~CheckBlessing(pool[p])
      [] kind = "root-to-xid"    -> ~CheckRootToXid(pool[p])
      [] kind = "snapshot-count" -> ~CheckSnapshotCount(pool[p])
      [] kind = "snapshot-names" -> ~CheckSnapshotNames(pool[p])
      [] kind = "volume-seal"    -> ~CheckVolumeSeal(pool[p])
      [] OTHER                   -> FALSE

RepairsAt(kind) ==
    CASE kind = "checksum"     -> BadSums
      [] kind = "volume-group" -> IF VolumeGroupOk THEN {} ELSE {None}
      [] OTHER                 -> {p \in {VolumePaddr(v) : v \in Volumes} : Fails(kind, p)}

\* repair_paths: the ids that fail and can be repaired, sorted.
RepairPaths ==
    FlattenSeq([i \in 1 .. Len(Kinds) |->
        LET at == SetToSortSeq(RepairsAt(Kinds[i]), <)
        IN  [j \in 1 .. Len(at) |-> [kind |-> Kinds[i], at |-> at[j]]]])

-----------------------------------------------------------------------------
(* The private space manager: one chunk-info block, with one chunk, per    *)
(* entry.  What it hands out is marked in its own copy of the bitmaps.     *)

Chunk(i) == ((i - 1) * ChunkBlocks + 1) .. (i * ChunkBlocks)

Load ==
    [i \in 1 .. Len(SpacemanBody) |->
        LET cib == SpacemanBody[i]
        IN  [cib |-> cib, bits |-> pool[pool[cib].bitmap].bits, bitmap |-> pool[cib].bitmap,
             dirty |-> FALSE, newCib |-> None, newBitmap |-> None]]

HasRoom(sm) == \E i \in DOMAIN sm : Chunk(i) \ sm[i].bits # {}

\* The first clear bit of the first chunk that has one.
Allocate(sm) ==
    LET i == Min({i \in DOMAIN sm : Chunk(i) \ sm[i].bits # {}})
        p == Min(Chunk(i) \ sm[i].bits)
    IN  [paddr |-> p,
         sm    |-> [sm EXCEPT ![i].bits = @ \cup {p}, ![i].dirty = TRUE]]

\* Up to n blocks, as many as there are.
RECURSIVE Take(_, _)
Take(sm, n) ==
    IF n = 0 \/ ~HasRoom(sm)
    THEN [sm |-> sm, got |-> <<>>]
    ELSE LET a == Allocate(sm)
             rest == Take(a.sm, n - 1)
         IN  [sm |-> rest.sm, got |-> <<a.paddr>> \o rest.got]

\* materialize, first half: every dirty chunk-info block and bitmap gets a
\* block of its own, and so does what those allocations dirty.
Unsettled(sm) ==
    {i \in DOMAIN sm : sm[i].dirty /\ (sm[i].newCib = None \/ sm[i].newBitmap = None)}

RECURSIVE Settle(_)
Settle(sm) ==
    IF Unsettled(sm) = {} \/ ~HasRoom(sm)
    THEN sm
    ELSE LET i == Min(Unsettled(sm))
             a == Allocate(sm)
         IN  Settle(IF sm[i].newCib = None THEN [a.sm EXCEPT ![i].newCib = a.paddr]
                                            ELSE [a.sm EXCEPT ![i].newBitmap = a.paddr])

Write(p, block) == [to |-> p, block |-> block]

\* materialize, second half: the copies are written, and the space manager
\* names them.
SpaceWrites(sm) ==
    FlattenSeq([i \in DOMAIN sm |->
        IF ~sm[i].dirty THEN <<>>
        ELSE <<Write(sm[i].newBitmap, [kind |-> "bitmap", ok |-> TRUE, bits |-> sm[i].bits]),
               Write(sm[i].newCib, [kind |-> "cib", ok |-> TRUE, bitmap |-> sm[i].newBitmap])>>])

\* Mutant: the published space manager still names the old chunk-info blocks.
SpaceBodyKeepsOld(sm) == [i \in DOMAIN sm |-> sm[i].cib]

SpaceBody(sm) == [i \in DOMAIN sm |-> IF sm[i].dirty THEN sm[i].newCib ELSE sm[i].cib]

-----------------------------------------------------------------------------
(* What each repair writes.  A plan is the writes in order and how the     *)
(* repair ends: done, failed, or by appending a checkpoint.                *)

Plan(writes, ending) == [writes |-> writes, ending |-> ending, objs |-> <<>>, root |-> None]

Failed == Plan(<<>>, "fail")

\* cow_omap_upsert and publish_transaction, with the blocks tree and omap.
OmapWrites(oid, paddr, tree, omap) ==
    LET copy == [OmapTree EXCEPT !.ok = TRUE]
    IN  <<Write(tree, copy),
          Write(tree, [copy EXCEPT !.map =
                          {e \in @ : ~(e.oid = oid /\ e.xid = Sb.xid + 1)}
                          \cup {[oid |-> oid, xid |-> Sb.xid + 1, paddr |-> paddr]}]),
          Write(omap, [kind |-> "omap", ok |-> TRUE, tree |-> tree])>>

\* The writes of a transaction that was handed the blocks taken.got, of the
\* needed ones: those before the allocation that failed, or all of them, the
\* space manager's own, and a checkpoint.  before[j] is how many writes come
\* before the j-th allocation.
Transaction(taken, needed, before, writes) ==
    LET got == Len(taken.got)
        sm  == Settle(taken.sm)
    IN  CASE got < needed -> Plan(SubSeq(writes, 1, before[got + 1]), "fail")
          [] got = needed /\ Unsettled(sm) # {} -> Plan(writes, "fail")
          [] OTHER ->
               [writes |-> writes \o SpaceWrites(sm),
                ending |-> "append",
                objs   |-> [k \in DOMAIN Published |->
                              IF Published[k].oid = "spaceman"
                              THEN [Published[k] EXCEPT !.body = SpaceBody(sm)]
                              ELSE Published[k]],
                root   |-> taken.got[needed]]

\* create_root_system_snapshot: copy or create the metadata tree, freeze the
\* volume superblock, insert the records, and rewrite the volume, the object
\* map's tree and the object map.
Block(got, j) == IF j <= Len(got) THEN got[j] ELSE None

CreateWrites(got) ==
    LET old   == Live("system")
        xid   == Sb.xid + 1
        tree  == [kind |-> "tree", ok |-> TRUE, snaps |-> Snaps(old)]
        snap  == [xid |-> xid, root |-> TRUE, sb |-> Block(got, 2)]
    IN  <<Write(Block(got, 1), tree),
          Write(Block(got, 2), [kind |-> "frozen", ok |-> TRUE, xid |-> xid]),
          Write(Block(got, 1), [tree EXCEPT !.snaps = @ \cup {snap}]),
          Write(Block(got, 3), [old EXCEPT !.ok = TRUE, !.tree = Block(got, 1),
                                           !.count = @ + 1, !.root = xid])>>
        \o OmapWrites("system", Block(got, 3), Block(got, 4), Block(got, 5))

CreateRootSnapshot ==
    LET taken == Take(Load, 5)
    IN  Transaction(taken, 5, <<0, 1, 2, 4, 6>>, CreateWrites(taken.got))

\* root_live_volume_at_existing_snapshot: only the volume and the object map.
RootWrites(got) ==
    LET old == Live("system")
    IN  <<Write(Block(got, 1), [old EXCEPT !.ok = TRUE, !.root = RootXid(old)])>>
        \o OmapWrites("system", Block(got, 1), Block(got, 2), Block(got, 3))

RootExistingSnapshot ==
    LET taken == Take(Load, 3)
    IN  Transaction(taken, 3, <<0, 1, 3>>, RootWrites(taken.got))

\* Mutant: the snapshot that is already there is not looked for.
ApplyMissingRootSnapshotAgain ==
    IF ~SealsReadable THEN Failed ELSE CreateRootSnapshot

\* apply_on_session: the volume is the one that is live now, whatever address
\* the finding named.
ApplyMissingRootSnapshot ==
    IF ~SealsReadable THEN Failed
    ELSE IF RootSnaps(Live("system")) = {} THEN CreateRootSnapshot
    ELSE IF Live("system").root = RootXid(Live("system")) THEN Plan(<<>>, "done")
    ELSE RootExistingSnapshot

\* Mutant: the data volume's group id wins.
PickGroupOfData(system, data_) ==
    IF data_ # None THEN data_ ELSE IF system # None THEN system ELSE Minted

\* pick_group_id: the system volume's, else the data volume's, else minted
\* from the two volume UUIDs.
PickGroup(system, data_) ==
    IF system # None THEN system ELSE IF data_ # None THEN data_ ELSE Minted

ApplyVolumeGroup ==
    LET group == PickGroup(Live("system").group, Live("data").group)
        Grouped(v) == Write(VolumePaddr(v), [Live(v) EXCEPT !.ok = TRUE, !.group = group])
    IN  Plan(<<Grouped("system"), Grouped("data")>>, "done")

BlockAt(p) == IF p < DescBase THEN pool[p] ELSE desc[p - DescBase]

\* Mutant: the block is written back without fletcher64_seal.
InPlaceUnsealed(p, block) == Plan(<<Write(p, block)>>, "done")

\* A field of the superblock at p, rewritten in place and resealed.
InPlace(p, block) == Plan(<<Write(p, [block EXCEPT !.ok = TRUE])>>, "done")

\* apply_one: what decides is the block at the address the finding named.
ApplyOne(id) ==
    LET b == BlockAt(id.at)
    IN  CASE id.kind = "checksum" -> InPlace(id.at, b)
          [] id.kind = "volume-group" -> ApplyVolumeGroup
          [] id.kind = "snapshot-count" ->
               IF NeedsRootSnapshot(b) THEN ApplyMissingRootSnapshot
               ELSE InPlace(id.at, [b EXCEPT !.count = Cardinality(Snaps(b))])
          [] id.kind = "snapshot-names" ->
               IF NeedsRootSnapshot(b) THEN ApplyMissingRootSnapshot ELSE Failed
          [] id.kind = "blessing" ->
               IF MissingNamedRoot(b) THEN ApplyMissingRootSnapshot ELSE Failed
          [] id.kind = "volume-seal" -> InPlace(id.at, [b EXCEPT !.sealed = b.integrity])
          [] id.kind = "root-to-xid" ->
               IF MissingNamedRoot(b) THEN ApplyMissingRootSnapshot
               ELSE IF b.oid # "system" \/ RootSnaps(b) = {} THEN Failed
               ELSE InPlace(id.at, [b EXCEPT !.root = RootXid(b)])

-----------------------------------------------------------------------------
(* The image a behaviour starts from.  Blocks 1 .. 9 are the same in every *)
(* image; 10 is a superseded superblock of the system volume, 11 the       *)
(* frozen superblock of the snapshots, when the image has them.            *)

Free == [kind |-> "free", ok |-> FALSE]

Apsb(oid, img) ==
    IF oid = "system"
    THEN [kind |-> "apsb", ok |-> TRUE, oid |-> oid,
          tree |-> IF img.snaps = {} THEN None ELSE 5,
          count |-> img.count, root |-> img.root, sealed |-> img.sealed,
          integrity |-> img.integrity, group |-> img.systemGroup]
    ELSE [kind |-> "apsb", ok |-> TRUE, oid |-> oid, tree |-> None, count |-> 0,
          root |-> 0, sealed |-> FALSE, integrity |-> FALSE, group |-> img.dataGroup]

\* The superseded superblock: the system volume before it had any snapshot.
Superseded(img) == [Apsb("system", img) EXCEPT !.tree = None, !.count = 0, !.root = 0]

Used(img) ==
    {1, 2, 3, 4, 6, 7, 8, 9} \cup img.used
    \cup (IF img.snaps = {} THEN {} ELSE {5, 11})
    \cup (IF img.stale THEN {10} ELSE {})

BlockOf(img, p) ==
    CASE p = 1 -> [kind |-> "omap", ok |-> TRUE, tree |-> 2]
      [] p = 2 -> [kind |-> "omtree", ok |-> TRUE,
                   map |-> {[oid |-> "system", xid |-> 2, paddr |-> 3],
                            [oid |-> "data", xid |-> 1, paddr |-> 4]}]
      [] p = 3 -> Apsb("system", img)
      [] p = 4 -> Apsb("data", img)
      [] p = 5 /\ img.snaps # {} -> [kind |-> "tree", ok |-> TRUE, snaps |-> img.snaps]
      [] p \in {6, 8} -> [kind |-> "cib", ok |-> TRUE, bitmap |-> p + 1]
      [] p = 7 -> [kind |-> "bitmap", ok |-> TRUE, bits |-> Used(img) \cap Chunk(1)]
      [] p = 9 -> [kind |-> "bitmap", ok |-> TRUE, bits |-> Used(img) \cap Chunk(2)]
      [] p = 10 /\ img.stale -> Superseded(img)
      [] p = 11 /\ img.snaps # {} -> [kind |-> "frozen", ok |-> TRUE, xid |-> 1]
      [] OTHER -> Free

\* The blocks at the addresses img.bad fail their checksum.
PoolOf(img) ==
    [p \in Paddrs |-> [BlockOf(img, p) EXCEPT !.ok = @ /\ p \notin img.bad]]

\* The checkpoint of transaction 2, with its windows at slot img.slot; a bad
\* descriptor slot holds the superblock of the one before.
FirstAppend(img) ==
    [xid |-> 2, root |-> 1,
     sb  |-> [descIndex |-> 0, descLen |-> img.slot, dataIndex |-> 0, dataLen |-> img.slot],
     objs |-> [k \in 1 .. img.objects |->
                  [oid  |-> <<"spaceman", "reaper", "queue">>[k],
                   body |-> IF k = 1 THEN <<6, 8>> ELSE <<>>]]]

DescOf(img) ==
    LET a == FirstAppend(img)
    IN  [s \in DescSlots |->
            IF s = DescAt(NewSuper(a), MapBlocks(img.objects)) THEN NewSuper(a)
            ELSE IF \E j \in 0 .. (MapBlocks(img.objects) - 1) : s = DescAt(NewSuper(a), j)
            THEN MapBlock(a, CHOOSE j \in 0 .. (MapBlocks(img.objects) - 1) :
                                 s = DescAt(NewSuper(a), j))
            ELSE IF DescBase + s \in img.bad
            THEN [NewSuper(a) EXCEPT !.xid = 1, !.ok = FALSE, !.descIndex = 0]
            ELSE Blank]

DataOf(img) ==
    LET a == FirstAppend(img)
    IN  [s \in DataSlots |->
            IF \E k \in 0 .. (img.objects - 1) : s = DataAt(NewSuper(a), k)
            THEN ObjectBlock(a, CHOOSE k \in 0 .. (img.objects - 1) :
                                    s = DataAt(NewSuper(a), k))
            ELSE Blank]

NoRepair == [ending |-> "none", writes |-> <<>>]

Init ==
    /\ image \in Images
    /\ pool = PoolOf(image)
    /\ desc = DescOf(image)
    /\ data = DataOf(image)
    /\ app = NoAppend
    /\ budget = image.budget
    /\ overtaken = {}
    /\ txn = NoRepair
    /\ run = [phase |-> "idle", all |-> FALSE, todo |-> <<>>, applied |-> {},
              clean |-> TRUE, count |-> 0, calm |-> 0]

-----------------------------------------------------------------------------
(* apply_with_progress. *)

\* Sweep, and choose what to apply: everything listed, one id of the list, or
\* an id from an older sweep, of a superblock that has been superseded.
StartRun ==
    /\ run.phase # "applying" /\ run.count < MaxRuns
    /\ \/ run' = [run EXCEPT !.phase = "applying", !.all = TRUE, !.todo = RepairPaths,
                             !.applied = {}, !.clean = TRUE, !.count = @ + 1]
       \/ \E id \in Range(RepairPaths)
                    \cup (IF image.stale THEN {[kind |-> "blessing", at |-> 10]} ELSE {}) :
             run' = [run EXCEPT !.phase = "applying", !.all = FALSE, !.todo = <<id>>,
                                !.applied = {}, !.clean = TRUE, !.count = @ + 1]
    /\ UNCHANGED <<ckvars, pool, txn, budget, overtaken, image>>

\* A superblock newer than the mounted one that was torn when it was written.
\* The blocks its checkpoint names are free to the mounted one, so the next
\* transaction takes and overwrites them.
TornSupers ==
    {s \in DescSlots : desc[s].kind = "nxsb" /\ ~desc[s].ok /\ desc[s].xid > Sb.xid}

Overtake(plan) ==
    overtaken' = IF plan.ending = "append" THEN overtaken \cup TornSupers ELSE overtaken

BeginRepair ==
    /\ run.phase = "applying" /\ run.todo # <<>> /\ txn = NoRepair
    /\ txn' = ApplyOne(Head(run.todo))
    /\ Overtake(txn')
    /\ UNCHANGED <<ckvars, pool, run, budget, image>>

\* The block b is on the disk at address p.
Put(p, b) ==
    IF p < DescBase
    THEN pool' = [pool EXCEPT ![p] = b] /\ UNCHANGED desc
    ELSE desc' = [desc EXCEPT ![p - DescBase] = b] /\ UNCHANGED pool

WriteBlock ==
    /\ txn.writes # <<>>
    /\ Put(Head(txn.writes).to, Head(txn.writes).block)
    /\ txn' = [txn EXCEPT !.writes = Tail(@)]
    /\ UNCHANGED <<data, app, run, budget, overtaken, image>>

\* The repair is over: its id goes to the applied or to the failed ones.
Conclude(ok) ==
    /\ txn' = NoRepair
    /\ run' = [run EXCEPT !.todo = Tail(@),
                          !.applied = IF ok THEN @ \cup {Head(run.todo)} ELSE @]

EndRepair ==
    /\ txn.writes = <<>> /\ txn.ending \in {"done", "fail"}
    /\ Conclude(txn.ending = "done")
    /\ UNCHANGED <<ckvars, pool, budget, overtaken, image>>

\* append_with: it refuses a ring without room before it writes anything.
StartAppend ==
    /\ txn.writes = <<>> /\ txn.ending = "append" /\ app = NoAppend
    /\ BeginAppend(txn.objs, txn.root)
    /\ txn' = [txn EXCEPT !.ending = "appending"]
    /\ UNCHANGED <<pool, run, budget, overtaken, image>>

RefuseAppend ==
    /\ txn.writes = <<>> /\ txn.ending = "append" /\ app = NoAppend
    /\ RingFull(Sb, Len(txn.objs))
    /\ Conclude(FALSE)
    /\ UNCHANGED <<ckvars, pool, budget, overtaken, image>>

\* A slot of the ring that an append writes to holds its own block now, of a
\* checkpoint that is as good as the one it was built on.
Overwritten ==
    LET written == {s \in DescSlots : desc'[s] # desc[s]}
    IN  overtaken' = IF Mounted \in overtaken THEN overtaken \cup written
                                              ELSE overtaken \ written

StepAppend ==
    /\ WriteObject \/ StartMaps \/ WriteMap \/ WriteSuper
    /\ Overwritten
    /\ UNCHANGED rvars

\* apply_on_session reads the seals again: the named snapshot is there and the
\* live volume is rooted at it.
VerifyRepair ==
    /\ txn.ending = "appending" /\ app = NoAppend
    /\ Conclude(/\ SealsReadable
                /\ RootSnaps(Live("system")) # {}
                /\ Live("system").root = RootXid(Live("system")))
    /\ UNCHANGED <<ckvars, pool, budget, overtaken, image>>

\* The last repair is done; the report is made.
Report ==
    /\ run.phase = "applying" /\ run.todo = <<>>
    /\ run' = [run EXCEPT !.phase = "reported",
                          !.calm = IF run.all /\ run.clean THEN @ + 1 ELSE 0]
    /\ UNCHANGED <<ckvars, pool, txn, budget, overtaken, image>>

-----------------------------------------------------------------------------
(* Faults: a write is cut short, and either fails or ends the process.     *)

Interrupted ==
    /\ txn' = NoRepair
    /\ \/ run' = [run EXCEPT !.phase = "idle", !.todo = <<>>, !.applied = {}, !.calm = 0]
       \/ run' = [run EXCEPT !.todo = Tail(@), !.clean = FALSE]

Spend(torn) ==
    IF torn THEN budget.torn > 0 /\ budget' = [budget EXCEPT !.torn = @ - 1]
            ELSE budget.clean > 0 /\ budget' = [budget EXCEPT !.clean = @ - 1]

CutBlock ==
    /\ txn.writes # <<>>
    /\ LET w == Head(txn.writes)
       IN  \E b \in CutShort(BlockAt(w.to), w.block) :
               Put(w.to, b) /\ Spend(b # BlockAt(w.to))
    /\ Interrupted
    /\ UNCHANGED <<data, app, overtaken, image>>

CutCheckpoint ==
    /\ CutAppend
    /\ Spend(desc' # desc \/ data' # data)
    /\ Interrupted
    /\ Overwritten
    /\ UNCHANGED <<pool, image>>

Next ==
    \/ StartRun \/ BeginRepair \/ WriteBlock \/ EndRepair
    \/ StartAppend \/ RefuseAppend \/ StepAppend \/ VerifyRepair
    \/ Report \/ CutBlock \/ CutCheckpoint

Spec == Init /\ [][Next]_vars

-----------------------------------------------------------------------------

\* The blocks the mounted checkpoint reaches outside the rings, and the kind
\* each must have.
Reached ==
    {<<Sb.root, "omap">>, <<pool[Sb.root].tree, "omtree">>}
    \cup {<<VolumePaddr(v), "apsb">> : v \in Volumes}
    \cup {<<Live(v).tree, "tree">> : v \in {v \in Volumes : Live(v).tree # None}}
    \cup {<<s.sb, "frozen">> : s \in UNION {Snaps(Live(v)) : v \in Volumes}}
    \cup {<<c, "cib">> : c \in Range(SpacemanBody)}
    \cup {<<pool[c].bitmap, "bitmap">> : c \in Range(SpacemanBody)}

\* Whatever was cut short, and whatever was applied after it, the image
\* mounts a consistent container: every block the mounted checkpoint reaches
\* is of the kind it is reached as and is marked in the bitmaps the same
\* checkpoint publishes, so no later allocation can hand it out.
MountSound ==
    \A r \in Reached :
        /\ r[1] \in Paddrs /\ pool[r[1]].kind = r[2]
        /\ r[1] \in pool[pool[SpacemanBody[(r[1] - 1) \div ChunkBlocks + 1]].bitmap].bits

\* Creating the root snapshot, retried after a failed or a torn write, creates
\* it once: the live system volume keeps every snapshot it had, gains at most
\* one, and each has a frozen superblock of its own transaction.  The count of
\* snapshots is off by what it was off at the start or not at all, except in
\* one case: a checkpoint superblock was torn, a later transaction was begun
\* over its blocks and cut short as well, and apply_checksum then sealed the
\* torn superblock, which is mounted with blocks that are not all its own.
SnapshotsExact ==
    LET v == Live("system")
    IN  /\ image.snaps \subseteq Snaps(v)
        /\ Cardinality(Snaps(v)) <= Cardinality(image.snaps) + 1
        /\ Cardinality(RootSnaps(v)) <= 1
        /\ \A s \in Snaps(v) : pool[s.sb].ok /\ pool[s.sb].xid = s.xid
        /\ \/ v.count - Cardinality(Snaps(v)) \in {0, image.count - Cardinality(image.snaps)}
           \/ Mounted \in overtaken

\* A volume group that was half written when the process died is completed
\* with the id it was begun with, on whichever copy of the superblock is live:
\* a group the system volume has is never changed, one that only the data
\* volume has is the one both get, and two new ones never differ.
GroupIsKept ==
    LET ofSystem == Live("system").group
        ofData == Live("data").group
    IN  IF image.systemGroup # None
        THEN ofSystem = image.systemGroup /\ ofData \in {image.dataGroup, image.systemGroup}
        ELSE IF image.dataGroup # None
        THEN ofSystem \in {None, image.dataGroup} /\ ofData = image.dataGroup
        ELSE Cardinality({ofSystem, ofData} \ {None}) <= 1

\* Whatever faults came before, two runs of apply "all" that meet none leave
\* nothing the sweep lists as repairable, on an image with room for a
\* transaction.
TwoRunsSuffice ==
    run.phase = "reported" /\ run.calm >= 2 /\ image.room => RepairPaths = <<>>

\* An id reported as applied no longer fails for the object it was about when
\* the report is made.
StillFails(id) ==
    \E p \in RepairsAt(id.kind) :
        \/ p = id.at
        \/ /\ id.kind \notin {"checksum", "volume-group"}
           /\ pool[p].oid = pool[id.at].oid

AppliedMeansRepaired ==
    run.phase = "reported" => \A id \in run.applied : ~StillFails(id)
=============================================================================
