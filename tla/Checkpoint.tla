----------------------------- MODULE Checkpoint -----------------------------
(***************************************************************************)
(* repair_writer/checkpoint.rs: publishing a new APFS checkpoint.          *)
(*                                                                         *)
(* A container keeps its checkpoints in two rings.  The descriptor ring    *)
(* holds, for each checkpoint, the checkpoint-map blocks followed by the   *)
(* container superblock; the data ring holds the ephemeral objects the     *)
(* maps name.  append_with writes the relocated objects, then the maps,    *)
(* then the superblock, each as one block write.  Whoever opens the image  *)
(* mounts the superblock with the highest transaction id among those whose *)
(* checksum holds (apfs_verify.rs).  The process may die, or a write may   *)
(* fail, between any two writes and in the middle of one.                  *)
(*                                                                         *)
(* A block is a record with the field ok: its Fletcher-64 checksum holds.  *)
(* The body of an object is a value of Bodies, and what the superblock     *)
(* roots (the object map) a value of Roots.                                *)
(***************************************************************************)
EXTENDS Integers, Sequences

CONSTANTS
    DescBlocks,     \* nx_xp_desc_blocks
    DataBlocks,     \* nx_xp_data_blocks
    MapCapacity,    \* entries of one checkpoint-map block
    Oids,           \* ephemeral object identifiers
    Bodies,         \* contents of an ephemeral object
    Roots           \* addresses of a container object map

ASSUME RingAssumption ==
    /\ DescBlocks \in Nat \ {0}
    /\ DataBlocks \in Nat \ {0}
    /\ MapCapacity \in Nat \ {0}

VARIABLES
    desc,           \* the descriptor ring
    data,           \* the data ring
    app             \* the append_with in progress, or NoAppend

ckvars == <<desc, data, app>>

DescSlots == 0 .. (DescBlocks - 1)
DataSlots == 0 .. (DataBlocks - 1)

NoAppend == [phase |-> "idle"]

-----------------------------------------------------------------------------
(* What is on the rings. *)

\* A container superblock that verifies.
IsSuper(b) == b.kind = "nxsb" /\ b.ok

\* The mount rule: the highest transaction id among the superblocks of the
\* descriptor ring whose checksum holds.
IsMounted(s) ==
    /\ s \in DescSlots
    /\ IsSuper(desc[s])
    /\ \A t \in DescSlots : IsSuper(desc[t]) => desc[t].xid <= desc[s].xid

Mounted == CHOOSE s \in DescSlots : IsMounted(s)

\* The slot of a checkpoint's j-th descriptor block and k-th object.
DescAt(sb, j) == (sb.descIndex + j) % DescBlocks
DataAt(sb, k) == (sb.dataIndex + k) % DataBlocks

\* The checkpoint whose superblock is sb can be loaded: its superblock closes
\* its own descriptor window, every other block of the window is a map of the
\* same transaction, and every entry names an object of that transaction in
\* the checkpoint's data window.
MapLoads(sb, m) ==
    /\ m.kind = "map" /\ m.ok /\ m.xid = sb.xid
    /\ \A e \in m.entries :
           /\ \E k \in 0 .. (sb.dataLen - 1) : e.slot = DataAt(sb, k)
           /\ data[e.slot].kind = "eph" /\ data[e.slot].ok
           /\ data[e.slot].oid = e.oid /\ data[e.slot].xid = sb.xid

Loads(s) ==
    /\ s = DescAt(desc[s], desc[s].descLen - 1)
    /\ \A j \in 0 .. (desc[s].descLen - 2) :
           MapLoads(desc[s], desc[DescAt(desc[s], j)])

\* What a checkpoint publishes: the object map it roots and the objects its
\* maps name.
Entries(sb) == UNION {desc[DescAt(sb, j)].entries : j \in 0 .. (sb.descLen - 2)}

Content(s) ==
    [root    |-> desc[s].root,
     objects |-> {<<e.oid, data[e.slot].body>> : e \in Entries(desc[s])}]

-----------------------------------------------------------------------------
(* append_with. *)

MapBlocks(n) == IF n = 0 THEN 1 ELSE (n + MapCapacity - 1) \div MapCapacity

\* Mutant: the room the mounted checkpoint occupies is not counted.
RingFullAlone(sb, n) ==
    \/ MapBlocks(n) + 1 > DescBlocks
    \/ n > DataBlocks

\* No room for n objects beside the checkpoint sb that is mounted.
RingFull(sb, n) ==
    \/ MapBlocks(n) + 1 + sb.descLen > DescBlocks
    \/ n + sb.dataLen > DataBlocks

\* The superblock an append a ends with: its windows start where those of the
\* checkpoint it replaces end.
NewSuper(a) ==
    [kind |-> "nxsb", ok |-> TRUE, xid |-> a.xid,
     descIndex |-> DescAt(a.sb, a.sb.descLen),
     descLen   |-> MapBlocks(Len(a.objs)) + 1,
     dataIndex |-> DataAt(a.sb, a.sb.dataLen),
     dataLen   |-> Len(a.objs),
     root      |-> a.root]

\* Mutant: the first entry of every map block is left out.
MapBlockShort(a, j) ==
    [kind |-> "map", ok |-> TRUE, xid |-> a.xid,
     entries |-> {[oid |-> a.objs[k + 1].oid, slot |-> DataAt(NewSuper(a), k)] :
                    k \in {k \in 0 .. (Len(a.objs) - 1) :
                             j * MapCapacity < k /\ k < (j + 1) * MapCapacity}}]

\* The k-th relocated object, restamped, and the j-th map block.
ObjectBlock(a, k) ==
    [kind |-> "eph", ok |-> TRUE, oid |-> a.objs[k + 1].oid,
     xid  |-> a.xid, body |-> a.objs[k + 1].body]

MapBlock(a, j) ==
    [kind |-> "map", ok |-> TRUE, xid |-> a.xid,
     entries |-> {[oid |-> a.objs[k + 1].oid, slot |-> DataAt(NewSuper(a), k)] :
                    k \in {k \in 0 .. (Len(a.objs) - 1) :
                             j * MapCapacity <= k /\ k < (j + 1) * MapCapacity}}]

\* The append reads the mounted superblock, validates, and takes the next
\* transaction id; the first write follows.
BeginAppend(objs, root) ==
    /\ app = NoAppend
    /\ ~RingFull(desc[Mounted], Len(objs))
    /\ app' = [phase |-> "objects", sb |-> desc[Mounted], objs |-> objs,
               xid |-> desc[Mounted].xid + 1, root |-> root, next |-> 0]
    /\ UNCHANGED <<desc, data>>

\* A block write either lands, or is cut short: the block keeps its old
\* contents, or ends up part old and part new under a checksum of neither.
\* The fields kept here of a superblock or a map lie in the first 512 bytes of
\* the block, so that a tear between sectors leaves them all old or all new;
\* a tear inside the sector, which mixes them, is left out.
CutShort(old, new) ==
    {old, [old EXCEPT !.ok = FALSE], [new EXCEPT !.ok = FALSE]}

WriteObject ==
    /\ app.phase = "objects" /\ app.next < Len(app.objs)
    /\ data' = [data EXCEPT ![DataAt(NewSuper(app), app.next)] =
                                 ObjectBlock(app, app.next)]
    /\ app' = [app EXCEPT !.next = @ + 1]
    /\ UNCHANGED desc

StartMaps ==
    /\ app.phase = "objects" /\ app.next = Len(app.objs)
    /\ app' = [app EXCEPT !.phase = "maps", !.next = 0]
    /\ UNCHANGED <<desc, data>>

WriteMap ==
    /\ app.phase = "maps" /\ app.next < MapBlocks(Len(app.objs))
    /\ desc' = [desc EXCEPT ![DescAt(NewSuper(app), app.next)] =
                                 MapBlock(app, app.next)]
    /\ app' = [app EXCEPT !.next = @ + 1]
    /\ UNCHANGED data

\* The superblock is written last, and publishes.
WriteSuper ==
    /\ app.phase = "maps" /\ app.next = MapBlocks(Len(app.objs))
    /\ desc' = [desc EXCEPT ![DescAt(NewSuper(app), app.next)] = NewSuper(app)]
    /\ app' = NoAppend
    /\ UNCHANGED data

\* The process dies, or the write fails, while a block is being written.
CutObject ==
    /\ app.phase = "objects" /\ app.next < Len(app.objs)
    /\ \E b \in CutShort(data[DataAt(NewSuper(app), app.next)],
                         ObjectBlock(app, app.next)) :
           data' = [data EXCEPT ![DataAt(NewSuper(app), app.next)] = b]
    /\ app' = NoAppend
    /\ UNCHANGED desc

CutMap ==
    /\ app.phase = "maps" /\ app.next < MapBlocks(Len(app.objs))
    /\ \E b \in CutShort(desc[DescAt(NewSuper(app), app.next)],
                         MapBlock(app, app.next)) :
           desc' = [desc EXCEPT ![DescAt(NewSuper(app), app.next)] = b]
    /\ app' = NoAppend
    /\ UNCHANGED data

CutSuper ==
    /\ app.phase = "maps" /\ app.next = MapBlocks(Len(app.objs))
    /\ \E b \in CutShort(desc[DescAt(NewSuper(app), app.next)], NewSuper(app)) :
           desc' = [desc EXCEPT ![DescAt(NewSuper(app), app.next)] = b]
    /\ app' = NoAppend
    /\ UNCHANGED data

-----------------------------------------------------------------------------
(* The rings by themselves: appends of any objects, one after the other,   *)
(* each of which may be cut short anywhere.                                *)

Blank == [kind |-> "blank", ok |-> FALSE]

SuperBlocks ==
    [kind : {"nxsb"}, ok : BOOLEAN, xid : Nat,
     descIndex : DescSlots, descLen : 1 .. DescBlocks,
     dataIndex : DataSlots, dataLen : 0 .. DataBlocks, root : Roots]

MapRecords ==
    [kind : {"map"}, ok : BOOLEAN, xid : Nat,
     entries : SUBSET [oid : Oids, slot : DataSlots]]

ObjectRecords ==
    [kind : {"eph"}, ok : BOOLEAN, oid : Oids, xid : Nat, body : Bodies]

Appends ==
    [phase : {"objects", "maps"}, sb : SuperBlocks,
     objs : Seq([oid : Oids, body : Bodies]), xid : Nat, root : Roots, next : Nat]

CkTypeOK ==
    /\ desc \in [DescSlots -> SuperBlocks \cup MapRecords \cup {Blank}]
    /\ data \in [DataSlots -> ObjectRecords \cup {Blank}]
    /\ app \in {NoAppend} \cup Appends

\* No two superblocks that verify carry the same transaction id.
XidsDiffer ==
    \A s, t \in DescSlots :
        IsSuper(desc[s]) /\ IsSuper(desc[t]) /\ desc[s].xid = desc[t].xid => s = t

\* Any image whose newest checkpoint loads.
CkInit ==
    /\ CkTypeOK
    /\ app = NoAppend
    /\ XidsDiffer
    /\ \E s \in DescSlots : IsMounted(s) /\ Loads(s)

CutAppend == CutObject \/ CutMap \/ CutSuper

CkNext ==
    \/ \E objs \in Seq([oid : Oids, body : Bodies]), root \in Roots :
           BeginAppend(objs, root)
    \/ WriteObject
    \/ StartMaps
    \/ WriteMap
    \/ WriteSuper
    \/ CutAppend

CkSpec == CkInit /\ [][CkNext]_ckvars

-----------------------------------------------------------------------------

\* Whatever was written when the process died or a write failed, the image
\* still mounts, and the checkpoint it mounts loads completely: append_with
\* never writes over a block of the checkpoint that is mounted, and its
\* superblock becomes the newest only after everything it names is in place.
MountLoads ==
    \E s \in DescSlots : IsMounted(s) /\ Loads(s)

\* What an append asks to have published.
Requested(a) ==
    [root    |-> a.root,
     objects |-> {<<a.objs[i].oid, a.objs[i].body>> : i \in 1 .. Len(a.objs)}]

\* An append_with changes what the image mounts in one step or not at all:
\* every step of it leaves the mounted contents alone, except the one that
\* completes it, which publishes exactly the objects and the object map the
\* caller asked for.
AppendIsAtomic ==
    [][app # NoAppend =>
          \/ Content(Mounted)' = Content(Mounted)
          \/ app' = NoAppend /\ Content(Mounted)' = Requested(app)]_ckvars
=============================================================================
