---------------------------- MODULE StorageProofs ---------------------------
(***************************************************************************)
(* Proofs about what the program keeps on disk: Checkpoint and Scratch.    *)
(*                                                                         *)
(* Checkpoint: publishing a checkpoint is atomic, for rings and maps of    *)
(* every size and every set of objects.                                    *)
(*                                                                         *)
(* Scratch: no sweep touches a directory in use or in the making, for any  *)
(* number of processes and directories and for any UnmarkedIdle and Prompt *)
(* with 2 * Prompt < UnmarkedIdle: the mtime a sweep has read of a directory *)
(* without a marker is at most as old as the creation it interrupts, and   *)
(* creation and look together take less than UnmarkedIdle.                 *)
(***************************************************************************)
EXTENDS Checkpoint, Scratch, TLAPS

USE SMTT(30), ZenonT(30)

-----------------------------------------------------------------------------
(* Arithmetic of the rings. *)

\* The slots of a ring of N blocks, counted from any start below N.
LEMMA RingStep ==
    ASSUME NEW N \in Nat, N > 0, NEW a \in 0 .. (N - 1), NEW b \in 0 .. N
    PROVE  (a + b) % N = IF a + b < N THEN a + b ELSE a + b - N
  OBVIOUS

\* A window that starts where another ends has no slot in common with it
\* when the two fit the ring together; and within one window every slot is
\* different.
LEMMA WindowsApart ==
    ASSUME NEW N \in Nat, N > 0, NEW a \in 0 .. (N - 1), NEW len \in 0 .. N,
           NEW more \in Nat, len + more <= N,
           NEW i \in 0 .. (len - 1), NEW j \in 0 .. (more - 1)
    PROVE  (a + i) % N # (((a + len) % N) + j) % N
<1>1. (a + i) % N = IF a + i < N THEN a + i ELSE a + i - N
  BY RingStep
<1>2. (a + len) % N = IF a + len < N THEN a + len ELSE a + len - N
  BY RingStep
<1>3. (a + len) % N \in 0 .. (N - 1)
  BY <1>2
<1>4. (((a + len) % N) + j) % N =
          IF ((a + len) % N) + j < N THEN ((a + len) % N) + j
                                     ELSE ((a + len) % N) + j - N
  BY <1>3, RingStep
<1>. QED
  BY <1>1, <1>2, <1>4

LEMMA WindowIsSimple ==
    ASSUME NEW N \in Nat, N > 0, NEW a \in 0 .. (N - 1),
           NEW i \in 0 .. (N - 1), NEW j \in 0 .. (N - 1),
           (a + i) % N = (a + j) % N
    PROVE  i = j
<1>1. (a + i) % N = IF a + i < N THEN a + i ELSE a + i - N
  BY RingStep
<1>2. (a + j) % N = IF a + j < N THEN a + j ELSE a + j - N
  BY RingStep
<1>. QED
  BY <1>1, <1>2

LEMMA RingSlot ==
    ASSUME NEW N \in Nat, N > 0, NEW a \in Nat
    PROVE  a % N \in 0 .. (N - 1)
  OBVIOUS

\* The three together: a window of more slots, from b on, follows the window of
\* len slots from a on.
Follows(N, a, len, b, more) ==
    /\ b \in 0 .. (N - 1)
    /\ \A j \in 0 .. (more - 1) : (b + j) % N \in 0 .. (N - 1)
    /\ \A j \in 0 .. (more - 1), i \in 0 .. (len - 1) : (a + i) % N # (b + j) % N
    /\ \A j, i \in 0 .. (more - 1) : (b + i) % N = (b + j) % N => i = j

LEMMA NextWindow ==
    ASSUME NEW N \in Nat, N > 0, NEW a \in 0 .. (N - 1), NEW len \in 0 .. N,
           NEW more \in Nat, len + more <= N,
           NEW b, b = (a + len) % N
    PROVE  Follows(N, a, len, b, more)
<1>1. b \in 0 .. (N - 1)
  <2>1. a + len \in Nat
    OBVIOUS
  <2>. QED
    BY <2>1, RingSlot
<1>2. ASSUME NEW j \in 0 .. (more - 1)
      PROVE  (b + j) % N \in 0 .. (N - 1)
  <2>1. b + j \in Nat
    BY <1>1
  <2>. QED
    BY <2>1, RingSlot
<1>3. ASSUME NEW j \in 0 .. (more - 1), NEW i \in 0 .. (len - 1)
      PROVE  (a + i) % N # (b + j) % N
  BY WindowsApart
<1>4. ASSUME NEW j \in 0 .. (more - 1), NEW i \in 0 .. (more - 1),
             (b + i) % N = (b + j) % N
      PROVE  i = j
  <2>1. i \in 0 .. (N - 1) /\ j \in 0 .. (N - 1)
    OBVIOUS
  <2>. QED
    BY <1>1, <1>4, <2>1, WindowIsSimple
<1>. QED
  BY <1>1, <1>2, <1>3, <1>4 DEF Follows

\* The maps of n objects: at least one, and an object's chunk is one of them.
LEMMA MapsCover ==
    ASSUME NEW n \in Nat
    PROVE  /\ MapBlocks(n) \in Nat /\ MapBlocks(n) >= 1
           /\ \A k \in 0 .. (n - 1) : \E j \in 0 .. (MapBlocks(n) - 1) :
                  j * MapCapacity <= k /\ k < (j + 1) * MapCapacity
<1>. DEFINE c == MapCapacity
<1>0. c \in Nat /\ c > 0
  BY RingAssumption
<1>. HIDE DEF c
<1>1. CASE n = 0
  BY <1>1 DEF MapBlocks
<1>2. CASE n > 0
  <2>. DEFINE m == (n + c - 1) \div c
  <2>1. m \in Nat /\ n + c - 1 = c * m + ((n + c - 1) % c)
    BY <1>0, <1>2
  <2>2. (n + c - 1) % c \in 0 .. (c - 1)
    BY <1>0, <1>2, RingSlot
  <2>. HIDE DEF m
  <2>3. c * m >= n
    BY <1>0, <2>1, <2>2
  <2>4. m >= 1
    BY <1>0, <1>2, <2>1, <2>3
  <2>5. ASSUME NEW k \in 0 .. (n - 1)
        PROVE  \E j \in 0 .. (m - 1) : j * c <= k /\ k < (j + 1) * c
    <3>. DEFINE q == k \div c
    <3>1. q \in Nat /\ k = c * q + (k % c)
      BY <1>0
    <3>2. k % c \in 0 .. (c - 1)
      BY <1>0, RingSlot
    <3>. HIDE DEF q
    <3>3. q * c = c * q /\ (q + 1) * c = c * q + c
      BY <1>0, <3>1
    <3>4. q * c <= k /\ k < (q + 1) * c
      BY <1>0, <3>1, <3>2, <3>3
    <3>5. q < m
      <4>1. SUFFICES ASSUME q >= m PROVE FALSE
        BY <2>1, <3>1
      <4>2. c * q >= c * m
        BY <1>0, <2>1, <3>1, <4>1
      <4>. QED
        BY <1>0, <2>1, <2>3, <3>1, <3>3, <3>4, <4>2
    <3>. QED
      BY <2>1, <3>1, <3>4, <3>5
  <2>. QED
    BY <1>2, <2>1, <2>4, <2>5 DEF MapBlocks, m, c
<1>. QED
  BY <1>1, <1>2

-----------------------------------------------------------------------------
(* The inductive invariant. *)

\* The append in progress: it extends the checkpoint that is mounted, there is
\* room for it, and what it has written so far is in place.
AppendSound ==
    /\ app \in Appends
    /\ \E s \in DescSlots : IsMounted(s) /\ app.sb = desc[s]
    /\ ~RingFull(app.sb, Len(app.objs))
    /\ app.xid = app.sb.xid + 1
    /\ \A k \in 0 .. (Len(app.objs) - 1) :
           app.phase = "maps" \/ k < app.next =>
               data[DataAt(NewSuper(app), k)] = ObjectBlock(app, k)
    /\ \A j \in 0 .. (MapBlocks(Len(app.objs)) - 1) :
           app.phase = "maps" /\ j < app.next =>
               desc[DescAt(NewSuper(app), j)] = MapBlock(app, j)

IInv ==
    /\ CkTypeOK
    /\ XidsDiffer
    /\ MountLoads
    /\ app # NoAppend => AppendSound

DescType == SuperBlocks \cup MapRecords \cup {Blank}
DataType == ObjectRecords \cup {Blank}

\* A write that is cut short leaves a block of the ring, and never a
\* superblock that verifies where there was not that very one before.
LEMMA CutDesc ==
    ASSUME NEW old \in DescType, NEW new \in SuperBlocks \cup MapRecords,
           NEW b \in CutShort(old, new)
    PROVE  b \in DescType /\ (IsSuper(b) => b = old)
<1>1. CASE b = old
  BY <1>1
<1>2. CASE b = [old EXCEPT !.ok = FALSE]
  <2>1. CASE old \in SuperBlocks
    BY <1>2, <2>1, Zenon DEF DescType, SuperBlocks, IsSuper
  <2>2. CASE old \in MapRecords
    BY <1>2, <2>2, Zenon DEF DescType, MapRecords, IsSuper
  <2>3. CASE old = Blank
    BY <1>2, <2>3, Zenon DEF DescType, Blank, IsSuper
  <2>. QED
    BY <2>1, <2>2, <2>3 DEF DescType
<1>3. CASE b = [new EXCEPT !.ok = FALSE]
  <2>1. CASE new \in SuperBlocks
    BY <1>3, <2>1, Zenon DEF DescType, SuperBlocks, IsSuper
  <2>2. CASE new \in MapRecords
    BY <1>3, <2>2, Zenon DEF DescType, MapRecords, IsSuper
  <2>. QED
    BY <2>1, <2>2
<1>. QED
  BY <1>1, <1>2, <1>3 DEF CutShort

LEMMA CutData ==
    ASSUME NEW old \in DataType, NEW new \in ObjectRecords,
           NEW b \in CutShort(old, new)
    PROVE  b \in DataType
<1>1. CASE b = [old EXCEPT !.ok = FALSE]
  <2>1. CASE old \in ObjectRecords
    BY <1>1, <2>1, Zenon DEF DataType, ObjectRecords
  <2>2. CASE old = Blank
    BY <1>1, <2>2, Zenon DEF DataType, Blank
  <2>. QED
    BY <2>1, <2>2 DEF DataType
<1>2. CASE b = [new EXCEPT !.ok = FALSE]
  BY <1>2, Zenon DEF DataType, ObjectRecords
<1>. QED
  BY <1>1, <1>2 DEF CutShort

\* The windows of the new checkpoint: typed, simple, and apart from those of
\* the checkpoint it replaces.
LEMMA NewWindows ==
    ASSUME NEW a \in Appends, ~RingFull(a.sb, Len(a.objs))
    PROVE  /\ Len(a.objs) \in Nat
           /\ MapBlocks(Len(a.objs)) \in Nat /\ MapBlocks(Len(a.objs)) >= 1
           /\ NewSuper(a) \in SuperBlocks
           /\ \A j \in 0 .. MapBlocks(Len(a.objs)) :
                  /\ DescAt(NewSuper(a), j) \in DescSlots
                  /\ \A i \in 0 .. (a.sb.descLen - 1) :
                         DescAt(a.sb, i) # DescAt(NewSuper(a), j)
                  /\ \A i \in 0 .. MapBlocks(Len(a.objs)) :
                         DescAt(NewSuper(a), i) = DescAt(NewSuper(a), j) => i = j
           /\ \A j \in 0 .. (Len(a.objs) - 1) :
                  /\ DataAt(NewSuper(a), j) \in DataSlots
                  /\ \A i \in 0 .. (a.sb.dataLen - 1) :
                         DataAt(a.sb, i) # DataAt(NewSuper(a), j)
                  /\ \A i \in 0 .. (Len(a.objs) - 1) :
                         DataAt(NewSuper(a), i) = DataAt(NewSuper(a), j) => i = j
<1>. DEFINE n == Len(a.objs)
            m == MapBlocks(Len(a.objs))
            sb == a.sb
            new == NewSuper(a)
<1>1. n \in Nat /\ sb \in SuperBlocks /\ a.xid \in Nat /\ a.root \in Roots
  BY DEF Appends
<1>2. m \in Nat /\ m >= 1
  BY <1>1, MapsCover, Zenon
<1>3. /\ DescBlocks \in Nat /\ DescBlocks > 0
      /\ DataBlocks \in Nat /\ DataBlocks > 0
  BY RingAssumption
<1>4. PICK di \in DescSlots, dl \in 1 .. DescBlocks, ai \in DataSlots, al \in 0 .. DataBlocks :
          /\ sb.descIndex = di /\ sb.descLen = dl
          /\ sb.dataIndex = ai /\ sb.dataLen = al
  BY <1>1 DEF SuperBlocks
<1>5. di \in 0 .. (DescBlocks - 1) /\ ai \in 0 .. (DataBlocks - 1) /\ dl \in 0 .. DescBlocks
  BY <1>3 DEF DescSlots, DataSlots
<1>6. ~(m + 1 + dl > DescBlocks) /\ ~(n + al > DataBlocks)
  BY <1>4 DEF RingFull
<1>7. m + 1 \in Nat /\ dl + (m + 1) <= DescBlocks /\ al + n <= DataBlocks
  BY <1>1, <1>2, <1>3, <1>6
<1>8. /\ new.descIndex = (di + dl) % DescBlocks /\ new.dataIndex = (ai + al) % DataBlocks
      /\ new = [kind |-> "nxsb", ok |-> TRUE, xid |-> a.xid,
                descIndex |-> new.descIndex, descLen |-> m + 1,
                dataIndex |-> new.dataIndex, dataLen |-> n, root |-> a.root]
  BY <1>4 DEF NewSuper, DescAt, DataAt
<1>. HIDE DEF n, m, sb, new
<1>9. PICK nd, na : nd = new.descIndex /\ na = new.dataIndex
  OBVIOUS
<1>10. Follows(DescBlocks, di, dl, nd, m + 1)
  <2>1. nd = (di + dl) % DescBlocks
    BY <1>8, <1>9
  <2>. QED
    BY <1>3, <1>5, <1>7, <2>1, NextWindow
<1>11. Follows(DataBlocks, ai, al, na, n)
  <2>1. na = (ai + al) % DataBlocks
    BY <1>8, <1>9
  <2>. QED
    BY <1>1, <1>3, <1>5, <1>7, <2>1, NextWindow
<1>12. new \in SuperBlocks
  <2>1. m + 1 \in 1 .. DescBlocks /\ n \in 0 .. DataBlocks
    BY <1>1, <1>2, <1>3, <1>7
  <2>2. nd \in DescSlots /\ na \in DataSlots
    BY <1>10, <1>11 DEF DescSlots, DataSlots, Follows
  <2>3. new = [kind |-> "nxsb", ok |-> TRUE, xid |-> a.xid,
               descIndex |-> nd, descLen |-> m + 1,
               dataIndex |-> na, dataLen |-> n, root |-> a.root]
    BY <1>8, <1>9
  <2>. QED
    BY <1>1, <2>1, <2>2, <2>3 DEF SuperBlocks
<1>13. /\ \A j : DescAt(new, j) = (nd + j) % DescBlocks /\ DescAt(sb, j) = (di + j) % DescBlocks
       /\ \A j : DataAt(new, j) = (na + j) % DataBlocks /\ DataAt(sb, j) = (ai + j) % DataBlocks
  BY <1>4, <1>9 DEF DescAt, DataAt
<1>14. ASSUME NEW j \in 0 .. m
       PROVE  /\ DescAt(new, j) \in DescSlots
              /\ \A i \in 0 .. (sb.descLen - 1) : DescAt(sb, i) # DescAt(new, j)
              /\ \A i \in 0 .. m : DescAt(new, i) = DescAt(new, j) => i = j
  <2>1. 0 .. ((m + 1) - 1) = 0 .. m
    BY <1>2
  <2>2. (nd + j) % DescBlocks \in DescSlots
    BY <1>10, <2>1, Zenon DEF Follows, DescSlots
  <2>3. ASSUME NEW i \in 0 .. (dl - 1)
        PROVE  (di + i) % DescBlocks # (nd + j) % DescBlocks
    BY <1>10, <2>1, Zenon DEF Follows
  <2>4. ASSUME NEW i \in 0 .. m, (nd + i) % DescBlocks = (nd + j) % DescBlocks
        PROVE  i = j
    BY <1>10, <2>1, <2>4, Zenon DEF Follows
  <2>. QED
    BY <1>4, <1>13, <2>2, <2>3, <2>4
<1>15. ASSUME NEW j \in 0 .. (n - 1)
       PROVE  /\ DataAt(new, j) \in DataSlots
              /\ \A i \in 0 .. (sb.dataLen - 1) : DataAt(sb, i) # DataAt(new, j)
              /\ \A i \in 0 .. (n - 1) : DataAt(new, i) = DataAt(new, j) => i = j
  <2>1. (na + j) % DataBlocks \in DataSlots
    BY <1>11 DEF Follows, DataSlots
  <2>2. ASSUME NEW i \in 0 .. (al - 1)
        PROVE  (ai + i) % DataBlocks # (na + j) % DataBlocks
    BY <1>11 DEF Follows
  <2>3. ASSUME NEW i \in 0 .. (n - 1), (na + i) % DataBlocks = (na + j) % DataBlocks
        PROVE  i = j
    BY <1>11, <2>3 DEF Follows
  <2>. QED
    BY <1>4, <1>13, <2>1, <2>2, <2>3
<1>. QED
  BY <1>1, <1>2, <1>12, <1>14, <1>15 DEF n, m, sb, new

\* The mounted superblock is the only one of its rank.
LEMMA MountIsUnique ==
    ASSUME CkTypeOK, XidsDiffer, NEW s \in DescSlots, IsMounted(s)
    PROVE  Mounted = s
<1>1. ASSUME NEW t \in DescSlots, IsMounted(t)
      PROVE  t = s
  <2>1. IsSuper(desc[s]) /\ IsSuper(desc[t])
    BY <1>1 DEF IsMounted
  <2>2. desc[s] \in SuperBlocks /\ desc[t] \in SuperBlocks
    BY <2>1 DEF CkTypeOK, IsSuper, MapRecords, Blank
  <2>3. desc[s].xid \in Nat /\ desc[t].xid \in Nat
    BY <2>2 DEF SuperBlocks
  <2>4. desc[s].xid <= desc[t].xid /\ desc[t].xid <= desc[s].xid
    BY <1>1, <2>1 DEF IsMounted
  <2>. QED
    BY <2>1, <2>3, <2>4 DEF XidsDiffer
<1>. QED
  BY <1>1 DEF Mounted

\* A step that makes no superblock verify and leaves the mounted checkpoint's
\* blocks alone keeps it mounted, loadable and unchanged.
LEMMA MountKept ==
    ASSUME CkTypeOK, XidsDiffer, NEW s \in DescSlots, IsMounted(s), Loads(s),
           \A t \in DescSlots : IsSuper(desc'[t]) => desc'[t] = desc[t],
           \A j \in 0 .. (desc[s].descLen - 1) :
               desc'[DescAt(desc[s], j)] = desc[DescAt(desc[s], j)],
           \A k \in 0 .. (desc[s].dataLen - 1) :
               data'[DataAt(desc[s], k)] = data[DataAt(desc[s], k)]
    PROVE  XidsDiffer' /\ IsMounted(s)' /\ Loads(s)' /\ Content(s)' = Content(s)
<1>. DEFINE sb == desc[s]
<1>1. sb \in SuperBlocks
  BY DEF CkTypeOK, IsMounted, IsSuper, MapRecords, Blank
<1>2. sb.descLen \in Nat /\ sb.descLen >= 1 /\ sb.dataLen \in Nat
  BY <1>1, RingAssumption DEF SuperBlocks
<1>3. desc'[s] = sb
  <2>1. sb.descLen - 1 \in 0 .. (sb.descLen - 1) /\ s = DescAt(sb, sb.descLen - 1)
    BY <1>2 DEF Loads
  <2>. QED
    BY <2>1
<1>4. \A j \in 0 .. (sb.descLen - 2) :
          desc'[DescAt(sb, j)] = desc[DescAt(sb, j)]
  BY <1>2
<1>5. ASSUME NEW j \in 0 .. (sb.descLen - 2),
             NEW e \in desc[DescAt(sb, j)].entries
      PROVE  data'[e.slot] = data[e.slot]
  <2>1. \E k \in 0 .. (sb.dataLen - 1) : e.slot = DataAt(sb, k)
    BY DEF Loads, MapLoads
  <2>. QED
    BY <2>1
<1>6. XidsDiffer'
  BY DEF XidsDiffer
<1>7. IsMounted(s)'
  BY <1>3 DEF IsMounted
<1>8. Loads(s)'
  <2>1. s = DescAt(desc'[s], desc'[s].descLen - 1)
    BY <1>3 DEF Loads
  <2>2. ASSUME NEW j \in 0 .. (sb.descLen - 2)
        PROVE  MapLoads(sb, desc[DescAt(sb, j)])'
    <3>1. MapLoads(sb, desc[DescAt(sb, j)])
      BY DEF Loads
    <3>. DEFINE mp == desc[DescAt(sb, j)]
    <3>2. desc'[DescAt(desc'[s], j)] = mp
      BY <1>3, <1>4
    <3>3. /\ mp.kind = "map" /\ mp.ok /\ mp.xid = sb.xid
          /\ \A e \in mp.entries :
               /\ \E k \in 0 .. (sb.dataLen - 1) : e.slot = DataAt(sb, k)
               /\ data'[e.slot].kind = "eph" /\ data'[e.slot].ok
               /\ data'[e.slot].oid = e.oid /\ data'[e.slot].xid = sb.xid
      BY <1>5, <3>1, SMTT(30) DEF MapLoads
    <3>. QED
      BY <1>3, <3>2, <3>3, SMTT(30) DEF MapLoads, DescAt, DataAt
  <2>. QED
    BY <1>3, <2>1, <2>2 DEF Loads, DescAt
<1>9. Content(s)' = Content(s)
  <2>1. \A e : e \in Entries(sb)' <=> e \in Entries(sb)
    <3>1. \A j \in 0 .. (sb.descLen - 2) :
              desc'[DescAt(desc'[s], j)].entries = desc[DescAt(sb, j)].entries
      BY <1>3, <1>4
    <3>. QED
      BY <1>3, <3>1 DEF Entries, DescAt
  <2>2. Entries(sb)' = Entries(sb)
    BY <2>1, Zenon
  <2>3. \A e \in Entries(sb) : data'[e.slot] = data[e.slot]
    BY <1>5 DEF Entries
  <2>4. {<<e.oid, data'[e.slot].body>> : e \in Entries(sb)} =
            {<<e.oid, data[e.slot].body>> : e \in Entries(sb)}
    BY <2>3
  <2>5. Content(s)' = [root |-> sb.root,
                       objects |-> {<<e.oid, data'[e.slot].body>> : e \in Entries(sb)}]
    BY <1>3, <2>2 DEF Content
  <2>. QED
    BY <2>4, <2>5, Zenon DEF Content
<1>. QED
  BY <1>6, <1>7, <1>8, <1>9

LEMMA MountIsUniqueNext ==
    ASSUME CkTypeOK', XidsDiffer', NEW s \in DescSlots, IsMounted(s)'
    PROVE  Mounted' = s
<1>1. ASSUME NEW t \in DescSlots, IsMounted(t)'
      PROVE  t = s
  <2>1. IsSuper(desc'[s]) /\ IsSuper(desc'[t])
    BY <1>1 DEF IsMounted
  <2>2. desc'[s] \in SuperBlocks /\ desc'[t] \in SuperBlocks
    BY <2>1 DEF CkTypeOK, IsSuper, MapRecords, Blank
  <2>3. desc'[s].xid \in Nat /\ desc'[t].xid \in Nat
    BY <2>2 DEF SuperBlocks
  <2>4. desc'[s].xid <= desc'[t].xid /\ desc'[t].xid <= desc'[s].xid
    BY <1>1, <2>1 DEF IsMounted
  <2>. QED
    BY <2>1, <2>3, <2>4 DEF XidsDiffer
<1>. QED
  BY <1>1 DEF Mounted

\* The checkpoint an append in progress extends is the one that is mounted.
LEMMA AppendExtends ==
    ASSUME IInv, app # NoAppend
    PROVE  /\ AppendSound /\ app \in Appends
           /\ Mounted \in DescSlots /\ IsMounted(Mounted) /\ Loads(Mounted)
           /\ app.sb = desc[Mounted]
<1>1. AppendSound
  BY DEF IInv
<1>2. PICK s \in DescSlots : IsMounted(s) /\ app.sb = desc[s]
  BY <1>1 DEF AppendSound
<1>3. PICK t \in DescSlots : IsMounted(t) /\ Loads(t)
  BY DEF IInv, MountLoads
<1>4. Mounted = s /\ Mounted = t
  BY <1>2, <1>3, MountIsUnique DEF IInv
<1>. QED
  BY <1>1, <1>2, <1>3, <1>4 DEF AppendSound

\* A step that keeps the mounted checkpoint keeps what the image mounts.
LEMMA KeptContent ==
    ASSUME CkTypeOK', XidsDiffer', NEW s \in DescSlots, s = Mounted, IsMounted(s)',
           Content(s)' = Content(s)
    PROVE  Content(Mounted)' = Content(Mounted)
<1>1. Mounted' = s
  BY MountIsUniqueNext
<1>2. Content(Mounted)' = Content(s)'
  BY <1>1 DEF Content
<1>. QED
  BY <1>2

LEMMA ElementOf ==
    ASSUME NEW S, NEW q \in Seq(S), NEW i \in 1 .. Len(q)
    PROVE  q[i] \in S
  OBVIOUS

\* What an append writes is of the rings' types.
LEMMA BlocksTyped ==
    ASSUME NEW a \in Appends, ~RingFull(a.sb, Len(a.objs))
    PROVE  /\ \A k \in 0 .. (Len(a.objs) - 1) : ObjectBlock(a, k) \in ObjectRecords
           /\ \A j \in 0 .. (MapBlocks(Len(a.objs)) - 1) : MapBlock(a, j) \in MapRecords
<1>. DEFINE n == Len(a.objs)
<1>1. n \in Nat /\ a.xid \in Nat
  BY DEF Appends
<1>2. ASSUME NEW k \in 0 .. (n - 1)
      PROVE  a.objs[k + 1].oid \in Oids /\ a.objs[k + 1].body \in Bodies
  <2>1. k + 1 \in 1 .. n
    BY <1>1
  <2>2. a.objs \in Seq([oid : Oids, body : Bodies])
    BY DEF Appends
  <2>3. a.objs[k + 1] \in [oid : Oids, body : Bodies]
    BY <2>1, <2>2, ElementOf, Zenon
  <2>. QED
    BY <2>3
<1>3. ASSUME NEW k \in 0 .. (n - 1)
      PROVE  ObjectBlock(a, k) \in ObjectRecords
  BY <1>1, <1>2 DEF ObjectBlock, ObjectRecords
<1>4. \A k \in 0 .. (n - 1) : DataAt(NewSuper(a), k) \in DataSlots
  BY NewWindows
<1>5. ASSUME NEW j \in 0 .. (MapBlocks(n) - 1)
      PROVE  MapBlock(a, j) \in MapRecords
  <2>1. MapBlock(a, j).entries \subseteq [oid : Oids, slot : DataSlots]
    BY <1>2, <1>4 DEF MapBlock
  <2>. QED
    BY <1>1, <2>1 DEF MapBlock, MapRecords
<1>. QED
  BY <1>3, <1>5

-----------------------------------------------------------------------------
(* One lemma per step. *)

LEMMA BeginKeeps ==
    ASSUME IInv, NEW objs \in Seq([oid : Oids, body : Bodies]), NEW root \in Roots,
           BeginAppend(objs, root)
    PROVE  IInv'
<1>1. PICK s \in DescSlots : IsMounted(s) /\ Loads(s)
  BY DEF IInv, MountLoads
<1>2. Mounted = s
  BY <1>1, MountIsUnique DEF IInv
<1>3. desc' = desc /\ data' = data
  BY DEF BeginAppend
<1>4. desc[s] \in SuperBlocks
  BY <1>1 DEF IInv, CkTypeOK, IsMounted, IsSuper, MapRecords, Blank
<1>5. desc[s].xid \in Nat
  BY <1>4 DEF SuperBlocks
<1>6. app' = [phase |-> "objects", sb |-> desc[s], objs |-> objs,
              xid |-> desc[s].xid + 1, root |-> root, next |-> 0]
  BY <1>2 DEF BeginAppend
<1>7. app' \in Appends
  BY <1>4, <1>5, <1>6 DEF Appends
<1>8. CkTypeOK' /\ XidsDiffer' /\ MountLoads'
  <2>1. CkTypeOK'
    BY <1>3, <1>7 DEF IInv, CkTypeOK
  <2>2. XidsDiffer'
    BY <1>3 DEF IInv, XidsDiffer, IsSuper
  <2>3. MountLoads'
    BY <1>3 DEF IInv, MountLoads, IsMounted, IsSuper, Loads, MapLoads, DescAt, DataAt
  <2> QED BY <2>1, <2>2, <2>3
<1>9. AppendSound'
  <2>1. IsMounted(s)' /\ app'.sb = desc'[s] /\ app'.xid = app'.sb.xid + 1
    BY <1>1, <1>3, <1>6 DEF IsMounted
  <2>2. ~RingFull(app'.sb, Len(app'.objs))
    BY <1>2, <1>6 DEF BeginAppend
  <2>3. app'.phase = "objects" /\ app'.next = 0 /\ Len(app'.objs) \in Nat
    BY <1>6
  <2>4. \A k \in 0 .. (Len(app'.objs) - 1) : ~(app'.phase = "maps" \/ k < app'.next)
    BY <2>3
  <2>. QED
    BY <1>7, <2>1, <2>2, <2>3, <2>4 DEF AppendSound
<1>. QED
  BY <1>8, <1>9 DEF IInv

\* Writing to one slot outside the mounted checkpoint's windows, and no
\* superblock that verifies.
LEMMA OutsideKeeps ==
    ASSUME IInv, app # NoAppend, CkTypeOK',
           \A t \in DescSlots : IsSuper(desc'[t]) => desc'[t] = desc[t],
           \/ desc' = desc
           \/ \E j \in 0 .. MapBlocks(Len(app.objs)) : \E b :
                  desc' = [desc EXCEPT ![DescAt(NewSuper(app), j)] = b],
           \/ data' = data
           \/ \E k \in 0 .. (Len(app.objs) - 1) : \E b :
                  data' = [data EXCEPT ![DataAt(NewSuper(app), k)] = b]
    PROVE  /\ XidsDiffer' /\ MountLoads'
           /\ IsMounted(Mounted)' /\ Mounted' = Mounted
           /\ desc'[Mounted] = desc[Mounted]
           /\ Content(Mounted)' = Content(Mounted)
<1>1. PICK s \in DescSlots : /\ s = Mounted /\ IsMounted(s) /\ Loads(s)
                             /\ app.sb = desc[s] /\ AppendSound /\ app \in Appends
  BY AppendExtends
<1>2. ~RingFull(app.sb, Len(app.objs))
  BY <1>1 DEF AppendSound
<1>3. CkTypeOK /\ XidsDiffer
  BY DEF IInv
<1>4. /\ \A j \in 0 .. MapBlocks(Len(app.objs)), i \in 0 .. (desc[s].descLen - 1) :
             DescAt(desc[s], i) # DescAt(NewSuper(app), j)
      /\ \A j \in 0 .. (Len(app.objs) - 1), i \in 0 .. (desc[s].dataLen - 1) :
             DataAt(desc[s], i) # DataAt(NewSuper(app), j)
  BY <1>1, <1>2, NewWindows
<1>5. desc[s] \in SuperBlocks
  BY <1>1, <1>3 DEF CkTypeOK, IsMounted, IsSuper, MapRecords, Blank
<1>6. /\ \A i \in Nat : DescAt(desc[s], i) \in DescSlots
      /\ \A i \in Nat : DataAt(desc[s], i) \in DataSlots
  <2>1. /\ desc[s].descIndex \in Nat /\ desc[s].dataIndex \in Nat
        /\ DescBlocks \in Nat /\ DescBlocks > 0 /\ DataBlocks \in Nat /\ DataBlocks > 0
    BY <1>5, RingAssumption DEF SuperBlocks, DescSlots, DataSlots
  <2>2. ASSUME NEW i \in Nat
        PROVE  desc[s].descIndex + i \in Nat /\ desc[s].dataIndex + i \in Nat
    BY <2>1
  <2>. QED
    BY <2>1, <2>2, RingSlot, Zenon DEF DescAt, DataAt, DescSlots, DataSlots
<1>7. desc[s].descLen \in Nat /\ desc[s].descLen >= 1 /\ desc[s].dataLen \in Nat
  BY <1>5, RingAssumption DEF SuperBlocks
<1>8. \A i \in 0 .. (desc[s].descLen - 1) :
          desc'[DescAt(desc[s], i)] = desc[DescAt(desc[s], i)]
  BY <1>3, <1>4, <1>6, <1>7 DEF CkTypeOK
<1>9. \A i \in 0 .. (desc[s].dataLen - 1) :
          data'[DataAt(desc[s], i)] = data[DataAt(desc[s], i)]
  BY <1>3, <1>4, <1>6, <1>7 DEF CkTypeOK
<1>10. XidsDiffer' /\ IsMounted(s)' /\ Loads(s)' /\ Content(s)' = Content(s)
  BY <1>1, <1>3, <1>8, <1>9, MountKept
<1>11. Mounted' = s
  BY <1>10, MountIsUniqueNext
<1>12. desc'[s] = desc[s]
  <2>1. desc[s].descLen - 1 \in 0 .. (desc[s].descLen - 1)
    BY <1>7
  <2>2. s = DescAt(desc[s], desc[s].descLen - 1)
    BY <1>1 DEF Loads
  <2>. QED
    BY <1>8, <2>1, <2>2
<1>13. Content(Mounted)' = Content(Mounted)
  BY <1>1, <1>10, KeptContent
<1>14. MountLoads'
  BY <1>10 DEF MountLoads
<1>15. IsMounted(Mounted)'
  BY <1>10, <1>11 DEF IsMounted
<1>. QED
  BY <1>1, <1>10, <1>11, <1>12, <1>13, <1>14, <1>15

\* The facts every step of an append starts from.
LEMMA StepFacts ==
    ASSUME IInv, app.phase \in {"objects", "maps"}
    PROVE  /\ app # NoAppend /\ app \in Appends /\ AppendSound
           /\ ~RingFull(app.sb, Len(app.objs))
           /\ Len(app.objs) \in Nat /\ MapBlocks(Len(app.objs)) \in Nat
           /\ MapBlocks(Len(app.objs)) >= 1
           /\ desc \in [DescSlots -> DescType] /\ data \in [DataSlots -> DataType]
<1>1. app # NoAppend
  BY DEF NoAppend
<1>2. app \in Appends /\ AppendSound
  BY <1>1, AppendExtends
<1>3. ~RingFull(app.sb, Len(app.objs))
  BY <1>2 DEF AppendSound
<1>4. desc \in [DescSlots -> DescType] /\ data \in [DataSlots -> DataType]
  BY DEF IInv, CkTypeOK, DescType, DataType
<1>. QED
  BY <1>1, <1>2, <1>3, <1>4, NewWindows

LEMMA ObjectKeeps ==
    ASSUME IInv, WriteObject
    PROVE  IInv' /\ Content(Mounted)' = Content(Mounted)
<1>. DEFINE n == Len(app.objs)
<1>1. /\ app.phase = "objects" /\ app.next < n /\ desc' = desc
      /\ data' = [data EXCEPT ![DataAt(NewSuper(app), app.next)] =
                                    ObjectBlock(app, app.next)]
      /\ app' = [app EXCEPT !.next = @ + 1]
  BY DEF WriteObject
<1>2. /\ app # NoAppend /\ app \in Appends /\ AppendSound
      /\ ~RingFull(app.sb, n) /\ n \in Nat /\ MapBlocks(n) \in Nat
      /\ desc \in [DescSlots -> DescType] /\ data \in [DataSlots -> DataType]
  BY <1>1, StepFacts
<1>3. app.next \in 0 .. (n - 1)
  BY <1>1, <1>2 DEF Appends
<1>4. /\ app' \in Appends /\ app'.sb = app.sb /\ app'.objs = app.objs
      /\ app'.xid = app.xid /\ app'.root = app.root /\ app'.phase = "objects"
      /\ app'.next = app.next + 1
  BY <1>1, <1>2 DEF Appends
<1>5. data' \in [DataSlots -> DataType]
  BY <1>1, <1>2, <1>3, NewWindows, BlocksTyped DEF DataType
<1>6. CkTypeOK'
  BY <1>1, <1>2, <1>4, <1>5 DEF CkTypeOK, DescType, DataType
<1>7. /\ XidsDiffer' /\ MountLoads' /\ IsMounted(Mounted)' /\ Mounted' = Mounted
      /\ desc'[Mounted] = desc[Mounted] /\ Content(Mounted)' = Content(Mounted)
  BY <1>1, <1>2, <1>3, <1>6, OutsideKeeps, Zenon
<1>8. AppendSound'
  <2>1. NewSuper(app)' = NewSuper(app)
    BY <1>4 DEF NewSuper, DescAt, DataAt
  <2>2. \E s \in DescSlots : IsMounted(s)' /\ app'.sb = desc'[s]
    BY <1>2, <1>4, <1>7, AppendExtends DEF IsMounted
  <2>3. ASSUME NEW k \in 0 .. (n - 1), k < app.next + 1
        PROVE  data'[DataAt(NewSuper(app), k)] = ObjectBlock(app, k)
    <3>1. CASE k = app.next
      BY <1>1, <1>2, <1>3, <3>1, NewWindows
    <3>2. CASE k # app.next
      <4>1. k < app.next
        BY <1>3, <2>3, <3>2
      <4>2. data[DataAt(NewSuper(app), k)] = ObjectBlock(app, k)
        BY <1>2, <4>1 DEF AppendSound
      <4>3. DataAt(NewSuper(app), k) # DataAt(NewSuper(app), app.next)
        BY <1>2, <1>3, <3>2, NewWindows
      <4>4. DataAt(NewSuper(app), k) \in DataSlots
        BY <1>2, NewWindows
      <4>. QED
        BY <1>1, <1>2, <4>2, <4>3, <4>4
    <3>. QED
      BY <3>1, <3>2
  <2>4. \A k \in 0 .. (n - 1) :
            app'.phase = "maps" \/ k < app'.next =>
                data'[DataAt(NewSuper(app'), k)] = ObjectBlock(app', k)
    BY <1>4, <2>1, <2>3 DEF ObjectBlock, NewSuper, DataAt, DescAt
  <2>5. app'.xid = app'.sb.xid + 1 /\ ~RingFull(app'.sb, Len(app'.objs))
    BY <1>2, <1>4 DEF AppendSound
  <2>. QED
    BY <1>4, <2>2, <2>4, <2>5 DEF AppendSound
<1>. QED
  BY <1>6, <1>7, <1>8 DEF IInv

LEMMA StartMapsKeeps ==
    ASSUME IInv, StartMaps
    PROVE  IInv' /\ Content(Mounted)' = Content(Mounted)
<1>. DEFINE n == Len(app.objs)
<1>1. /\ app.phase = "objects" /\ app.next = n /\ desc' = desc /\ data' = data
      /\ app' = [app EXCEPT !.phase = "maps", !.next = 0]
  BY DEF StartMaps
<1>2. /\ app # NoAppend /\ app \in Appends /\ AppendSound
      /\ ~RingFull(app.sb, n) /\ n \in Nat /\ MapBlocks(n) \in Nat
  BY <1>1, StepFacts
<1>3. /\ app' \in Appends /\ app'.sb = app.sb /\ app'.objs = app.objs
      /\ app'.xid = app.xid /\ app'.root = app.root /\ app'.phase = "maps"
      /\ app'.next = 0
  BY <1>1, <1>2, Zenon DEF Appends
<1>4. CkTypeOK'
  BY <1>1, <1>3 DEF IInv, CkTypeOK
<1>5. /\ XidsDiffer' /\ MountLoads' /\ IsMounted(Mounted)' /\ Mounted' = Mounted
      /\ Content(Mounted)' = Content(Mounted)
  BY <1>1, <1>2, <1>4, OutsideKeeps
<1>6. AppendSound'
  <2>1. NewSuper(app') = NewSuper(app)
    BY <1>3 DEF NewSuper, DescAt, DataAt
  <2>2. \E s \in DescSlots : IsMounted(s)' /\ app'.sb = desc'[s]
    BY <1>1, <1>2, <1>3, <1>5, AppendExtends DEF IsMounted
  <2>3. ASSUME NEW k \in 0 .. (n - 1)
        PROVE  data[DataAt(NewSuper(app), k)] = ObjectBlock(app, k)
    <3>1. k < app.next
      BY <1>1, <1>2
    <3>. QED
      BY <1>2, <3>1 DEF AppendSound
  <2>4. \A k \in 0 .. (n - 1) :
            data'[DataAt(NewSuper(app'), k)] = ObjectBlock(app', k)
    BY <1>1, <1>3, <2>1, <2>3 DEF ObjectBlock
  <2>5. app'.xid = app'.sb.xid + 1 /\ ~RingFull(app'.sb, Len(app'.objs))
    BY <1>2, <1>3 DEF AppendSound
  <2>6. \A j \in 0 .. (MapBlocks(n) - 1) : ~(j < app'.next)
    BY <1>2, <1>3
  <2>. QED
    BY <1>3, <2>2, <2>4, <2>5, <2>6 DEF AppendSound
<1>. QED
  BY <1>4, <1>5, <1>6 DEF IInv

LEMMA MapKeeps ==
    ASSUME IInv, WriteMap
    PROVE  IInv' /\ Content(Mounted)' = Content(Mounted)
<1>. DEFINE n == Len(app.objs)
            m == MapBlocks(Len(app.objs))
<1>1. /\ app.phase = "maps" /\ app.next < m /\ data' = data
      /\ desc' = [desc EXCEPT ![DescAt(NewSuper(app), app.next)] =
                                    MapBlock(app, app.next)]
      /\ app' = [app EXCEPT !.next = @ + 1]
  BY DEF WriteMap
<1>2. /\ app # NoAppend /\ app \in Appends /\ AppendSound
      /\ ~RingFull(app.sb, n) /\ n \in Nat /\ m \in Nat
      /\ desc \in [DescSlots -> DescType] /\ data \in [DataSlots -> DataType]
  BY <1>1, StepFacts
<1>3. app.next \in 0 .. (m - 1) /\ app.next \in 0 .. m
  BY <1>1, <1>2 DEF Appends
<1>4. /\ app' \in Appends /\ app'.sb = app.sb /\ app'.objs = app.objs
      /\ app'.xid = app.xid /\ app'.root = app.root /\ app'.phase = "maps"
      /\ app'.next = app.next + 1
  BY <1>1, <1>2 DEF Appends
<1>5. MapBlock(app, app.next) \in MapRecords
  BY <1>2, <1>3, BlocksTyped
<1>6. desc' \in [DescSlots -> DescType]
  BY <1>1, <1>2, <1>3, <1>5, NewWindows DEF DescType
<1>7. CkTypeOK'
  BY <1>1, <1>2, <1>4, <1>6 DEF CkTypeOK, DescType, DataType
<1>8. \A t \in DescSlots : IsSuper(desc'[t]) => desc'[t] = desc[t]
  BY <1>1, <1>2, <1>5 DEF IsSuper, MapRecords
<1>9. /\ XidsDiffer' /\ MountLoads' /\ IsMounted(Mounted)' /\ Mounted' = Mounted
      /\ desc'[Mounted] = desc[Mounted] /\ Content(Mounted)' = Content(Mounted)
  BY <1>1, <1>2, <1>3, <1>7, <1>8, OutsideKeeps, Zenon
<1>10. AppendSound'
  <2>1. NewSuper(app') = NewSuper(app)
    BY <1>4 DEF NewSuper, DescAt, DataAt
  <2>2. \E s \in DescSlots : IsMounted(s)' /\ app'.sb = desc'[s]
    BY <1>2, <1>4, <1>9, AppendExtends DEF IsMounted
  <2>3. \A k \in 0 .. (n - 1) : data'[DataAt(NewSuper(app'), k)] = ObjectBlock(app', k)
    BY <1>1, <1>2, <1>4, <2>1 DEF AppendSound, ObjectBlock
  <2>4. ASSUME NEW j \in 0 .. (m - 1), j < app.next + 1
        PROVE  desc'[DescAt(NewSuper(app), j)] = MapBlock(app, j)
    <3>0. j \in 0 .. m
      BY <1>2
    <3>1. CASE j = app.next
      BY <1>1, <1>2, <1>3, <3>1, NewWindows
    <3>2. CASE j # app.next
      <4>1. j < app.next
        BY <1>3, <2>4, <3>2
      <4>2. desc[DescAt(NewSuper(app), j)] = MapBlock(app, j)
        BY <1>1, <1>2, <4>1 DEF AppendSound
      <4>3. DescAt(NewSuper(app), j) # DescAt(NewSuper(app), app.next)
        BY <1>2, <1>3, <3>0, <3>2, NewWindows
      <4>4. DescAt(NewSuper(app), j) \in DescSlots
        BY <1>2, <3>0, NewWindows
      <4>. QED
        BY <1>1, <1>2, <4>2, <4>3, <4>4
    <3>. QED
      BY <3>1, <3>2
  <2>5. \A j \in 0 .. (m - 1) : j < app'.next =>
            desc'[DescAt(NewSuper(app'), j)] = MapBlock(app', j)
    <3>1. \A j : MapBlock(app', j) = MapBlock(app, j)
      BY <1>4, <2>1 DEF MapBlock
    <3>2. app'.next = app.next + 1
      BY <1>4
    <3> QED BY <2>1, <2>4, <3>1, <3>2
  <2>6. app'.xid = app'.sb.xid + 1 /\ ~RingFull(app'.sb, Len(app'.objs))
    BY <1>2, <1>4 DEF AppendSound
  <2>. QED
    BY <1>4, <2>2, <2>3, <2>5, <2>6 DEF AppendSound
<1>. QED
  BY <1>7, <1>9, <1>10 DEF IInv

LEMMA CutKeeps ==
    ASSUME IInv, CutAppend
    PROVE  IInv' /\ Content(Mounted)' = Content(Mounted)
<1>. DEFINE n == Len(app.objs)
            m == MapBlocks(Len(app.objs))
<1>0. app.phase \in {"objects", "maps"} /\ app' = NoAppend
  BY DEF CutAppend, CutObject, CutMap, CutSuper
<1>1. /\ app # NoAppend /\ app \in Appends /\ AppendSound
      /\ ~RingFull(app.sb, n) /\ n \in Nat /\ m \in Nat
      /\ desc \in [DescSlots -> DescType] /\ data \in [DataSlots -> DataType]
  BY <1>0, StepFacts
<1>2. app.next \in Nat
  BY <1>1 DEF Appends
<1>3. CASE CutObject
  <2>1. app.next \in 0 .. (n - 1) /\ desc' = desc
    BY <1>1, <1>2, <1>3 DEF CutObject
  <2>2. ObjectBlock(app, app.next) \in ObjectRecords
        /\ DataAt(NewSuper(app), app.next) \in DataSlots
    BY <1>1, <2>1, BlocksTyped, NewWindows
  <2>3. PICK b \in CutShort(data[DataAt(NewSuper(app), app.next)],
                            ObjectBlock(app, app.next)) :
            data' = [data EXCEPT ![DataAt(NewSuper(app), app.next)] = b]
    BY <1>3, Zenon DEF CutObject
  <2>4. b \in DataType
    BY <1>1, <2>2, CutData
  <2>5. CkTypeOK'
    BY <1>0, <1>1, <2>1, <2>3, <2>4, Zenon DEF CkTypeOK, DescType, DataType
  <2>6. XidsDiffer' /\ MountLoads' /\ Content(Mounted)' = Content(Mounted)
    BY <1>1, <2>1, <2>3, <2>5, OutsideKeeps, Zenon
  <2>. QED
    BY <1>0, <2>5, <2>6 DEF IInv
<1>4. CASE CutMap \/ CutSuper
  <2>1. PICK new \in SuperBlocks \cup MapRecords :
            \E b \in CutShort(desc[DescAt(NewSuper(app), app.next)], new) :
                desc' = [desc EXCEPT ![DescAt(NewSuper(app), app.next)] = b]
    <3>1. CASE CutMap
      <4>1. app.next \in 0 .. (m - 1)
        BY <1>1, <1>2, <3>1 DEF CutMap
      <4>2. MapBlock(app, app.next) \in MapRecords
        BY <1>1, <4>1, BlocksTyped
      <4>. QED
        BY <3>1, <4>2, Zenon DEF CutMap
    <3>2. CASE CutSuper
      <4>1. NewSuper(app) \in SuperBlocks
        BY <1>1, NewWindows
      <4>. QED
        BY <3>2, <4>1, Zenon DEF CutSuper
    <3>. QED
      BY <1>4, <3>1, <3>2
  <2>2. PICK b \in CutShort(desc[DescAt(NewSuper(app), app.next)], new) :
            desc' = [desc EXCEPT ![DescAt(NewSuper(app), app.next)] = b]
    BY <2>1, Zenon
  <2>3. app.next \in 0 .. m /\ data' = data
    BY <1>1, <1>2, <1>4 DEF CutMap, CutSuper
  <2>4. DescAt(NewSuper(app), app.next) \in DescSlots
    BY <1>1, <2>3, NewWindows
  <2>5. /\ b \in DescType
        /\ IsSuper(b) => b = desc[DescAt(NewSuper(app), app.next)]
    BY <1>1, <2>4, CutDesc
  <2>6. \A t \in DescSlots : IsSuper(desc'[t]) => desc'[t] = desc[t]
    BY <1>1, <2>2, <2>5
  <2>7. CkTypeOK'
    BY <1>0, <1>1, <2>2, <2>3, <2>5, Zenon DEF CkTypeOK, DescType, DataType
  <2>8. XidsDiffer' /\ MountLoads' /\ Content(Mounted)' = Content(Mounted)
    BY <1>1, <2>2, <2>3, <2>6, <2>7, OutsideKeeps, Zenon
  <2>. QED
    BY <1>0, <2>7, <2>8 DEF IInv
<1>. QED
  BY <1>3, <1>4 DEF CutAppend

\* The last write publishes: it makes the new checkpoint the newest, and by
\* then everything that checkpoint names is in place.
LEMMA SuperPublishes ==
    ASSUME IInv, WriteSuper
    PROVE  IInv' /\ Content(Mounted)' = Requested(app)
<1>0. PICK a : a = app
  OBVIOUS
<1>. DEFINE n == Len(a.objs)
            m == MapBlocks(Len(a.objs))
            new == NewSuper(a)
            ns == DescAt(NewSuper(a), MapBlocks(Len(a.objs)))
<1>1. /\ a.phase = "maps" /\ a.next = m /\ data' = data /\ app' = NoAppend
      /\ desc' = [desc EXCEPT ![ns] = new]
  BY <1>0 DEF WriteSuper
<1>2. /\ a # NoAppend /\ a \in Appends /\ AppendSound
      /\ ~RingFull(a.sb, n) /\ n \in Nat /\ m \in Nat /\ m >= 1
      /\ desc \in [DescSlots -> DescType] /\ data \in [DataSlots -> DataType]
  BY <1>0, <1>1, StepFacts
<1>3. /\ new \in SuperBlocks /\ ns \in DescSlots
      /\ \A j \in 0 .. (m - 1) : DescAt(new, j) \in DescSlots /\ DescAt(new, j) # ns
  BY <1>2, NewWindows
<1>4. /\ new.kind = "nxsb" /\ new.ok /\ new.xid = a.xid /\ new.root = a.root
      /\ new.descLen = m + 1 /\ new.dataLen = n
  BY DEF NewSuper
<1>5. /\ \A k \in 0 .. (n - 1) : data[DataAt(new, k)] = ObjectBlock(a, k)
      /\ \A j \in 0 .. (m - 1) : desc[DescAt(new, j)] = MapBlock(a, j)
  BY <1>0, <1>1, <1>2 DEF AppendSound
<1>6. PICK s \in DescSlots : IsMounted(s) /\ a.sb = desc[s] /\ a.xid = a.sb.xid + 1
  BY <1>0, <1>2 DEF AppendSound
<1>7. /\ \A j \in 0 .. (m - 1) : MapBlock(a, j).entries =
             {[oid |-> a.objs[k + 1].oid, slot |-> DataAt(new, k)] :
                k \in {k \in 0 .. (n - 1) :
                         j * MapCapacity <= k /\ k < (j + 1) * MapCapacity}}
      /\ \A j \in 0 .. (m - 1) : /\ MapBlock(a, j).kind = "map"
                                 /\ MapBlock(a, j).ok
                                 /\ MapBlock(a, j).xid = new.xid
  BY <1>4 DEF MapBlock
<1>8. \A k \in 0 .. (n - 1) :
          \E j \in 0 .. (m - 1) : j * MapCapacity <= k /\ k < (j + 1) * MapCapacity
  BY <1>2, MapsCover, Zenon
<1>9. a.xid \in Nat
  BY <1>2 DEF Appends
<1>. HIDE DEF n, m, new, ns
<1>10. /\ desc'[ns] = new
       /\ \A t \in DescSlots : t # ns => desc'[t] = desc[t]
       /\ \A j \in 0 .. (m - 1) : desc'[DescAt(new, j)] = MapBlock(a, j)
  BY <1>1, <1>2, <1>3, <1>5
<1>11. CkTypeOK'
  BY <1>1, <1>2, <1>3 DEF CkTypeOK, DescType, DataType
<1>12. \A t \in DescSlots : IsSuper(desc[t]) => desc[t].xid \in Nat /\ desc[t].xid < new.xid
  <2>1. ASSUME NEW t \in DescSlots, IsSuper(desc[t])
        PROVE  desc[t].xid \in Nat
    <3>1. desc[t] \in SuperBlocks
      BY <1>2, <2>1 DEF DescType, IsSuper, MapRecords, Blank
    <3>. QED
      BY <3>1 DEF SuperBlocks
  <2>. QED
    BY <1>4, <1>6, <1>9, <2>1 DEF IsMounted
<1>13. IsMounted(ns)'
  BY <1>3, <1>4, <1>9, <1>10, <1>12 DEF IsMounted, IsSuper
<1>14. XidsDiffer'
  <2>1. XidsDiffer
    BY DEF IInv
  <2>2. ASSUME NEW t \in DescSlots, t # ns, IsSuper(desc'[t])
        PROVE  desc'[t] = desc[t] /\ desc'[t].xid # new.xid
    BY <1>4, <1>9, <1>10, <1>12, <2>2
  <2>. QED
    BY <1>3, <1>10, <2>1, <2>2 DEF XidsDiffer
<1>15. Loads(ns)'
  <2>1. ns = DescAt(new, new.descLen - 1)
    <3>1. new.descLen - 1 = m
      BY <1>2, <1>4
    <3>. QED
      BY <3>1 DEF ns, new, m
  <2>2. 0 .. (new.descLen - 2) = 0 .. (m - 1) /\ 0 .. (new.dataLen - 1) = 0 .. (n - 1)
    BY <1>2, <1>4
  <2>3. ASSUME NEW j \in 0 .. (m - 1), NEW e \in MapBlock(a, j).entries
        PROVE  /\ \E k \in 0 .. (n - 1) : e.slot = DataAt(new, k)
               /\ data'[e.slot].kind = "eph" /\ data'[e.slot].ok
               /\ data'[e.slot].oid = e.oid /\ data'[e.slot].xid = new.xid
    <3>1. PICK k \in 0 .. (n - 1) :
              e = [oid |-> a.objs[k + 1].oid, slot |-> DataAt(new, k)]
      BY <1>7
    <3>2. data'[e.slot] = ObjectBlock(a, k)
      BY <1>1, <1>5, <3>1
    <3>. QED
      BY <1>4, <3>1, <3>2 DEF ObjectBlock
  <2>4. ASSUME NEW j \in 0 .. (new.descLen - 2)
        PROVE  MapLoads(desc[ns], desc[DescAt(desc[ns], j)])'
    <3>1. j \in 0 .. (m - 1)
      BY <2>2, Zenon
    <3>2. desc'[DescAt(new, j)] = MapBlock(a, j)
      BY <1>10, <3>1
    <3>3. MapBlock(a, j).kind = "map" /\ MapBlock(a, j).ok /\ MapBlock(a, j).xid = new.xid
      BY <1>7, <3>1
    <3>4. \A e \in MapBlock(a, j).entries :
              /\ \E k \in 0 .. (new.dataLen - 1) : e.slot = DataAt(new, k)
              /\ data'[e.slot].kind = "eph" /\ data'[e.slot].ok
              /\ data'[e.slot].oid = e.oid /\ data'[e.slot].xid = new.xid
      BY <2>2, <2>3, <3>1, Zenon
    <3>. QED
      BY <1>10, <3>2, <3>3, <3>4 DEF MapLoads, DescAt, DataAt
  <2>. QED
    BY <1>10, <2>1, <2>4 DEF Loads, DescAt
<1>16. Content(ns)' = Requested(a)
  <2>. DEFINE all == UNION {MapBlock(a, j).entries : j \in 0 .. (m - 1)}
              entry(k) == [oid |-> a.objs[k + 1].oid, slot |-> DataAt(new, k)]
  <2>1. 0 .. (new.descLen - 2) = 0 .. (m - 1)
    BY <1>2, <1>4
  <2>2. Content(ns)' = [root |-> a.root,
                        objects |-> {<<e.oid, data[e.slot].body>> : e \in all}]
    <3>1. \A j \in 0 .. (m - 1) :
              desc'[DescAt(desc'[ns], j)].entries = MapBlock(a, j).entries
      BY <1>10
    <3>2. \A e : e \in Entries(desc[ns])' <=> e \in all
      BY <1>10, <2>1, <3>1, Zenon DEF Entries, DescAt
    <3>3. Entries(desc[ns])' = all
      BY <3>2
    <3>. HIDE DEF all
    <3>4. Content(ns)' = [root |-> new.root,
                          objects |-> {<<e.oid, data'[e.slot].body>> : e \in all}]
      BY <1>10, <3>3 DEF Content
    <3>. QED
      BY <1>1, <1>4, <3>4
  <2>3. \A e \in all : \E k \in 0 .. (n - 1) : e = entry(k)
    BY <1>7
  <2>4. \A k \in 0 .. (n - 1) : entry(k) \in all
    BY <1>7, <1>8
  <2>5. ASSUME NEW k \in 0 .. (n - 1)
        PROVE  /\ entry(k).oid = a.objs[k + 1].oid
               /\ data[entry(k).slot].body = a.objs[k + 1].body
    <3>1. entry(k).oid = a.objs[k + 1].oid /\ entry(k).slot = DataAt(new, k)
      OBVIOUS
    <3>2. data[DataAt(new, k)] = ObjectBlock(a, k)
      BY <1>5
    <3>3. ObjectBlock(a, k).body = a.objs[k + 1].body
      BY DEF ObjectBlock
    <3>. QED
      BY <3>1, <3>2, <3>3
  <2>. HIDE DEF all, entry
  <2>6. {<<e.oid, data[e.slot].body>> : e \in all} =
            {<<a.objs[k + 1].oid, a.objs[k + 1].body>> : k \in 0 .. (n - 1)}
    BY <2>3, <2>4, <2>5
  <2>7. {<<a.objs[k + 1].oid, a.objs[k + 1].body>> : k \in 0 .. (n - 1)} =
            {<<a.objs[i].oid, a.objs[i].body>> : i \in 1 .. n}
    <3>1. \A k \in 0 .. (n - 1) : k + 1 \in 1 .. n
      BY <1>2
    <3>2. \A i \in 1 .. n : i - 1 \in 0 .. (n - 1) /\ (i - 1) + 1 = i
      BY <1>2
    <3>. QED
      BY <3>1, <3>2
  <2>. QED
    BY <2>2, <2>6, <2>7, Zenon DEF Requested, n
<1>17. Mounted' = ns
  BY <1>3, <1>11, <1>13, <1>14, MountIsUniqueNext
<1>18. Content(Mounted)' = Requested(a)
  BY <1>16, <1>17 DEF Content
<1>19. MountLoads'
  BY <1>3, <1>13, <1>15 DEF MountLoads
<1>. QED
  BY <1>0, <1>1, <1>11, <1>14, <1>18, <1>19 DEF IInv

-----------------------------------------------------------------------------

LEMMA StepKeeps ==
    ASSUME IInv, [CkNext]_ckvars
    PROVE  /\ IInv'
           /\ app # NoAppend =>
                  \/ Content(Mounted)' = Content(Mounted)
                  \/ app' = NoAppend /\ Content(Mounted)' = Requested(app)
<1>1. CASE \E objs \in Seq([oid : Oids, body : Bodies]), root \in Roots :
               BeginAppend(objs, root)
  BY <1>1, BeginKeeps, Zenon DEF BeginAppend
<1>2. CASE WriteObject
  BY <1>2, ObjectKeeps
<1>3. CASE StartMaps
  BY <1>3, StartMapsKeeps
<1>4. CASE WriteMap
  BY <1>4, MapKeeps
<1>5. CASE WriteSuper
  BY <1>5, SuperPublishes DEF WriteSuper
<1>6. CASE CutAppend
  BY <1>6, CutKeeps
<1>7. CASE UNCHANGED ckvars
  <2>1. desc' = desc /\ data' = data /\ app' = app
    BY <1>7 DEF ckvars
  <2>2. CkTypeOK' /\ XidsDiffer'
    BY <2>1 DEF IInv, CkTypeOK, XidsDiffer
  <2>3. \A t \in DescSlots : IsMounted(t)' <=> IsMounted(t)
    BY <2>1 DEF IsMounted
  <2>4. \A t \in DescSlots : Loads(t)' <=> Loads(t)
    BY <2>1 DEF Loads, MapLoads, DescAt, DataAt
  <2>5. MountLoads'
    BY <2>3, <2>4 DEF IInv, MountLoads
  <2>6. AppendSound' <=> AppendSound
    BY <2>1, <2>3 DEF AppendSound
  <2>7. PICK s \in DescSlots : IsMounted(s) /\ IsMounted(s)'
    BY <2>3 DEF IInv, MountLoads
  <2>8. s = Mounted
    BY <2>7, MountIsUnique DEF IInv
  <2>9. Content(s)' = Content(s)
    BY <2>1 DEF Content, Entries, DescAt
  <2>10. Content(Mounted)' = Content(Mounted)
    BY <2>2, <2>7, <2>8, <2>9, KeptContent
  <2>11. IInv'
    BY <2>1, <2>2, <2>5, <2>6 DEF IInv
  <2>. QED
    BY <2>10, <2>11
<1>. QED
  BY <1>1, <1>2, <1>3, <1>4, <1>5, <1>6, <1>7, Zenon DEF CkNext

LEMMA InitHolds == CkInit => IInv
  BY DEF CkInit, IInv, MountLoads

\* An image whose newest checkpoint loads always mounts a checkpoint that
\* loads completely, whatever append_with is cut short and wherever: for
\* rings, maps and object sets of every size.
THEOREM ImageAlwaysMounts == CkSpec => []MountLoads
<1>1. IInv /\ [CkNext]_ckvars => IInv'
  BY StepKeeps
<1>2. IInv => MountLoads
  BY DEF IInv
<1>. QED
  BY <1>1, <1>2, InitHolds, PTL DEF CkSpec

\* Publishing is atomic: the steps of append_with leave what the image mounts
\* unchanged, but for the last, which publishes exactly what was asked for.
THEOREM PublicationIsAtomic == CkSpec => AppendIsAtomic
<1>1. IInv /\ [CkNext]_ckvars => IInv'
  BY StepKeeps
<1>2. IInv /\ [CkNext]_ckvars =>
          [app # NoAppend =>
              \/ Content(Mounted)' = Content(Mounted)
              \/ app' = NoAppend /\ Content(Mounted)' = Requested(app)]_ckvars
  BY StepKeeps
<1>. QED
  BY <1>1, <1>2, InitHolds, PTL DEF CkSpec, AppendIsAtomic

-----------------------------------------------------------------------------
(* Scratch directories.                                                    *)

Pcs == {"dead", "idle", "listing", "make"} \cup Making \cup Checking \cup Removing

Types ==
    /\ content \in [Dirs -> SUBSET {"dir", "pending", "marker"}]
    /\ age \in [Dirs -> Nat]
    /\ lock \in [Dirs -> Procs \cup {Nobody}]
    /\ holder \in [Dirs -> Procs \cup {Nobody}]
    /\ pc \in [Procs -> Pcs]
    /\ cur \in [Procs -> Dirs \cup {NoDir}]
    /\ rest \in [Procs -> SUBSET Dirs]
    /\ seen \in [Procs -> Nat]
    /\ span \in [Procs -> Nat]

\* Who is in the middle of something is at a directory, and not for too long.
Located ==
    \A p \in Procs :
        /\ pc[p] \in Making \cup Checking \cup Removing => cur[p] \in Dirs
        /\ span[p] <= Prompt

\* A directory that p is making is p's alone, and no look at it has found a
\* marker or an mtime from before its mkdir.
Made(p, d) ==
    /\ Exists(d)
    /\ "marker" \notin content[d]
    /\ pc[p] # "made" => "pending" \in content[d]
    /\ lock[d] = IF pc[p] = "locked" THEN p ELSE Nobody
    /\ holder[d] = Nobody
    /\ age[d] <= span[p]
    /\ \A q \in Procs : cur[q] = d =>
        /\ pc[q] \notin Removing
        /\ pc[q] \in Making => q = p
        /\ pc[q] \in Checking => pc[q] # "opened" /\ seen[q] <= span[p]

\* A directory that is held has its marker, locked, and a sweep that found no
\* marker looked before the rename.
Held(d) ==
    /\ Exists(d)
    /\ "marker" \in content[d]
    /\ lock[d] = holder[d]
    /\ \A q \in Procs : cur[q] = d =>
        /\ pc[q] \notin Removing
        /\ pc[q] = "missing" => seen[q] <= Prompt + span[q]

ScratchInv ==
    /\ Types
    /\ Located
    /\ \A p \in Procs, d \in Dirs : At(p, d, Making) => Made(p, d)
    /\ \A d \in Dirs : holder[d] # Nobody => Held(d)

LEMMA InitScratch == Init => ScratchInv
  BY NamesAssumption, TimeAssumption
  DEF Init, ScratchInv, Types, Located, Pcs, Making, Checking, Removing, At

LEMMA NextScratch == ScratchInv /\ [Next]_vars => ScratchInv'
<1> SUFFICES ASSUME ScratchInv, [Next]_vars PROVE ScratchInv'
  OBVIOUS
<1>0. CASE UNCHANGED vars
  <2>1. UNCHANGED <<content, age, lock, holder, pc, cur, rest, seen, span>>
    BY <1>0, Zenon DEF vars, dirvars, sweepvars
  <2>2. Types' /\ Located'
    BY <2>1, Zenon DEF ScratchInv, Types, Located
  <2>3. ASSUME NEW q \in Procs, NEW d \in Dirs, At(q, d, Making)' PROVE Made(q, d)'
    BY <2>1, <2>3, Zenon DEF ScratchInv, Made, At, Exists
  <2>4. ASSUME NEW d \in Dirs, (holder[d] # Nobody)' PROVE Held(d)'
    BY <2>1, <2>4, Zenon DEF ScratchInv, Held, Exists
  <2> QED BY <2>2, <2>3, <2>4, Zenon DEF ScratchInv
<1> USE NamesAssumption, TimeAssumption
    DEF ScratchInv, Types, Located, Pcs, Making, Checking, Removing, Timed, Made, Held,
        At, Exists, dirvars, sweepvars
<1>1. ASSUME NEW p \in Procs, NEW sweeps \in BOOLEAN, Call(p, sweeps) PROVE ScratchInv'
  <2>1. Types' /\ Located'
    BY <1>1 DEF Call, Leave, Goto
  <2>2. ASSUME NEW q \in Procs, NEW d \in Dirs, At(q, d, Making)' PROVE Made(q, d)'
    BY <1>1, <2>2 DEF Call, Leave, Goto
  <2>3. ASSUME NEW d \in Dirs, (holder[d] # Nobody)' PROVE Held(d)'
    BY <1>1, <2>3 DEF Call, Leave, Goto
  <2> QED BY <2>1, <2>2, <2>3
<1>2. ASSUME NEW p \in Procs, ReadMeta(p) PROVE ScratchInv'
  <2>1. Types' /\ Located'
    BY <1>2 DEF ReadMeta, Goto
  <2>2. ASSUME NEW q \in Procs, NEW d \in Dirs, At(q, d, Making)' PROVE Made(q, d)'
    BY <1>2, <2>2 DEF ReadMeta, Goto
  <2>3. ASSUME NEW d \in Dirs, (holder[d] # Nobody)' PROVE Held(d)'
    BY <1>2, <2>3 DEF ReadMeta, Goto
  <2> QED BY <2>1, <2>2, <2>3
<1>3. ASSUME NEW p \in Procs, OpenMarker(p) PROVE ScratchInv'
  <2>1. Types' /\ Located'
    BY <1>3 DEF OpenMarker, Goto
  <2>2. ASSUME NEW q \in Procs, NEW d \in Dirs, At(q, d, Making)' PROVE Made(q, d)'
    BY <1>3, <2>2 DEF OpenMarker, Goto
  <2>3. ASSUME NEW d \in Dirs, (holder[d] # Nobody)' PROVE Held(d)'
    BY <1>3, <2>3 DEF OpenMarker, Goto
  <2> QED BY <2>1, <2>2, <2>3
<1>4. ASSUME NEW p \in Procs, LockMarker(p) PROVE ScratchInv'
  <2>1. CASE LockIsFree(p, cur[p])
    <3>1. /\ cur[p] \in Dirs /\ holder[cur[p]] = Nobody
          /\ \A q \in Procs : ~At(q, cur[p], Making)
      BY <1>4, <2>1 DEF LockMarker, LockIsFree
    <3> QED BY <1>4, <2>1, <3>1 DEF LockMarker, Leave, Goto
  <2>2. CASE ~LockIsFree(p, cur[p])
    BY <1>4, <2>2 DEF LockMarker, Leave, Goto
  <2> QED BY <2>1, <2>2
<1>5. ASSUME NEW p \in Procs, JudgeUnmarked(p) PROVE ScratchInv'
  <2>1. Types' /\ Located'
    BY <1>5 DEF JudgeUnmarked, Leave, Goto
  <2>2. ASSUME NEW q \in Procs, NEW d \in Dirs, At(q, d, Making)' PROVE Made(q, d)'
    BY <1>5, <2>2 DEF JudgeUnmarked, Leave, Goto
  <2>3. ASSUME NEW d \in Dirs, (holder[d] # Nobody)' PROVE Held(d)'
    BY <1>5, <2>3 DEF JudgeUnmarked, Leave, Goto
  <2> QED BY <2>1, <2>2, <2>3
<1>6. ASSUME NEW p \in Procs, SweepDone(p) PROVE ScratchInv'
  <2>1. Types' /\ Located'
    BY <1>6 DEF SweepDone, Leave, Goto
  <2>2. ASSUME NEW q \in Procs, NEW d \in Dirs, At(q, d, Making)' PROVE Made(q, d)'
    BY <1>6, <2>2 DEF SweepDone, Leave, Goto
  <2>3. ASSUME NEW d \in Dirs, (holder[d] # Nobody)' PROVE Held(d)'
    BY <1>6, <2>3 DEF SweepDone, Leave, Goto
  <2> QED BY <2>1, <2>2, <2>3
<1>7. ASSUME NEW p \in Procs, RemoveEntry(p) PROVE ScratchInv'
  <2>1. Types' /\ Located'
    BY <1>7 DEF RemoveEntry, Change
  <2>2. ASSUME NEW q \in Procs, NEW d \in Dirs, At(q, d, Making)' PROVE Made(q, d)'
    BY <1>7, <2>2 DEF RemoveEntry, Change
  <2>3. ASSUME NEW d \in Dirs, (holder[d] # Nobody)' PROVE Held(d)'
    BY <1>7, <2>3 DEF RemoveEntry, Change
  <2> QED BY <2>1, <2>2, <2>3
<1>8. ASSUME NEW p \in Procs, Removed(p) PROVE ScratchInv'
  <2>1. Types' /\ Located'
    BY <1>8 DEF Removed, Unlock, Leave, Goto
  <2>2. ASSUME NEW q \in Procs, NEW d \in Dirs, At(q, d, Making)' PROVE Made(q, d)'
    BY <1>8, <2>2 DEF Removed, Unlock, Leave, Goto
  <2>3. ASSUME NEW d \in Dirs, (holder[d] # Nobody)' PROVE Held(d)'
    BY <1>8, <2>3 DEF Removed, Unlock, Leave, Goto
  <2> QED BY <2>1, <2>2, <2>3
<1>9. ASSUME NEW p \in Procs, MakeDir(p) PROVE ScratchInv'
  <2>1. Types' /\ Located'
    BY <1>9 DEF MakeDir, Change, Goto
  <2>2. ASSUME NEW q \in Procs, NEW d \in Dirs, At(q, d, Making)' PROVE Made(q, d)'
    BY <1>9, <2>2 DEF MakeDir, Change, Goto
  <2>3. ASSUME NEW d \in Dirs, (holder[d] # Nobody)' PROVE Held(d)'
    BY <1>9, <2>3 DEF MakeDir, Change, Goto
  <2> QED BY <2>1, <2>2, <2>3
<1>10. ASSUME NEW p \in Procs, MakeDirFails(p) PROVE ScratchInv'
  <2>1. Types' /\ Located'
    BY <1>10 DEF MakeDirFails, Leave, Goto
  <2>2. ASSUME NEW q \in Procs, NEW d \in Dirs, At(q, d, Making)' PROVE Made(q, d)'
    BY <1>10, <2>2 DEF MakeDirFails, Leave, Goto
  <2>3. ASSUME NEW d \in Dirs, (holder[d] # Nobody)' PROVE Held(d)'
    BY <1>10, <2>3 DEF MakeDirFails, Leave, Goto
  <2> QED BY <2>1, <2>2, <2>3
<1>11. ASSUME NEW p \in Procs, CreatePending(p) PROVE ScratchInv'
  <2>1. Types' /\ Located'
    BY <1>11 DEF CreatePending, Change, Goto
  <2>2. ASSUME NEW q \in Procs, NEW d \in Dirs, At(q, d, Making)' PROVE Made(q, d)'
    BY <1>11, <2>2 DEF CreatePending, Change, Goto
  <2>3. ASSUME NEW d \in Dirs, (holder[d] # Nobody)' PROVE Held(d)'
    BY <1>11, <2>3 DEF CreatePending, Change, Goto
  <2> QED BY <2>1, <2>2, <2>3
<1>12. ASSUME NEW p \in Procs, LockPending(p) PROVE ScratchInv'
  <2>1. Types' /\ Located'
    BY <1>12 DEF LockPending, LockIsFree, Goto
  <2>2. ASSUME NEW q \in Procs, NEW d \in Dirs, At(q, d, Making)' PROVE Made(q, d)'
    BY <1>12, <2>2 DEF LockPending, LockIsFree, Goto
  <2>3. ASSUME NEW d \in Dirs, (holder[d] # Nobody)' PROVE Held(d)'
    BY <1>12, <2>3 DEF LockPending, LockIsFree, Goto
  <2> QED BY <2>1, <2>2, <2>3
<1>13. ASSUME NEW p \in Procs, RenameMarker(p) PROVE ScratchInv'
  <2>1. Types' /\ Located'
    BY <1>13 DEF RenameMarker, Change, Leave, Goto
  <2>2. ASSUME NEW q \in Procs, NEW d \in Dirs, At(q, d, Making)' PROVE Made(q, d)'
    BY <1>13, <2>2 DEF RenameMarker, Change, Leave, Goto
  <2>3. ASSUME NEW d \in Dirs, (holder[d] # Nobody)' PROVE Held(d)'
    BY <1>13, <2>3 DEF RenameMarker, Change, Leave, Goto
  <2> QED BY <2>1, <2>2, <2>3
<1>14. ASSUME NEW p \in Procs, CreateFails(p) PROVE ScratchInv'
  <2>1. Types' /\ Located'
    BY <1>14 DEF CreateFails, Unlock, Leave, Goto
  <2>2. ASSUME NEW q \in Procs, NEW d \in Dirs, At(q, d, Making)' PROVE Made(q, d)'
    BY <1>14, <2>2 DEF CreateFails, Unlock, Leave, Goto
  <2>3. ASSUME NEW d \in Dirs, (holder[d] # Nobody)' PROVE Held(d)'
    BY <1>14, <2>3 DEF CreateFails, Unlock, Leave, Goto
  <2> QED BY <2>1, <2>2, <2>3
<1>15. ASSUME NEW p \in Procs, NEW d \in Dirs, Drop(p, d) PROVE ScratchInv'
  <2>1. Types' /\ Located'
    BY <1>15 DEF Drop, Leave, Goto
  <2>2. ASSUME NEW q \in Procs, NEW e \in Dirs, At(q, e, Making)' PROVE Made(q, e)'
    BY <1>15, <2>2 DEF Drop, Leave, Goto
  <2>3. ASSUME NEW e \in Dirs, (holder[e] # Nobody)' PROVE Held(e)'
    BY <1>15, <2>3 DEF Drop, Leave, Goto
  <2> QED BY <2>1, <2>2, <2>3
<1>16. ASSUME NEW p \in Procs, Exit(p) \/ Crash(p) PROVE ScratchInv'
  <2>1. End(p)
    BY <1>16 DEF Exit, Crash
  <2>2. Types' /\ Located'
    BY <2>1 DEF End, Leave, Goto
  <2>3. ASSUME NEW q \in Procs, NEW d \in Dirs, At(q, d, Making)' PROVE Made(q, d)'
    <3>1. q # p /\ At(q, d, Making)
      BY <2>1, <2>3 DEF End, Leave, Goto
    <3> QED BY <2>1, <3>1 DEF End, Leave, Goto
  <2>4. ASSUME NEW d \in Dirs, (holder[d] # Nobody)' PROVE Held(d)'
    <3>1. holder[d] # Nobody /\ holder[d] # p /\ holder'[d] = holder[d] /\ lock'[d] = lock[d]
      BY <2>1, <2>4 DEF End
    <3> QED BY <2>1, <3>1 DEF End, Leave, Goto
  <2> QED BY <2>2, <2>3, <2>4
<1>17. ASSUME NEW p \in Procs, Start(p) PROVE ScratchInv'
  <2>1. Types' /\ Located'
    BY <1>17 DEF Start, Leave, Goto
  <2>2. ASSUME NEW q \in Procs, NEW d \in Dirs, At(q, d, Making)' PROVE Made(q, d)'
    BY <1>17, <2>2 DEF Start, Leave, Goto
  <2>3. ASSUME NEW d \in Dirs, (holder[d] # Nobody)' PROVE Held(d)'
    BY <1>17, <2>3 DEF Start, Leave, Goto
  <2> QED BY <2>1, <2>2, <2>3
<1>18. CASE Tick
  <2>1. Types' /\ Located'
    BY <1>18 DEF Tick, Older
  <2>2. ASSUME NEW q \in Procs, NEW d \in Dirs, At(q, d, Making)' PROVE Made(q, d)'
    BY <1>18, <2>2 DEF Tick, Older
  <2>3. ASSUME NEW d \in Dirs, (holder[d] # Nobody)' PROVE Held(d)'
    BY <1>18, <2>3 DEF Tick, Older
  <2> QED BY <2>1, <2>2, <2>3
<1> HIDE DEF ScratchInv
<1> QED
  BY <1>0, <1>1, <1>2, <1>3, <1>4, <1>5, <1>6, <1>7, <1>8, <1>9, <1>10, <1>11, <1>12, <1>13,
     <1>14, <1>15, <1>16, <1>17, <1>18 DEF Next, Step, Fault

\* Whatever sweeps, creations, drops and crashes interleave, no sweep removes
\* or locks a directory that is in use or being made.
THEOREM TheLivingAreSpared == Spec => []SweepSparesTheLiving
<1>1. ScratchInv => SweepSparesTheLiving
  BY NamesAssumption
  DEF ScratchInv, Types, Made, Held, At, Making, Removing, Exists, SweepSparesTheLiving
<1> QED BY <1>1, InitScratch, NextScratch, PTL DEF Spec
=============================================================================
