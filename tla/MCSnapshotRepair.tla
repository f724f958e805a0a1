-------------------------- MODULE MCSnapshotRepair --------------------------
(***************************************************************************)
(* The images the repairs of SnapshotRepair are checked on.  Two chunks of *)
(* 16 blocks; a checkpoint of two or three ephemeral objects, one per      *)
(* checkpoint-map block, in rings of 6 and 4 blocks.                       *)
(***************************************************************************)
EXTENDS SnapshotRepair

MCOids == {"spaceman", "reaper", "queue"}
MCBodies == {<<>>} \cup (Paddrs \X Paddrs)
MCRoots == Paddrs

\* A system volume that was never sealed and has no snapshot.
Plain ==
    [snaps |-> {}, count |-> 0, root |-> 0, sealed |-> FALSE, integrity |-> FALSE,
     systemGroup |-> 1, dataGroup |-> 1, used |-> {}, stale |-> FALSE, bad |-> {},
     slot |-> 0, objects |-> 2, room |-> TRUE, budget |-> [torn |-> 0, clean |-> 0]]

Other == [xid |-> 1, root |-> FALSE, sb |-> 11]
Root  == [xid |-> 1, root |-> TRUE, sb |-> 11]

\* Chunk 1 with so little room that the transaction spills into chunk 2.
Spill == {12, 13, 14, 15}

Broken ==
    {[Plain EXCEPT !.sealed = TRUE, !.systemGroup = 0],
     [Plain EXCEPT !.used = Spill, !.systemGroup = 0, !.dataGroup = 0, !.slot = 3],
     [Plain EXCEPT !.snaps = {Other}, !.count = 3, !.integrity = TRUE, !.dataGroup = 2,
                   !.used = Spill, !.slot = 1],
     [Plain EXCEPT !.snaps = {Root}, !.count = 1, !.root = 1, !.stale = TRUE, !.slot = 4],
     [Plain EXCEPT !.snaps = {Root}, !.count = 2, !.root = 7, !.stale = TRUE,
                   !.sealed = TRUE, !.used = Spill],
     [Plain EXCEPT !.count = 2, !.sealed = TRUE],
     [Plain EXCEPT !.bad = {1, DescBase + 2}, !.slot = 3],
     [Plain EXCEPT !.bad = {3}, !.snaps = {Other}, !.count = 3]}

\* No room: the allocations fail, the space manager's own blocks fail, or the
\* descriptor ring is full.
Cramped ==
    {[Plain EXCEPT !.used = Paddrs \ 12 .. 13, !.room = FALSE, !.sealed = TRUE],
     [Plain EXCEPT !.used = Paddrs \ 12 .. 17, !.room = FALSE],
     [Plain EXCEPT !.snaps = {Root}, !.count = 1, !.stale = TRUE,
                   !.used = Paddrs \ 12 .. 13, !.room = FALSE],
     [Plain EXCEPT !.objects = 3, !.room = FALSE, !.systemGroup = 2]}

Budgets == {[torn |-> 1, clean |-> 1], [torn |-> 0, clean |-> 2]}

FaultyImages == {[img EXCEPT !.budget = b] : img \in Broken \cup Cramped, b \in Budgets}

\* No faults; leaving out the count that is only right once a snapshot exists.
QuietImages == {img \in Broken : img.snaps # {} \/ img.count = 0}
=============================================================================
