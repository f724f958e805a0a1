------------------------------- MODULE Scratch -------------------------------
(***************************************************************************)
(* Scratch directories (scratch.rs): every process makes its directories   *)
(* under one parent, holds an advisory lock on a marker file in each, and  *)
(* before it makes one sweeps away what dead processes left behind.  All   *)
(* that tells a sweep a live directory from an abandoned one is the lock,  *)
(* or, while there is no marker, the directory's modification time.        *)
(*                                                                         *)
(* Time is kept as ages, which stop counting at UnmarkedIdle; Prompt       *)
(* bounds how long a creation may take from mkdir to rename, and a sweep   *)
(* from reading a directory's metadata to reading the clock.  A machine    *)
(* that sleeps an hour between two such steps is outside the model.        *)
(***************************************************************************)
EXTENDS Integers, FiniteSets

CONSTANTS Procs, Dirs, Nobody, NoDir, UnmarkedIdle, Prompt, Workloads

ASSUME NamesAssumption == Nobody \notin Procs /\ NoDir \notin Dirs

ASSUME TimeAssumption ==
    /\ UnmarkedIdle \in Nat
    /\ Prompt \in Nat
    /\ 2 * Prompt < UnmarkedIdle

VARIABLES
    content,    \* of each directory: "dir" while it exists, and its entries
    age,        \* time since its mtime
    lock,       \* the process that has the marker file's flock
    holder,     \* the process whose ScratchDir it is
    pc, cur,    \* what each process is doing, and with which directory
    rest,       \* the entries its sweep has still to visit
    seen,       \* the age, by now, of the mtime its sweep has read
    span,       \* how long its creation, or its look at an entry, has taken
    swept,      \* SWEPT of ScratchDir::new
    names,      \* bound: the names tempdir comes up with
    crashes     \* bound: the crashes still to come

vars == <<content, age, lock, holder, pc, cur, rest, seen, span, swept,
          names, crashes>>
dirvars == <<content, age, names>>
sweepvars == <<rest, swept>>

Making == {"made", "pended", "locked"}
Checking == {"opening", "opened", "missing"}
Removing == {"reclaiming", "dropping"}

Exists(d) == "dir" \in content[d]
At(p, d, where) == pc[p] \in where /\ cur[p] = d
Older(a) == IF a < UnmarkedIdle THEN a + 1 ELSE a

----------------------------------------------------------------------------
Goto(p, where, d) ==
    /\ pc' = [pc EXCEPT ![p] = where]
    /\ cur' = [cur EXCEPT ![p] = d]

Timed == Making \cup Checking

\* The same, in a step that leaves the timed part of a call, or is in none.
Leave(p, where, d) ==
    /\ Goto(p, where, d)
    /\ seen' = [seen EXCEPT ![p] = 0]
    /\ span' = [span EXCEPT ![p] = 0]

\* A change of the directory's entries, which also touches its mtime.
Change(d, entries) ==
    /\ content' = [content EXCEPT ![d] = entries]
    /\ age' = [age EXCEPT ![d] = 0]
    /\ UNCHANGED names

Unlock(p, d) == lock' = [lock EXCEPT ![d] = IF @ = p THEN Nobody ELSE @]

\* new sweeps on its first call in a process, new_in on every call.
Call(p, sweeps) ==
    /\ pc[p] = "idle"
    /\ sweeps \/ swept[p]
    /\ Leave(p, IF sweeps THEN "listing" ELSE "make", NoDir)
    /\ rest' = [rest EXCEPT ![p] = IF sweeps THEN {d \in Dirs : Exists(d)} ELSE {}]
    /\ swept' = [swept EXCEPT ![p] = TRUE]
    /\ UNCHANGED <<dirvars, lock, holder, crashes>>

\* sweep_abandoned_in, one entry: its metadata ...
ReadMeta(p) ==
    /\ pc[p] = "listing"
    /\ \E d \in rest[p] :
        /\ rest' = [rest EXCEPT ![p] = @ \ {d}]
        /\ IF Exists(d)
           THEN /\ Goto(p, "opening", d)
                /\ seen' = [seen EXCEPT ![p] = age[d]]
           ELSE UNCHANGED <<pc, cur, seen>>
    /\ UNCHANGED <<dirvars, lock, holder, swept, span, crashes>>

\* ... its marker, opened ...
OpenMarker(p) ==
    /\ pc[p] = "opening"
    /\ Goto(p, IF "marker" \in content[cur[p]] THEN "opened" ELSE "missing", cur[p])
    /\ UNCHANGED <<dirvars, lock, holder, sweepvars, seen, span, crashes>>

\* Seeded fault: a lock that belongs to the process does not keep it out.
LockIsFreeToOwner(p, d) == lock[d] \in {Nobody, p}

\* ... and locked, unless that would block.  A flock belongs to the open file,
\* so it keeps its own process out as well ...
LockIsFree(p, d) == lock[d] = Nobody

LockMarker(p) ==
    /\ pc[p] = "opened"
    /\ IF LockIsFree(p, cur[p])
       THEN /\ lock' = [lock EXCEPT ![cur[p]] = p]
            /\ Leave(p, "reclaiming", cur[p])
       ELSE /\ Leave(p, "listing", NoDir)
            /\ UNCHANGED lock
    /\ UNCHANGED <<dirvars, holder, sweepvars, crashes>>

\* Seeded fault: a directory without a marker is always left alone.
JudgeUnmarkedNever(p) ==
    /\ pc[p] = "missing"
    /\ Leave(p, "listing", NoDir)
    /\ UNCHANGED <<dirvars, lock, holder, sweepvars, crashes>>

\* ... or, with no marker there, the age of the metadata read before.
JudgeUnmarked(p) ==
    /\ pc[p] = "missing"
    /\ IF seen[p] >= UnmarkedIdle
       THEN Leave(p, "reclaiming", cur[p])
       ELSE Leave(p, "listing", NoDir)
    /\ UNCHANGED <<dirvars, lock, holder, sweepvars, crashes>>

SweepDone(p) ==
    /\ pc[p] = "listing"
    /\ rest[p] = {}
    /\ Leave(p, "make", NoDir)
    /\ UNCHANGED <<dirvars, lock, holder, sweepvars, crashes>>

\* remove_dir_all, for a sweep, a drop or a creation that failed: the entries
\* in any order, then the directory; the lock's file is closed after it.
RemoveEntry(p) ==
    /\ pc[p] \in Removing
    /\ \E e \in content[cur[p]] :
        /\ e = "dir" => content[cur[p]] = {"dir"}
        /\ Change(cur[p], content[cur[p]] \ {e})
    /\ UNCHANGED <<lock, holder, pc, cur, sweepvars, seen, span, crashes>>

Removed(p) ==
    /\ pc[p] \in Removing
    /\ content[cur[p]] = {}
    /\ Unlock(p, cur[p])
    /\ Leave(p, IF pc[p] = "reclaiming" THEN "listing" ELSE "idle", NoDir)
    /\ UNCHANGED <<dirvars, holder, sweepvars, crashes>>

\* tempdir(): a name no directory has and nobody is looking at.
MakeDir(p) ==
    /\ pc[p] = "make"
    /\ \E d \in Dirs :
        /\ d \in names
        /\ content[d] = {}
        /\ lock[d] = Nobody
        /\ \A q \in Procs : cur[q] # d
        /\ Change(d, {"dir"})
        /\ Goto(p, "made", d)
    /\ UNCHANGED <<lock, holder, sweepvars, seen, span, crashes>>

MakeDirFails(p) ==
    /\ pc[p] = "make"
    /\ Leave(p, "idle", NoDir)
    /\ UNCHANGED <<dirvars, lock, holder, sweepvars, crashes>>

\* lock_marker(path, true), in its three steps.
CreatePending(p) ==
    /\ pc[p] = "made"
    /\ Exists(cur[p])
    /\ Change(cur[p], content[cur[p]] \cup {"pending"})
    /\ Goto(p, "pended", cur[p])
    /\ UNCHANGED <<lock, holder, sweepvars, seen, span, crashes>>

LockPending(p) ==
    /\ pc[p] = "pended"
    /\ LockIsFree(p, cur[p])
    /\ lock' = [lock EXCEPT ![cur[p]] = p]
    /\ Goto(p, "locked", cur[p])
    /\ UNCHANGED <<dirvars, holder, sweepvars, seen, span, crashes>>

RenameMarker(p) ==
    /\ pc[p] = "locked"
    /\ "pending" \in content[cur[p]]
    /\ Change(cur[p], (content[cur[p]] \ {"pending"}) \cup {"marker"})
    /\ holder' = [holder EXCEPT ![cur[p]] = p]
    /\ Leave(p, "idle", NoDir)
    /\ UNCHANGED <<lock, sweepvars, crashes>>

\* One of the three fails: the file is closed and the directory removed.
CreateFails(p) ==
    /\ pc[p] \in Making
    /\ Unlock(p, cur[p])
    /\ Leave(p, "dropping", cur[p])
    /\ UNCHANGED <<dirvars, holder, sweepvars, crashes>>

\* The ScratchDir is dropped.
Drop(p, d) ==
    /\ pc[p] = "idle"
    /\ holder[d] = p
    /\ holder' = [holder EXCEPT ![d] = Nobody]
    /\ Leave(p, "dropping", d)
    /\ UNCHANGED <<dirvars, lock, sweepvars, crashes>>

----------------------------------------------------------------------------
\* A process ends: its locks go with it, and its directories have no holder.
End(p) ==
    /\ lock' = [d \in Dirs |-> IF lock[d] = p THEN Nobody ELSE lock[d]]
    /\ holder' = [d \in Dirs |-> IF holder[d] = p THEN Nobody ELSE holder[d]]
    /\ swept' = [swept EXCEPT ![p] = FALSE]
    /\ rest' = [rest EXCEPT ![p] = {}]
    /\ Leave(p, "dead", NoDir)
    /\ UNCHANGED dirvars

Exit(p) ==
    /\ pc[p] = "idle"
    /\ \A d \in Dirs : holder[d] # p
    /\ End(p)
    /\ UNCHANGED crashes

Crash(p) ==
    /\ pc[p] # "dead"
    /\ crashes > 0
    /\ crashes' = crashes - 1
    /\ End(p)

Start(p) ==
    /\ pc[p] = "dead"
    /\ Leave(p, "idle", NoDir)
    /\ UNCHANGED <<dirvars, lock, holder, sweepvars, crashes>>

\* An hour is UnmarkedIdle ticks, and nobody dawdles past Prompt of them.
Tick ==
    /\ \A p \in Procs : pc[p] \in Timed => span[p] < Prompt
    /\ age' = [d \in Dirs |-> IF Exists(d) THEN Older(age[d]) ELSE 0]
    /\ seen' = [p \in Procs |-> IF pc[p] \in Checking THEN Older(seen[p]) ELSE 0]
    /\ span' = [p \in Procs |-> IF pc[p] \in Timed THEN span[p] + 1 ELSE 0]
    /\ UNCHANGED <<content, names, lock, holder, pc, cur, rest, swept, crashes>>

----------------------------------------------------------------------------
Init ==
    /\ content = [d \in Dirs |-> {}]
    /\ age = [d \in Dirs |-> 0]
    /\ lock = [d \in Dirs |-> Nobody]
    /\ holder = [d \in Dirs |-> Nobody]
    /\ pc = [p \in Procs |-> "dead"]
    /\ cur = [p \in Procs |-> NoDir]
    /\ rest = [p \in Procs |-> {}]
    /\ seen = [p \in Procs |-> 0]
    /\ span = [p \in Procs |-> 0]
    /\ swept = [p \in Procs |-> FALSE]
    /\ \E w \in Workloads : names = w.names /\ crashes = w.crashes

\* The steps that a call of new or new_in, or a drop, goes through.
Step(p) ==
    \/ ReadMeta(p) \/ OpenMarker(p) \/ LockMarker(p) \/ JudgeUnmarked(p)
    \/ SweepDone(p) \/ RemoveEntry(p) \/ Removed(p)
    \/ MakeDir(p) \/ CreatePending(p) \/ LockPending(p) \/ RenameMarker(p)

Fault(p) == MakeDirFails(p) \/ CreateFails(p) \/ Crash(p)

Next ==
    \/ \E p \in Procs :
        \/ Step(p) \/ Fault(p) \/ Exit(p) \/ Start(p)
        \/ \E sweeps \in BOOLEAN : Call(p, sweeps)
        \/ \E d \in Dirs : Drop(p, d)
    \/ Tick

Spec == Init /\ [][Next]_vars

\* Time passes, a call under way goes on, and there is always a next run: a
\* process that calls new for the first time, or new_in.
FairSpec ==
    /\ Spec
    /\ WF_vars(Tick)
    /\ \A p \in Procs :
        /\ WF_vars(Step(p) \/ MakeDirFails(p))
        /\ WF_vars(Start(p))
        /\ SF_vars(Call(p, TRUE))

----------------------------------------------------------------------------
\* No sweep of any process, the holder's own included, touches a directory in
\* use or one that is still being made: nobody else removes it or has its
\* lock, so lock_marker never finds a new directory "already locked".
SweepSparesTheLiving ==
    \A d \in Dirs :
        LET users == {p \in Procs : holder[d] = p \/ At(p, d, Making)}
        IN  users # {} =>
                /\ Exists(d)
                /\ holder[d] # Nobody => "marker" \in content[d]
                /\ lock[d] \in users \cup {Nobody}
                /\ \A q \in Procs : ~At(q, d, Removing)

\* Whatever step its process died in, an abandoned directory does not stay:
\* some later run's sweep_abandoned reclaims it.
Abandoned(d) == Exists(d) /\ \A p \in Procs : holder[d] # p /\ cur[p] # d
AbandonedIsReclaimed == \A d \in Dirs : Abandoned(d) ~> ~Exists(d)

=============================================================================
