--------------------------- MODULE RestoreClient ---------------------------
(***************************************************************************)
(* The restore run of the ramrod client (src/ramrod/client.rs:             *)
(* run_restore_with_cancellation): the control loop, the transfer workers  *)
(* it starts for asynchronous data requests, and how one of them failing,  *)
(* or the end of the control session, stops the others and is reported.    *)
(* They share three atomics: first_failure, terminal_cleanup and cancel,   *)
(* the last of which also ends a blocked receive, because the control      *)
(* stream is dialled with it (src/restore/driver.rs).                      *)
(*                                                                         *)
(* A message is what it does to this state; the guest sends any at any     *)
(* time, or none.                                                          *)
(***************************************************************************)
EXTENDS Naturals, Sequences, Functions

CONSTANTS
    MaxWorkers,  \* bound: asynchronous transfers of a run
    None         \* usize::MAX in first_failure

ASSUME WorkersAssumption == MaxWorkers \in Nat /\ None \notin Nat

Ids == 1 .. MaxWorkers

VARIABLES
    firstFailure,     \* the first worker to report a failure
    terminalCleanup,  \* the run is over and cancelled transfers are forgiven
    cancel,           \* the shared cancellation flag
    wpc,              \* where each worker is
    wresult,          \* what its transfer returned
    mpc,              \* where the control thread is
    cursor,           \* the position of its sweep over the active transfers
    active,           \* transfers started and not joined
    nextId,           \* transfers started
    failures,         \* joined transfers that count as failed
    loopResult,       \* how the control loop ended
    failedWorker,     \* first_failure as loaded after the loop
    cleanup,          \* the value it decided for terminal_cleanup
    result            \* what the run returns

atomics == <<firstFailure, terminalCleanup, cancel>>
workers == <<wpc, wresult>>
ending == <<loopResult, failedWorker, cleanup, result>>
clientVars == <<atomics, workers, mpc, cursor, active, nextId, failures, ending>>

-----------------------------------------------------------------------------
(* A worker.                                                               *)

WorkerAt(w, from, to) == wpc[w] = from /\ wpc' = [wpc EXCEPT ![w] = to]

control == <<mpc, cursor, active, nextId, failures, ending>>

\* The transfer returns, fails of its own accord, or panics.
TransferEnds(w) ==
    /\ WorkerAt(w, "running", "ended")
    /\ \E r \in {"ok", "genuine"} : wresult' = [wresult EXCEPT ![w] = r]
    /\ UNCHANGED <<atomics, control>>

\* The transfer sees the cancellation flag.
TransferCancelled(w) ==
    /\ cancel
    /\ WorkerAt(w, "running", "ended")
    /\ wresult' = [wresult EXCEPT ![w] = "cancelled"]
    /\ UNCHANGED <<atomics, control>>

\* A failed transfer is reported unless it was merely cancelled by the cleanup.
WorkerLoadsCleanup(w) ==
    /\ WorkerAt(w, "ended", IF wresult[w] = "ok" THEN "finished"
                            ELSE IF terminalCleanup /\ wresult[w] = "cancelled" THEN "raise"
                            ELSE "publish")
    /\ UNCHANGED <<atomics, wresult, control>>

\* Mutant of FirstOf: a later failure overwrites the first.
FirstOfLast(w) == w

\* compare_exchange from usize::MAX.
FirstOf(w) == IF firstFailure = None THEN w ELSE firstFailure

PublishFailure(w) ==
    /\ WorkerAt(w, "publish", "raise")
    /\ firstFailure' = FirstOf(w)
    /\ UNCHANGED <<terminalCleanup, cancel, wresult, control>>

\* Mutant of Raised: a failed worker keeps to itself.
RaisedNot == cancel

Raised == TRUE

RaiseCancel(w) ==
    /\ WorkerAt(w, "raise", "finished")
    /\ cancel' = Raised
    /\ UNCHANGED <<firstFailure, terminalCleanup, wresult, control>>

-----------------------------------------------------------------------------
(* The control loop.                                                       *)

MainAt(from, to) == mpc = from /\ mpc' = to

\* Mutant of CleanupForgives: the cleanup forgives every failure.
CleanupForgivesAll(w, terminal) == terminal

\* join_bulk_transfer: a transfer cancelled by the cleanup is no failure.
CleanupForgives(w, terminal) == terminal /\ wresult[w] = "cancelled"

FailuresWith(w, terminal) ==
    IF wresult[w] = "ok" \/ CleanupForgives(w, terminal) THEN failures
    ELSE Append(failures, w)

Reaped(i) == SubSeq(active, 1, i - 1) \o SubSeq(active, i + 1, Len(active))

\* Finished transfers are joined, in order, before every message.
SweepJoins ==
    /\ mpc = "sweep" /\ cursor <= Len(active) /\ wpc[active[cursor]] = "finished"
    /\ failures' = FailuresWith(active[cursor], FALSE)
    /\ active' = Reaped(cursor)
    /\ UNCHANGED <<atomics, workers, mpc, cursor, nextId, ending>>

SweepSkips ==
    /\ mpc = "sweep" /\ cursor <= Len(active) /\ wpc[active[cursor]] # "finished"
    /\ cursor' = cursor + 1
    /\ UNCHANGED <<atomics, workers, mpc, active, nextId, failures, ending>>

SweepEnds ==
    /\ cursor > Len(active) /\ MainAt("sweep", "check")
    /\ UNCHANGED <<atomics, workers, cursor, active, nextId, failures, ending>>

LoopEnds(from, how) ==
    /\ MainAt(from, "load")
    /\ loopResult' = how
    /\ UNCHANGED <<atomics, workers, cursor, active, nextId, failures, failedWorker,
                   cleanup, result>>

\* A reported failure ends the loop quietly.
CheckFailure ==
    \/ firstFailure # None /\ LoopEnds("check", "ok")
    \/ /\ firstFailure = None /\ MainAt("check", "receive")
       /\ UNCHANGED <<atomics, workers, cursor, active, nextId, failures, ending>>

\* A message that starts no transfer, answered in place.
ReceiveMessage ==
    /\ MainAt("receive", "sweep")
    /\ cursor' = 1
    /\ UNCHANGED <<atomics, workers, active, nextId, failures, ending>>

\* An asynchronous data request starts a worker.
ReceiveRequest ==
    /\ nextId < MaxWorkers /\ MainAt("receive", "sweep")
    /\ cursor' = 1
    /\ nextId' = nextId + 1
    /\ wpc' = [wpc EXCEPT ![nextId + 1] = "running"]
    /\ active' = Append(active, nextId + 1)
    /\ UNCHANGED <<atomics, wresult, failures, ending>>

\* The final status or the end of the stream, a lost connection, or an error of
\* the control session: a malformed message, a provider or a send that failed.
ControlEnds == \E how \in {"ok", "gone", "fatal"} : LoopEnds("receive", how)

\* The control stream's receive, or an answer's provider, sees the flag.
ControlCancelled == cancel /\ LoopEnds("receive", "echo")

-----------------------------------------------------------------------------
(* After the loop.                                                         *)

FatalControl == loopResult \in {"fatal", "echo"}

LoadFirstFailure ==
    /\ MainAt("load", "mark")
    /\ failedWorker' = firstFailure
    /\ cleanup' = (~FatalControl /\ firstFailure = None)
    /\ UNCHANGED <<atomics, workers, cursor, active, nextId, failures, loopResult, result>>

MarkCleanup ==
    /\ MainAt("mark", "cancel")
    /\ terminalCleanup' = cleanup
    /\ UNCHANGED <<firstFailure, cancel, workers, cursor, active, nextId, failures, ending>>

CancelWorkers ==
    /\ MainAt("cancel", "join")
    /\ cancel' = TRUE
    /\ UNCHANGED <<firstFailure, terminalCleanup, workers, cursor, active, nextId,
                   failures, ending>>

JoinNext ==
    /\ mpc = "join" /\ active # <<>> /\ wpc[Head(active)] = "finished"
    /\ failures' = FailuresWith(Head(active), cleanup)
    /\ active' = Tail(active)
    /\ UNCHANGED <<atomics, workers, mpc, cursor, nextId, ending>>

\* A failure reported after the loop counts unless the control session failed.
RootWorker ==
    IF failedWorker # None THEN failedWorker
    ELSE IF ~FatalControl THEN firstFailure ELSE None

Worker(w) == [kind |-> "worker", id |-> w]

Decide ==
    /\ active = <<>> /\ MainAt("join", "done")
    /\ result' =
         IF RootWorker \in Range(failures) THEN Worker(RootWorker)
         ELSE IF FatalControl THEN [kind |-> loopResult, id |-> None]
         ELSE IF failures # <<>> THEN Worker(Head(failures))
         ELSE [kind |-> "ok", id |-> None]
    /\ UNCHANGED <<atomics, workers, cursor, active, nextId, failures, loopResult,
                   failedWorker, cleanup>>

-----------------------------------------------------------------------------
ClientInit ==
    /\ firstFailure = None /\ terminalCleanup = FALSE /\ cancel = FALSE
    /\ wpc = [w \in Ids |-> "none"] /\ wresult = [w \in Ids |-> "none"]
    /\ mpc = "sweep" /\ cursor = 1 /\ active = <<>> /\ nextId = 0 /\ failures = <<>>
    /\ loopResult = "none" /\ failedWorker = None /\ cleanup = FALSE
    /\ result = [kind |-> "none", id |-> None]

WorkerSteps(w) ==
    WorkerLoadsCleanup(w) \/ PublishFailure(w) \/ RaiseCancel(w) \/ TransferCancelled(w)

ControlSteps ==
    \/ SweepJoins \/ SweepSkips \/ SweepEnds \/ CheckFailure \/ ControlCancelled
    \/ LoadFirstFailure \/ MarkCleanup \/ CancelWorkers \/ JoinNext \/ Decide

ClientNext ==
    \/ \E w \in Ids : WorkerSteps(w) \/ TransferEnds(w)
    \/ ControlSteps \/ ReceiveMessage \/ ReceiveRequest \/ ControlEnds

ClientSpec == ClientInit /\ [][ClientNext]_clientVars

\* Threads are scheduled, and a blocked operation looks at the flag in time.
\* Nothing is assumed of the guest, or of a transfer left alone.
FairClientSpec ==
    /\ ClientSpec
    /\ \A w \in Ids : WF_clientVars(WorkerSteps(w))
    /\ WF_clientVars(ControlSteps)

-----------------------------------------------------------------------------
\* The run never reports a mere echo of its own cancellation: a reported worker
\* failed by itself and first, so that it is the one the others were cancelled
\* for, and a control error is the control session's own.
RootCauseReported ==
    /\ result.kind # "echo"
    /\ result.kind = "worker" =>
           wresult[result.id] = "genuine" /\ result.id = firstFailure

\* A run that succeeds had no transfer fail of its own accord, not even one that
\* failed while the run was being wound up.
SuccessIsClean == result.kind = "ok" => \A w \in Ids : wresult[w] # "genuine"

\* A failed transfer ends the run, though the guest never says another word and
\* the other transfers would go on for ever.
FailureEndsTheRun ==
    \A w \in Ids : wresult[w] = "genuine" ~> mpc = "done"

=============================================================================
