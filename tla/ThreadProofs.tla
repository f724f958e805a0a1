---------------------------- MODULE ThreadProofs ----------------------------
(***************************************************************************)
(* Proofs about threads that meet in shared state: those that use the      *)
(* usbmux link (InboundWait, LinkActivity) and those of a restore          *)
(* (RestoreClient).                                                        *)
(*                                                                         *)
(* InboundWait: NothingMissed for any number of threads, packets and       *)
(* credits.  It is not inductive: what rules a lost wakeup out is a fact   *)
(* about the threads on their way to sleep.  From the end of its turn until *)
(* it parks a thread whose sample is still current has an empty queue and  *)
(* nothing to do; whatever would change that moves the generation past the *)
(* sample.                                                                 *)
(*                                                                         *)
(* LinkActivity: no phantom hold, for any number of threads and holds: a   *)
(* stamp or a phase that is set has a thread that will still take it back. *)
(*                                                                         *)
(* RestoreClient: what a run reports, for any number of transfers: the     *)
(* failure it returns is the one the others were cancelled for, and a run  *)
(* that succeeds had none.                                                 *)
(***************************************************************************)
EXTENDS InboundWait, LinkActivity, RestoreClient, TLAPS

USE SMTT(30), ZenonT(30)

-----------------------------------------------------------------------------
(* InboundWait.                                                            *)

Sleepy == {"wait", "parked"}

\* A reader also looks at its flag between the turn and the wait.
Bound(t) == pc[t] \in Sleepy \/ (t \in Readers /\ pc[t] = "inspect")

SamplesArePast == \A t \in Threads : seen[t] <= generation

ParkedIsCurrent ==
    \A t \in Threads : pc[t] = "parked" => seen[t] = generation /\ ~closed

CurrentIsIdle ==
    \A t \in Readers \cup Writers :
        Bound(t) /\ seen[t] = generation => packets = <<>> /\ ~Ready(t)

SamplingIsDial == \A t \in Threads : pc[t] = "sampling" => t \in Dialers

WaitInv ==
    TypeOK /\ SamplingIsDial /\ SamplesArePast /\ ParkedIsCurrent /\ CurrentIsIdle

\* The types of the shared queue, the link and the threads hold initially and
\* the inductive invariant with them.
LEMMA InitWaitInv == Init => WaitInv
  <1> SUFFICES ASSUME Init PROVE WaitInv
    OBVIOUS
  <1> USE ThreadsAssumption
  <1>1. TypeOK
    <2>1. pc \in [Threads -> Pcs]
      BY DEF Init, Pcs, Outside, LoopTop
    <2>2. packets \in Seq(Threads) /\ cancelled \in SUBSET Threads
      BY DEF Init
    <2>3. received \in [Threads -> Nat] /\ seen \in [Threads -> Nat]
      BY DEF Init
    <2>4. /\ arrived \in 0 .. MaxPackets /\ generation \in Nat
          /\ hostCredits \in 0 .. HostCreditLimit
      BY DEF Init
    <2>5. closed \in BOOLEAN /\ devicePresent \in BOOLEAN /\ link \in Threads \cup {NoThread}
      BY Zenon DEF Init
    <2> QED BY <2>1, <2>2, <2>3, <2>4, <2>5 DEF TypeOK
  <1>2. SamplesArePast
    BY DEF Init, SamplesArePast
  <1>3. ParkedIsCurrent
    BY DEF Init, ParkedIsCurrent, LoopTop
  <1>4. CurrentIsIdle
    BY DEF Init, CurrentIsIdle, Bound, Sleepy, LoopTop, Ready, Threads
  <1>5. SamplingIsDial
    BY DEF Init, SamplingIsDial, LoopTop
  <1> QED BY <1>1, <1>2, <1>3, <1>4, <1>5 DEF WaitInv

\* Waking the sleepers keeps pc well typed, and leaves nobody parked.
LEMMA WokenType ==
    ASSUME TypeOK
    PROVE  /\ Woken \in [Threads -> Pcs]
           /\ \A t \in Threads : Woken[t] # "parked"
           /\ \A t \in Threads : Woken[t] = pc[t] \/ Woken[t] = LoopTop(t)
  BY DEF TypeOK, Woken, Pcs, Outside, LoopTop

\* Every step keeps the types.
LEMMA NextTypeOK == ASSUME TypeOK, [Next]_vars PROVE TypeOK'
  <1> HostCreditLimit \in Nat /\ MaxPackets \in Nat
    BY ThreadsAssumption
  <1>1. CASE UNCHANGED vars
    BY <1>1 DEF TypeOK, vars
  <1>2. ASSUME NEW t \in Threads, Inspect(t) PROVE TypeOK'
    BY <1>2 DEF Inspect, TypeOK, Pcs, Outside, AfterInspect, transport
  <1>3. ASSUME NEW t \in Threads, Enter(t) PROVE TypeOK'
    BY <1>3 DEF Enter, TypeOK, Pcs, Outside, transport
  <1>4. ASSUME NEW t \in Threads, Route(t) PROVE TypeOK'
    <2>1. Head(packets) \in Threads /\ Tail(packets) \in Seq(Threads)
      BY <1>4 DEF Route, TypeOK
    <2>2. \A u \in Threads : [received EXCEPT ![u] = @ + 1] \in [Threads -> Nat]
      BY DEF TypeOK
    <2>3. packets' \in Seq(Threads)
      BY <1>4, <2>1 DEF Route
    <2> QED BY <1>4, <2>1, <2>2, <2>3 DEF Route, TypeOK
  <1>5. ASSUME NEW t \in Threads, RouteFails(t) PROVE TypeOK'
    <2>1. Tail(packets) \in Seq(Threads)
      BY <1>5 DEF RouteFails, TypeOK
    <2> QED BY <1>5, <2>1, Zenon DEF RouteFails, TypeOK, Pcs, Outside
  <1>6. ASSUME NEW t \in Threads, CloseAndFail(t) PROVE TypeOK'
    BY <1>6, WokenType DEF CloseAndFail, TypeOK, Pcs, Outside
  <1>7. ASSUME NEW t \in Threads, DrainEnds(t) PROVE TypeOK'
    <2>1. hostCredits' \in 0 .. HostCreditLimit /\ received' \in [Threads -> Nat]
      BY <1>7 DEF DrainEnds, TypeOK, Ready
    <2>2. pc' \in [Threads -> Pcs] /\ link' \in Threads \cup {NoThread}
      BY <1>7 DEF DrainEnds, TypeOK, Pcs, Outside, AfterTurn
    <2> QED BY <1>7, <2>1, <2>2 DEF DrainEnds, TypeOK
  <1>8. ASSUME NEW t \in Threads, Sample(t) PROVE TypeOK'
    BY <1>8 DEF Sample, TypeOK, Pcs, Outside, AfterTurn, transport
  <1>9. ASSUME NEW t \in Threads, WaitForInbound(t) PROVE TypeOK'
    BY <1>9 DEF WaitForInbound, TypeOK, Pcs, Outside, LoopTop, transport
  <1>10. ASSUME NEW t \in Threads, SliceExpires(t) \/ Call(t) PROVE TypeOK'
    BY <1>10, Zenon DEF SliceExpires, Call, TypeOK, Pcs, Outside, LoopTop, transport
  <1>11. ASSUME NEW t \in Threads, PushPacket(t) PROVE TypeOK'
    <2>1. Append(packets, t) \in Seq(Threads) /\ arrived + 1 \in 0 .. MaxPackets
      BY <1>11 DEF PushPacket, TypeOK
    <2>2. Woken \in [Threads -> Pcs] /\ generation + 1 \in Nat
      BY WokenType DEF TypeOK
    <2> QED BY <1>11, <2>1, <2>2 DEF PushPacket, TypeOK
  <1>12. ASSUME NEW t \in Threads, Cancel(t) PROVE TypeOK'
    BY <1>12 DEF Cancel, TypeOK, transport
  <1>13. CASE AddHostCredit
    BY <1>13, WokenType DEF AddHostCredit, CreditFits, TypeOK
  <1>14. CASE MarkAbsent
    BY <1>14, Zenon DEF MarkAbsent, TypeOK
  <1>15. CASE MarkClosed
    BY <1>15, WokenType DEF MarkClosed, TypeOK
  <1> QED
    BY <1>1, <1>2, <1>3, <1>4, <1>5, <1>6, <1>7, <1>8, <1>9, <1>10, <1>11, <1>12,
       <1>13, <1>14, <1>15 DEF Next, Turn

\* Only a dial samples after its drain.
LEMMA NextSampling ==
    ASSUME TypeOK, SamplingIsDial, [Next]_vars PROVE SamplingIsDial'
  <1> SUFFICES ASSUME NEW u \in Threads, pc'[u] = "sampling" PROVE u \in Dialers
    BY DEF SamplingIsDial
  <1>1. ASSUME NEW t \in Threads,
               Inspect(t) \/ Enter(t) \/ Route(t) \/ RouteFails(t) \/ WaitForInbound(t)
        PROVE  pc[u] = "sampling"
    BY <1>1 DEF Inspect, Enter, Route, RouteFails, WaitForInbound, AfterInspect, LoopTop,
       TypeOK
  <1>2. ASSUME NEW t \in Threads, Sample(t) \/ SliceExpires(t) \/ Call(t) \/ Cancel(t)
        PROVE  pc[u] = "sampling"
    BY <1>2 DEF Sample, SliceExpires, Call, Cancel, AfterTurn, LoopTop, TypeOK
  <1>3. ASSUME NEW t \in Threads, DrainEnds(t) PROVE pc[u] = "sampling" \/ u \in Dialers
    BY <1>3 DEF DrainEnds, AfterTurn, TypeOK
  <1>4. ASSUME NEW t \in Threads, CloseAndFail(t) \/ PushPacket(t)
        PROVE  pc[u] = "sampling"
    BY <1>4, WokenType, Zenon DEF CloseAndFail, PushPacket, LoopTop, TypeOK
  <1>5. CASE AddHostCredit \/ MarkClosed \/ MarkAbsent \/ UNCHANGED vars
    <2>1. pc[u] = "sampling"
      BY <1>5, WokenType DEF AddHostCredit, MarkClosed, MarkAbsent, vars, LoopTop
    <2> QED BY <2>1 DEF SamplingIsDial
  <1> QED BY <1>1, <1>2, <1>3, <1>4, <1>5 DEF Next, Turn, SamplingIsDial

\* A step that wakes everyone and moves the generation, or closes the queue,
\* leaves nobody parked; what is left to show is about the threads in "wait"
\* and the readers in "inspect".
LEMMA NextWaitInv == ASSUME WaitInv, [Next]_vars PROVE WaitInv'
  <1> USE ThreadsAssumption DEF WaitInv
  <1>0. TypeOK' /\ SamplingIsDial'
    BY NextTypeOK, NextSampling
  <1>1. CASE UNCHANGED vars
    BY <1>0, <1>1 DEF vars, SamplesArePast, ParkedIsCurrent, CurrentIsIdle, Bound, Ready
  <1>2. ASSUME NEW t \in Threads, Inspect(t) PROVE WaitInv'
    BY <1>0, <1>2 DEF Inspect, transport, SamplesArePast, ParkedIsCurrent, CurrentIsIdle,
       Bound, Ready, AfterInspect, Sleepy, TypeOK, Threads
  <1>3. ASSUME NEW t \in Threads, Enter(t) PROVE WaitInv'
    BY <1>0, <1>3 DEF Enter, transport, SamplesArePast, ParkedIsCurrent, CurrentIsIdle,
       Bound, Ready, Sleepy, TypeOK, Threads
  <1>4. ASSUME NEW t \in Threads, Route(t) PROVE WaitInv'
    BY <1>0, <1>4, Zenon DEF Route, SamplesArePast, ParkedIsCurrent, CurrentIsIdle,
       Bound, Ready, TypeOK, Threads
  <1>5. ASSUME NEW t \in Threads, RouteFails(t) PROVE WaitInv'
    BY <1>0, <1>5 DEF RouteFails, SamplesArePast, ParkedIsCurrent, CurrentIsIdle,
       Bound, Ready, Sleepy, TypeOK, Threads
  <1>6. ASSUME NEW t \in Threads, CloseAndFail(t) PROVE WaitInv'
    <2>1. \A u \in Threads : pc'[u] # "parked"
      BY <1>6, WokenType DEF CloseAndFail, TypeOK
    <2>2. \A u \in Threads : Bound(u)' => Bound(u)
      BY <1>6, WokenType DEF CloseAndFail, TypeOK, Bound, Sleepy, LoopTop
    <2> QED BY <1>0, <1>6, <2>1, <2>2 DEF CloseAndFail, SamplesArePast, ParkedIsCurrent,
       CurrentIsIdle, Ready, Threads
  <1>7. ASSUME NEW t \in Threads, DrainEnds(t) PROVE WaitInv'
    <2>1. SamplesArePast'
      BY <1>7 DEF DrainEnds, SamplesArePast
    <2>2. ParkedIsCurrent'
      BY <1>7 DEF DrainEnds, ParkedIsCurrent, AfterTurn, TypeOK
    <2>3. ASSUME NEW u \in Readers \cup Writers, Bound(u)', (seen[u] = generation)'
          PROVE  (packets = <<>> /\ ~Ready(u))'
      <3>1. packets' = <<>>
        BY <1>7 DEF DrainEnds
      <3>2. CASE u = t
        BY <1>7, <2>3, <3>2 DEF DrainEnds, Bound, Sleepy, Ready, TypeOK, Threads
      <3>3. CASE u # t
        <4>1. Bound(u) /\ seen[u] = generation
          BY <1>7, <2>3, <3>3 DEF DrainEnds, Bound, TypeOK, Threads
        <4>2. ~Ready(u)
          BY <4>1 DEF CurrentIsIdle
        <4>3. received'[u] = received[u] /\ hostCredits' <= hostCredits
          BY <1>7, <3>3 DEF DrainEnds, TypeOK, Threads
        <4> QED BY <3>1, <4>2, <4>3, <1>0 DEF Ready, TypeOK
      <3> QED BY <3>2, <3>3
    <2> QED BY <1>0, <2>1, <2>2, <2>3 DEF CurrentIsIdle
  <1>8. ASSUME NEW t \in Threads, Sample(t) PROVE WaitInv'
    <2>1. t \in Dialers
      BY <1>8 DEF Sample, SamplingIsDial
    <2> QED
      BY <1>0, <1>8, <2>1 DEF Sample, transport, SamplesArePast, ParkedIsCurrent,
         CurrentIsIdle, Bound, Ready, AfterTurn, TypeOK, Threads
  <1>9. ASSUME NEW t \in Threads, WaitForInbound(t) PROVE WaitInv'
    <2>1. SamplesArePast' /\ ParkedIsCurrent'
      BY <1>9 DEF WaitForInbound, Moved, transport, SamplesArePast, ParkedIsCurrent,
         LoopTop, TypeOK
    <2>2. \A u \in Threads : Bound(u)' => Bound(u)
      BY <1>9 DEF WaitForInbound, Bound, Sleepy, LoopTop, TypeOK
    <2> QED BY <1>0, <1>9, <2>1, <2>2 DEF WaitForInbound, transport, CurrentIsIdle,
       Ready, Threads
  <1>10. ASSUME NEW t \in Threads, SliceExpires(t) \/ Call(t) PROVE WaitInv'
    <2>1. SamplesArePast' /\ ParkedIsCurrent'
      BY <1>10 DEF SliceExpires, Call, transport, SamplesArePast, ParkedIsCurrent,
         LoopTop, TypeOK
    <2>2. \A u \in Threads : Bound(u)' => Bound(u)
      BY <1>10 DEF SliceExpires, Call, Bound, Sleepy, LoopTop, TypeOK
    <2> QED BY <1>0, <1>10, <2>1, <2>2 DEF SliceExpires, Call, transport,
       CurrentIsIdle, Ready, Threads
  <1>11. ASSUME NEW t \in Threads, PushPacket(t) PROVE WaitInv'
    <2>1. \A u \in Threads : pc'[u] # "parked" /\ seen'[u] < generation'
      BY <1>11, WokenType, SMTT(30) DEF PushPacket, SamplesArePast, TypeOK
    <2>2. \A u \in Threads : seen'[u] <= generation' /\ seen'[u] # generation'
      <3>1. generation' \in Nat /\ \A u \in Threads : seen'[u] \in Nat
        BY <1>0 DEF TypeOK
      <3> QED BY <2>1, <3>1
    <2>3. SamplesArePast' /\ ParkedIsCurrent'
      BY <2>1, <2>2 DEF SamplesArePast, ParkedIsCurrent
    <2> QED BY <1>0, <2>2, <2>3 DEF CurrentIsIdle, Threads
  <1>12. ASSUME NEW t \in Threads, Cancel(t) PROVE WaitInv'
    BY <1>0, <1>12 DEF Cancel, transport, SamplesArePast, ParkedIsCurrent, CurrentIsIdle,
       Bound, Ready
  <1>13. CASE AddHostCredit
    <2>1. \A u \in Threads : pc'[u] # "parked" /\ seen'[u] < generation'
      BY <1>13, WokenType DEF AddHostCredit, SamplesArePast, TypeOK
    <2>2. \A u \in Threads : seen'[u] <= generation' /\ seen'[u] # generation'
      <3>1. generation' \in Nat /\ \A u \in Threads : seen'[u] \in Nat
        BY <1>0 DEF TypeOK
      <3> QED BY <2>1, <3>1
    <2>3. SamplesArePast' /\ ParkedIsCurrent'
      BY <2>1, <2>2 DEF SamplesArePast, ParkedIsCurrent
    <2> QED BY <1>0, <2>2, <2>3 DEF CurrentIsIdle, Threads
  <1>14. CASE MarkAbsent
    BY <1>0, <1>14 DEF MarkAbsent, SamplesArePast, ParkedIsCurrent, CurrentIsIdle,
       Bound, Ready
  <1>15. CASE MarkClosed
    <2>1. \A u \in Threads : pc'[u] # "parked"
      BY <1>15, WokenType DEF MarkClosed
    <2>2. \A u \in Threads : Bound(u)' => Bound(u)
      BY <1>15, WokenType DEF MarkClosed, TypeOK, Bound, Sleepy, LoopTop
    <2> QED BY <1>0, <1>15, <2>1, <2>2 DEF MarkClosed, SamplesArePast, ParkedIsCurrent,
       CurrentIsIdle, Ready, Threads
  <1> QED
    BY <1>1, <1>2, <1>3, <1>4, <1>5, <1>6, <1>7, <1>8, <1>9, <1>10, <1>11, <1>12,
       <1>13, <1>14, <1>15, Zenon DEF Next, Turn

-----------------------------------------------------------------------------

\* The shared queue, its counters and the threads' states keep their types.
THEOREM WaitTypeCorrect == Spec => []TypeOK
  <1>1. TypeOK /\ [Next]_vars => TypeOK'
    BY NextTypeOK
  <1>2. Init => TypeOK
    BY InitWaitInv DEF WaitInv
  <1> QED BY <1>1, <1>2, PTL DEF Spec

\* However many threads share the link, a read or a write that sleeps in
\* wait_for_inbound sleeps beside an empty queue with nothing of its own to do:
\* no wakeup of read_shared or write_shared is lost.
THEOREM NoLostWakeup == Spec => []NothingMissed
  <1>1. Init => WaitInv
    BY InitWaitInv
  <1>2. WaitInv /\ [Next]_vars => WaitInv'
    BY NextWaitInv
  <1>3. WaitInv => NothingMissed
    BY DEF WaitInv, ParkedIsCurrent, CurrentIsIdle, NothingMissed, Bound, Sleepy, Threads
  <1> QED BY <1>1, <1>2, <1>3, PTL DEF Spec

-----------------------------------------------------------------------------
(* LinkActivity.                                                           *)

\* The threads that have yet to clear the stamp, and the phase.
ClearsStamp(t) == place[t] \in {"count", "body", "unlocked"}
ClearsPhase(t) == place[t] \in {"port", "stamp", "count", "body", "unlocked", "cleared"}

PhantomInv ==
    /\ place \in [Users -> Places]
    /\ heldSince # 0 => \E t \in Users : ClearsStamp(t)
    /\ phase # 0 => \E t \in Users : ClearsPhase(t)

\* A link nobody is on shows no hold and no phase, whatever the order in which
\* the late stores of LinkHold::drop came.
THEOREM PhantomFree == ActivitySpec => []NoPhantomHold
<1>1. ActivityInit => PhantomInv
  BY DEF ActivityInit, PhantomInv, Places
<1>2. PhantomInv /\ [ActivityNext]_activityVars => PhantomInv'
  <2> SUFFICES ASSUME PhantomInv, [ActivityNext]_activityVars PROVE PhantomInv'
    OBVIOUS
  <2> USE DEF PhantomInv, ClearsStamp, ClearsPhase, Places, Goto
  <2>1. CASE \E t \in Users : BeginWait(t) \/ Lock(t) \/ StopWaiting(t)
    <3>1. PICK t \in Users : BeginWait(t) \/ Lock(t) \/ StopWaiting(t)
      BY <2>1
    <3>2. heldSince' = heldSince /\ phase' = phase
      BY <3>1 DEF BeginWait, Lock, StopWaiting, activity
    <3>3. /\ place[t] \in {"out", "waiting", "locked"}
          /\ \E w \in {"waiting", "locked", "phase"} : place' = [place EXCEPT ![t] = w]
      BY <3>1 DEF BeginWait, Lock, StopWaiting
    <3> QED BY <3>2, <3>3
  <2>2. CASE \E t \in Users : StorePhase(t)
    BY <2>2 DEF StorePhase
  <2>3. CASE \E t \in Users : StorePort(t)
    BY <2>3 DEF StorePort
  <2>4. CASE \E t \in Users : StoreStamp(t)
    BY <2>4 DEF StoreStamp
  <2>5. CASE \E t \in Users : CountAcquisition(t)
    BY <2>5 DEF CountAcquisition
  <2>6. CASE \E t \in Users : Unlock(t)
    BY <2>6 DEF Unlock, activity
  <2>7. CASE \E t \in Users : ClearStamp(t)
    BY <2>7 DEF ClearStamp
  <2>8. CASE \E t \in Users : ClearPhase(t)
    BY <2>8 DEF ClearPhase
  <2>9. CASE \E t \in Users : CountRelease(t)
    BY <2>9 DEF CountRelease
  <2>10. CASE UNCHANGED activityVars
    BY <2>10 DEF activityVars, activity
  <2> QED BY <2>1, <2>2, <2>3, <2>4, <2>5, <2>6, <2>7, <2>8, <2>9, <2>10 DEF ActivityNext
<1>3. PhantomInv => NoPhantomHold
  BY DEF PhantomInv, NoPhantomHold, ClearsStamp, ClearsPhase
<1> QED BY <1>1, <1>2, <1>3, PTL DEF ActivitySpec

-----------------------------------------------------------------------------
(* RestoreClient.                                                          *)

WorkerPcs == {"none", "running", "ended", "publish", "raise", "finished"}
WorkerResults == {"none", "ok", "genuine", "cancelled"}
InLoop == {"sweep", "check", "receive"}
BeforeCancel == InLoop \cup {"load", "mark", "cancel"}
AfterLoad == {"mark", "cancel", "join", "done"}
MainPcs == BeforeCancel \cup AfterLoad

RunTypes ==
    /\ firstFailure \in Ids \cup {None} /\ failedWorker \in Ids \cup {None}
    /\ terminalCleanup \in BOOLEAN /\ cancel \in BOOLEAN /\ cleanup \in BOOLEAN
    /\ wpc \in [Ids -> WorkerPcs] /\ wresult \in [Ids -> WorkerResults]
    /\ mpc \in MainPcs /\ cursor \in Nat \ {0} /\ nextId \in 0 .. MaxWorkers
    /\ active \in Seq(Ids) /\ failures \in Seq(Ids)
    /\ loopResult \in {"none", "ok", "gone", "fatal", "echo"}
    /\ mpc \in InLoop => loopResult = "none"
    /\ \A w \in Ids : w > nextId => wpc[w] = "none"

\* A worker's result goes with where it is; once its own failure is past the
\* publication, somebody's is published.
WorkersInv ==
    \A w \in Ids :
        /\ wpc[w] \in {"none", "running"} <=> wresult[w] = "none"
        /\ wpc[w] \in {"publish", "raise"} => wresult[w] # "ok"
        /\ wresult[w] = "cancelled" => cancel
        /\ wpc[w] \in {"raise", "finished"} /\ wresult[w] = "genuine" => firstFailure # None

\* Only after the loop is anything cancelled that no failure was published for.
CancelInv ==
    /\ cancel /\ mpc \in BeforeCancel => firstFailure # None
    /\ terminalCleanup => mpc \in AfterLoad /\ cleanup
    /\ mpc \in {"cancel", "join", "done"} => (terminalCleanup <=> cleanup)
    /\ loopResult = "echo" => firstFailure # None
    /\ mpc \in AfterLoad =>
        /\ failedWorker # None => failedWorker = firstFailure
        /\ loopResult = "echo" => failedWorker # None
        /\ cleanup <=> ~FatalControl /\ failedWorker = None
    /\ mpc \notin AfterLoad => failedWorker = None

\* The run ended by a fatal error of the control session, nothing failed before.
ControlFailed == mpc \in {"join", "done"} /\ loopResult = "fatal" /\ failedWorker = None

\* A published worker failed by itself, unless the control session had failed.
PublishedInv ==
    /\ firstFailure # None => wresult[firstFailure] = "genuine" \/ ControlFailed
    /\ \A w \in Ids : wpc[w] = "publish" /\ wresult[w] = "cancelled" =>
           firstFailure # None \/ ControlFailed

\* No transfer is lost between the active ones and the failures.
JoinedInv ==
    \A w \in Ids :
        /\ w \in Range(active) \/ wpc[w] \in {"none", "finished"}
        /\ wpc[w] = "finished" /\ wresult[w] = "genuine" =>
               w \in Range(active) \/ w \in Range(failures)
        /\ w \in Range(failures) =>
               /\ wpc[w] = "finished"
               /\ wresult[w] = "cancelled" => firstFailure # None \/ ControlFailed
               /\ wresult[w] # "ok"

\* What was decided still stands.
ResultInv ==
    /\ mpc # "done" => result.kind = "none"
    /\ mpc = "done" => active = <<>>
    /\ RootCauseReported
    /\ SuccessIsClean

RunInv == RunTypes /\ WorkersInv /\ CancelInv /\ PublishedInv /\ JoinedInv /\ ResultInv

-----------------------------------------------------------------------------
(* What the sequence operations do to the set of their elements. *)

LEMMA AppendRange ==
    ASSUME NEW S, NEW s \in Seq(S), NEW x \in S
    PROVE  Append(s, x) \in Seq(S) /\ Range(Append(s, x)) = Range(s) \cup {x}
<1>1. /\ Append(s, x) \in Seq(S) /\ Len(Append(s, x)) = Len(s) + 1
      /\ \A i \in 1 .. Len(s) : Append(s, x)[i] = s[i]
      /\ Append(s, x)[Len(s) + 1] = x
  OBVIOUS
<1>2. DOMAIN s = 1 .. Len(s) /\ DOMAIN Append(s, x) = 1 .. Len(s) + 1 /\ Len(s) \in Nat
  BY <1>1
<1>3. 1 .. Len(s) + 1 = (1 .. Len(s)) \cup {Len(s) + 1}
  BY <1>2
<1> QED BY <1>1, <1>2, <1>3 DEF Range

LEMMA TailRange ==
    ASSUME NEW S, NEW s \in Seq(S), s # <<>>
    PROVE  /\ Tail(s) \in Seq(S) /\ Head(s) \in S
           /\ Range(s) \subseteq Range(Tail(s)) \cup {Head(s)}
<1>1. /\ Tail(s) \in Seq(S) /\ Head(s) \in S /\ Len(Tail(s)) = Len(s) - 1
      /\ \A i \in 1 .. Len(Tail(s)) : Tail(s)[i] = s[i + 1]
  OBVIOUS
<1>2. DOMAIN s = 1 .. Len(s) /\ DOMAIN Tail(s) = 1 .. Len(Tail(s)) /\ Len(s) \in Nat
  BY <1>1
<1>3. Head(s) = s[1]
  OBVIOUS
<1>4. ASSUME NEW i \in 1 .. Len(s) PROVE s[i] \in Range(Tail(s)) \cup {Head(s)}
  <2>1. CASE i = 1
    BY <2>1, <1>3
  <2>2. CASE i # 1
    <3>1. i - 1 \in 1 .. Len(Tail(s)) /\ Tail(s)[i - 1] = s[i]
      BY <1>1, <1>2, <2>2
    <3> QED BY <1>2, <3>1, Zenon DEF Range
  <2> QED BY <2>1, <2>2
<1> QED BY <1>1, <1>2, <1>4 DEF Range

LEMMA PieceOf ==
    ASSUME NEW S, NEW s \in Seq(S), NEW m \in Nat, m > 0, NEW n \in Nat, n <= Len(s),
           m <= n + 1
    PROVE  /\ SubSeq(s, m, n) \in Seq(S)
           /\ Len(SubSeq(s, m, n)) = n - m + 1
           /\ \A i \in 1 .. n - m + 1 : SubSeq(s, m, n)[i] = s[m + i - 1]
<1>1. m \in Int /\ n \in Int
  OBVIOUS
<1>2. \A i \in m .. n : i \in 1 .. Len(s)
  OBVIOUS
<1>3. \A i \in m .. n : s[i] \in S
  BY <1>2
<1> QED BY <1>1, <1>3

LEMMA JoinedSeq ==
    ASSUME NEW S, NEW a \in Seq(S), NEW b \in Seq(S)
    PROVE  /\ a \o b \in Seq(S) /\ Len(a \o b) = Len(a) + Len(b)
           /\ \A i \in 1 .. Len(a) + Len(b) :
                 (a \o b)[i] = IF i <= Len(a) THEN a[i] ELSE b[i - Len(a)]
OBVIOUS

LEMMA RemoveRange ==
    ASSUME NEW S, NEW s \in Seq(S), NEW k \in 1 .. Len(s)
    PROVE  /\ SubSeq(s, 1, k - 1) \o SubSeq(s, k + 1, Len(s)) \in Seq(S) /\ s[k] \in S
           /\ Range(s) \subseteq Range(SubSeq(s, 1, k - 1) \o SubSeq(s, k + 1, Len(s))) \cup {s[k]}
<1> DEFINE front == SubSeq(s, 1, k - 1)
           back == SubSeq(s, k + 1, Len(s))
<1>0. /\ Len(s) \in Nat /\ k \in Nat /\ k > 0 /\ k <= Len(s)
      /\ s[k] \in S /\ DOMAIN s = 1 .. Len(s)
  OBVIOUS
<1>1. /\ front \in Seq(S) /\ Len(front) = k - 1
      /\ \A i \in 1 .. k - 1 : front[i] = s[i]
  <2>0. 1 \in Nat /\ 1 > 0 /\ k - 1 \in Nat /\ k - 1 <= Len(s) /\ 1 <= (k - 1) + 1
    BY <1>0
  <2>1. PICK m \in Nat, n \in Nat :
            m = 1 /\ m > 0 /\ n = k - 1 /\ n <= Len(s) /\ m <= n + 1
    BY <2>0, Zenon
  <2>2. /\ SubSeq(s, m, n) \in Seq(S) /\ Len(SubSeq(s, m, n)) = n - m + 1
        /\ \A i \in 1 .. n - m + 1 : SubSeq(s, m, n)[i] = s[m + i - 1]
    BY <2>1, PieceOf
  <2>3. front = SubSeq(s, m, n)
    BY <2>1, Zenon
  <2> HIDE DEF front
  <2>4. n - m + 1 = k - 1
    BY <1>0, <2>1
  <2>5. ASSUME NEW i \in 1 .. k - 1 PROVE m + i - 1 = i
    BY <1>0, <2>1
  <2>6. ASSUME NEW i \in 1 .. k - 1 PROVE front[i] = s[i]
    BY <2>2, <2>3, <2>4, <2>5, <2>6, Zenon
  <2> QED BY <2>2, <2>3, <2>4, <2>6, Zenon
<1>2. /\ back \in Seq(S) /\ Len(back) = Len(s) - k
      /\ \A i \in 1 .. Len(s) - k : back[i] = s[k + i]
  <2>0. k + 1 \in Nat /\ k + 1 > 0 /\ Len(s) <= Len(s) /\ k + 1 <= Len(s) + 1
    BY <1>0
  <2>1. PICK m \in Nat, n \in Nat :
            m = k + 1 /\ m > 0 /\ n = Len(s) /\ n <= Len(s) /\ m <= n + 1
    BY <1>0, <2>0, Zenon
  <2>2. /\ SubSeq(s, m, n) \in Seq(S) /\ Len(SubSeq(s, m, n)) = n - m + 1
        /\ \A i \in 1 .. n - m + 1 : SubSeq(s, m, n)[i] = s[m + i - 1]
    BY <2>1, PieceOf
  <2>3. back = SubSeq(s, m, n)
    BY <2>1, Zenon
  <2> HIDE DEF back
  <2>4. n - m + 1 = Len(s) - k
    BY <1>0, <2>1
  <2>5. ASSUME NEW i \in 1 .. Len(s) - k PROVE m + i - 1 = k + i
    BY <1>0, <2>1
  <2>6. ASSUME NEW i \in 1 .. Len(s) - k PROVE back[i] = s[k + i]
    BY <2>2, <2>3, <2>4, <2>5, <2>6, Zenon
  <2> QED BY <2>2, <2>3, <2>4, <2>6, Zenon
<1> HIDE DEF front, back
<1>3. /\ front \o back \in Seq(S) /\ Len(front \o back) = Len(s) - 1
      /\ \A i \in 1 .. Len(s) - 1 :
            (front \o back)[i] = IF i <= k - 1 THEN front[i] ELSE back[i - (k - 1)]
  <2>1. /\ front \o back \in Seq(S) /\ Len(front \o back) = Len(front) + Len(back)
        /\ \A i \in 1 .. Len(front) + Len(back) :
              (front \o back)[i] = IF i <= Len(front) THEN front[i] ELSE back[i - Len(front)]
    BY <1>1, <1>2, JoinedSeq, Zenon
  <2>2. Len(front) + Len(back) = Len(s) - 1
    BY <1>0, <1>1, <1>2
  <2> QED BY <1>1, <2>1, <2>2
<1>4. DOMAIN (front \o back) = 1 .. Len(s) - 1
  BY <1>3
<1>5. ASSUME NEW i \in 1 .. Len(s) PROVE s[i] \in Range(front \o back) \cup {s[k]}
  <2>1. CASE i < k
    <3>1. i \in 1 .. Len(s) - 1 /\ (front \o back)[i] = s[i]
      BY <1>0, <1>1, <1>3, <2>1
    <3> QED BY <1>4, <3>1 DEF Range
  <2>2. CASE i > k
    <3>1. i - 1 \in 1 .. Len(s) - 1 /\ (front \o back)[i - 1] = s[i]
      <4>1. i - 1 \in 1 .. Len(s) - 1 /\ ~(i - 1 <= k - 1) /\ (i - 1) - (k - 1) = i - k
        BY <1>0, <2>2
      <4>2. i - k \in 1 .. Len(s) - k /\ k + (i - k) = i
        BY <1>0, <2>2
      <4>3. (front \o back)[i - 1] = back[(i - 1) - (k - 1)]
        BY <1>3, <4>1, Zenon
      <4>4. back[i - k] = s[k + (i - k)]
        BY <1>2, <4>2
      <4> QED BY <4>1, <4>2, <4>3, <4>4
    <3> QED BY <1>4, <3>1, Zenon DEF Range
  <2>3. CASE i = k
    BY <2>3
  <2> QED BY <1>0, <2>1, <2>2, <2>3
<1>6. SubSeq(s, 1, k - 1) \o SubSeq(s, k + 1, Len(s)) = front \o back
  BY DEF front, back
<1>7. Range(s) \subseteq Range(front \o back) \cup {s[k]}
  BY <1>0, <1>5 DEF Range
<1> QED BY <1>0, <1>3, <1>6, <1>7

\* The empty sequence holds nothing, a sequence that is not holds its head.
LEMMA EndsRange ==
    ASSUME NEW S, NEW s \in Seq(S)
    PROVE  /\ s = <<>> => Range(s) = {}
           /\ s # <<>> => Head(s) \in Range(s)
           /\ Range(s) \subseteq S
<1>1. DOMAIN s = 1 .. Len(s) /\ Len(s) \in Nat /\ \A i \in 1 .. Len(s) : s[i] \in S
  OBVIOUS
<1>2. s = <<>> => Len(s) = 0
  OBVIOUS
<1>3. s # <<>> => 1 \in 1 .. Len(s) /\ Head(s) = s[1]
  <2>1. s # <<>> => Len(s) \in Nat \ {0}
    OBVIOUS
  <2> QED BY <2>1
<1>4. s = <<>> => Range(s) = {}
  BY <1>1, <1>2 DEF Range
<1> QED BY <1>1, <1>3, <1>4 DEF Range

\* Joining a transfer adds it to the failures, unless it succeeded or is forgiven.
LEMMA JoinFailures ==
    ASSUME RunTypes, NEW w \in Ids, NEW terminal
    PROVE  /\ FailuresWith(w, terminal) \in Seq(Ids)
           /\ Range(failures) \subseteq Range(FailuresWith(w, terminal))
           /\ Range(FailuresWith(w, terminal)) \subseteq Range(failures) \cup {w}
           /\ w \in Range(FailuresWith(w, terminal)) \/ wresult[w] = "ok"
                  \/ CleanupForgives(w, terminal)
           /\ wresult[w] = "ok" \/ CleanupForgives(w, terminal) =>
                  FailuresWith(w, terminal) = failures
<1>1. Append(failures, w) \in Seq(Ids) /\ Range(Append(failures, w)) = Range(failures) \cup {w}
  BY AppendRange DEF RunTypes
<1> HIDE DEF CleanupForgives
<1> QED BY <1>1 DEF FailuresWith, RunTypes

-----------------------------------------------------------------------------
LEMMA InitRun == ClientInit => RunInv
<1> SUFFICES ASSUME ClientInit PROVE RunInv
  OBVIOUS
<1>1. RunTypes
  <2>1. wpc \in [Ids -> WorkerPcs] /\ wresult \in [Ids -> WorkerResults]
    BY DEF ClientInit, WorkerPcs, WorkerResults
  <2>2. active \in Seq(Ids) /\ failures \in Seq(Ids)
    BY DEF ClientInit
  <2>3. nextId \in 0 .. MaxWorkers /\ cursor \in Nat \ {0}
    BY WorkersAssumption DEF ClientInit
  <2> QED BY <2>1, <2>2, <2>3, Zenon DEF ClientInit, RunTypes, MainPcs, BeforeCancel, InLoop
<1>2. WorkersInv /\ CancelInv /\ PublishedInv
  BY DEF ClientInit, WorkersInv, CancelInv, PublishedInv, AfterLoad, Ids, FatalControl
<1>3. Range(failures) = {}
  BY <1>1, EndsRange, Zenon DEF ClientInit, RunTypes
<1>4. JoinedInv /\ ResultInv
  BY <1>3 DEF ClientInit, JoinedInv, ResultInv, RootCauseReported, SuccessIsClean
<1> QED BY <1>1, <1>2, <1>4 DEF RunInv

\* A worker at work is still active, so that the run is not over.
LEMMA WorkingIsActive ==
    ASSUME RunInv, NEW w \in Ids, wpc[w] \notin {"none", "finished"}
    PROVE  w \in Range(active) /\ mpc # "done" /\ result.kind = "none"
<1>1. w \in Range(active)
  BY DEF RunInv, JoinedInv
<1>2. active # <<>>
  BY <1>1, EndsRange DEF RunInv, RunTypes
<1> QED BY <1>1, <1>2 DEF RunInv, ResultInv

\* What a worker does leaves the control thread's part of the invariant alone.
LEMMA TransferStep ==
    ASSUME RunInv, NEW w \in Ids, TransferEnds(w) \/ TransferCancelled(w)
    PROVE  RunInv'
<1>1. /\ wpc[w] = "running" /\ wpc' = [wpc EXCEPT ![w] = "ended"]
      /\ \E r \in {"ok", "genuine", "cancelled"} :
            wresult' = [wresult EXCEPT ![w] = r] /\ (r = "cancelled" => cancel)
      /\ UNCHANGED <<atomics, control>>
  BY DEF TransferEnds, TransferCancelled, WorkerAt
<1>2. PICK r \in {"ok", "genuine", "cancelled"} :
          wresult' = [wresult EXCEPT ![w] = r] /\ (r = "cancelled" => cancel)
  BY <1>1, Zenon
<1>3. UNCHANGED <<firstFailure, terminalCleanup, cancel, mpc, cursor, active, nextId,
                  failures, loopResult, failedWorker, cleanup, result>>
  BY <1>1 DEF atomics, control, ending
<1>4. w \in Range(active) /\ mpc # "done" /\ result.kind = "none"
  BY <1>1, WorkingIsActive
<1>5. RunTypes'
  BY <1>1, <1>2, <1>3 DEF RunInv, RunTypes, WorkerPcs, WorkerResults
<1>6. WorkersInv'
  BY <1>1, <1>2, <1>3 DEF RunInv, RunTypes, WorkersInv
<1>7. CancelInv' /\ (ControlFailed <=> ControlFailed')
  BY <1>3 DEF RunInv, CancelInv, FatalControl, ControlFailed
<1>8. PublishedInv'
  BY <1>1, <1>2, <1>3, <1>7 DEF RunInv, RunTypes, WorkersInv, PublishedInv
<1>9. JoinedInv'
  BY <1>1, <1>2, <1>3, <1>4, <1>7 DEF RunInv, RunTypes, WorkersInv, JoinedInv
<1>10. ResultInv'
  BY <1>3, <1>4 DEF RunInv, ResultInv, RootCauseReported, SuccessIsClean
<1> QED BY <1>5, <1>6, <1>7, <1>8, <1>9, <1>10 DEF RunInv

LEMMA LoadsCleanupStep ==
    ASSUME RunInv, NEW w \in Ids, WorkerLoadsCleanup(w)
    PROVE  RunInv'
<1>1. /\ wpc[w] = "ended"
      /\ wpc' = [wpc EXCEPT ![w] = IF wresult[w] = "ok" THEN "finished"
                                   ELSE IF terminalCleanup /\ wresult[w] = "cancelled" THEN "raise"
                                   ELSE "publish"]
  BY DEF WorkerLoadsCleanup, WorkerAt
<1>2. UNCHANGED <<wresult, firstFailure, terminalCleanup, cancel, mpc, cursor, active, nextId,
                  failures, loopResult, failedWorker, cleanup, result>>
  BY DEF WorkerLoadsCleanup, atomics, control, ending
<1>3. w \in Range(active) /\ mpc # "done" /\ result.kind = "none"
  BY <1>1, WorkingIsActive
<1>4. RunTypes'
  BY <1>1, <1>2 DEF RunInv, RunTypes, WorkerPcs
<1>5. WorkersInv'
  BY <1>1, <1>2 DEF RunInv, RunTypes, WorkersInv
<1>6. CancelInv' /\ (ControlFailed <=> ControlFailed')
  BY <1>2 DEF RunInv, CancelInv, FatalControl, ControlFailed
<1>7. PublishedInv'
  <2>1. wresult[w] = "cancelled" /\ ~terminalCleanup => firstFailure # None \/ ControlFailed
    <3>1. SUFFICES ASSUME wresult[w] = "cancelled", ~terminalCleanup, firstFailure = None
                   PROVE  ControlFailed
      OBVIOUS
    <3>2. cancel /\ mpc = "join"
      BY <1>3, <3>1 DEF RunInv, RunTypes, WorkersInv, CancelInv, MainPcs, BeforeCancel, AfterLoad
    <3>3. FatalControl /\ failedWorker = None /\ loopResult # "echo"
      BY <3>1, <3>2 DEF RunInv, CancelInv, AfterLoad, FatalControl
    <3> QED BY <3>2, <3>3 DEF ControlFailed, FatalControl
  <2> QED BY <1>1, <1>2, <1>6, <2>1 DEF RunInv, RunTypes, PublishedInv
<1>8. JoinedInv'
  BY <1>1, <1>2, <1>3, <1>6 DEF RunInv, RunTypes, JoinedInv
<1>9. ResultInv'
  BY <1>2, <1>3 DEF RunInv, ResultInv, RootCauseReported, SuccessIsClean
<1> QED BY <1>4, <1>5, <1>6, <1>7, <1>8, <1>9 DEF RunInv

LEMMA PublishStep ==
    ASSUME RunInv, NEW w \in Ids, PublishFailure(w)
    PROVE  RunInv'
<1>1. /\ wpc[w] = "publish" /\ wpc' = [wpc EXCEPT ![w] = "raise"]
      /\ firstFailure' = IF firstFailure = None THEN w ELSE firstFailure
  BY DEF PublishFailure, WorkerAt, FirstOf
<1>2. UNCHANGED <<wresult, terminalCleanup, cancel, mpc, cursor, active, nextId,
                  failures, loopResult, failedWorker, cleanup, result>>
  BY DEF PublishFailure, control, ending
<1>3. w \in Range(active) /\ mpc # "done" /\ result.kind = "none"
  BY <1>1, WorkingIsActive
<1>4. w # None
  BY WorkersAssumption DEF Ids
<1>5. RunTypes'
  BY <1>1, <1>2 DEF RunInv, RunTypes, WorkerPcs
<1>6. WorkersInv'
  BY <1>1, <1>2, <1>4 DEF RunInv, RunTypes, WorkersInv
<1>7. CancelInv' /\ (ControlFailed <=> ControlFailed')
  BY <1>1, <1>2, <1>4 DEF RunInv, CancelInv, FatalControl, ControlFailed
<1>8. PublishedInv'
  <2>1. wresult[w] \in {"genuine", "cancelled"}
    BY <1>1 DEF RunInv, RunTypes, WorkerResults, WorkersInv
  <2> QED BY <1>1, <1>2, <1>4, <1>7, <2>1 DEF RunInv, RunTypes, PublishedInv
<1>9. JoinedInv'
  BY <1>1, <1>2, <1>3, <1>4, <1>7 DEF RunInv, RunTypes, JoinedInv
<1>10. ResultInv'
  BY <1>2, <1>3 DEF RunInv, ResultInv, RootCauseReported, SuccessIsClean
<1> QED BY <1>5, <1>6, <1>7, <1>8, <1>9, <1>10 DEF RunInv

LEMMA RaiseStep ==
    ASSUME RunInv, NEW w \in Ids, RaiseCancel(w)
    PROVE  RunInv'
<1>1. /\ wpc[w] = "raise" /\ wpc' = [wpc EXCEPT ![w] = "finished"]
      /\ cancel' = TRUE
  BY DEF RaiseCancel, WorkerAt, Raised
<1>2. UNCHANGED <<wresult, firstFailure, terminalCleanup, mpc, cursor, active, nextId,
                  failures, loopResult, failedWorker, cleanup, result>>
  BY DEF RaiseCancel, control, ending
<1>3. w \in Range(active) /\ mpc # "done" /\ result.kind = "none"
  BY <1>1, WorkingIsActive
<1>4. mpc \in BeforeCancel => firstFailure # None
  <2>1. wresult[w] \in {"genuine", "cancelled"}
    BY <1>1 DEF RunInv, RunTypes, WorkerResults, WorkersInv
  <2>2. wresult[w] = "genuine" => firstFailure # None
    BY <1>1 DEF RunInv, WorkersInv
  <2>3. wresult[w] = "cancelled" => cancel
    BY DEF RunInv, WorkersInv
  <2> QED BY <2>1, <2>2, <2>3 DEF RunInv, CancelInv
<1>5. RunTypes'
  BY <1>1, <1>2 DEF RunInv, RunTypes, WorkerPcs
<1>6. WorkersInv'
  BY <1>1, <1>2 DEF RunInv, RunTypes, WorkersInv
<1>7. CancelInv' /\ (ControlFailed <=> ControlFailed')
  BY <1>1, <1>2, <1>4 DEF RunInv, CancelInv, FatalControl, ControlFailed
<1>8. PublishedInv'
  BY <1>1, <1>2, <1>7 DEF RunInv, RunTypes, PublishedInv
<1>9. JoinedInv'
  BY <1>1, <1>2, <1>3, <1>7 DEF RunInv, RunTypes, JoinedInv
<1>10. ResultInv'
  BY <1>2, <1>3 DEF RunInv, ResultInv, RootCauseReported, SuccessIsClean
<1> QED BY <1>5, <1>6, <1>7, <1>8, <1>9, <1>10 DEF RunInv

-----------------------------------------------------------------------------
(* The control thread.                                                     *)

\* A step that only moves the loop on.
LEMMA LoopStep ==
    ASSUME RunInv, mpc \in InLoop, mpc' \in InLoop, cursor' \in Nat \ {0},
           UNCHANGED <<atomics, workers, active, nextId, failures, ending>>
    PROVE  RunInv'
<1>1. UNCHANGED <<firstFailure, terminalCleanup, cancel, wpc, wresult, active, nextId,
                  failures, loopResult, failedWorker, cleanup, result>>
  BY DEF atomics, workers, ending
<1>2. RunTypes'
  BY <1>1 DEF RunInv, RunTypes, MainPcs, BeforeCancel
<1>3. WorkersInv' /\ CancelInv' /\ (ControlFailed <=> ControlFailed')
  BY <1>1 DEF RunInv, WorkersInv, CancelInv, ControlFailed, FatalControl,
              InLoop, BeforeCancel, AfterLoad
<1>4. PublishedInv' /\ JoinedInv'
  BY <1>1, <1>3 DEF RunInv, PublishedInv, JoinedInv
<1>5. ResultInv'
  BY <1>1 DEF RunInv, ResultInv, RootCauseReported, SuccessIsClean, InLoop
<1> QED BY <1>2, <1>3, <1>4, <1>5 DEF RunInv

LEMMA RequestStep ==
    ASSUME RunInv, ReceiveRequest
    PROVE  RunInv'
<1>1. /\ nextId < MaxWorkers /\ mpc = "receive" /\ mpc' = "sweep" /\ cursor' = 1
      /\ nextId' = nextId + 1 /\ wpc' = [wpc EXCEPT ![nextId + 1] = "running"]
      /\ active' = Append(active, nextId + 1)
  BY DEF ReceiveRequest, MainAt
<1>2. UNCHANGED <<firstFailure, terminalCleanup, cancel, wresult, failures, loopResult,
                  failedWorker, cleanup, result>>
  BY DEF ReceiveRequest, atomics, ending
<1>3. nextId + 1 \in Ids /\ nextId \in Nat
  BY <1>1, WorkersAssumption DEF RunInv, RunTypes, Ids
<1>4. wpc[nextId + 1] = "none" /\ wresult[nextId + 1] = "none"
  <2>1. nextId + 1 > nextId
    BY <1>3
  <2> QED BY <1>3, <2>1 DEF RunInv, RunTypes, WorkersInv
<1>5. active' \in Seq(Ids) /\ Range(active') = Range(active) \cup {nextId + 1}
  BY <1>1, <1>3, AppendRange DEF RunInv, RunTypes
<1>6. RunTypes'
  <2>1. nextId' \in 0 .. MaxWorkers /\ cursor' \in Nat \ {0}
    BY <1>1, <1>3 DEF Ids
  <2>2. wpc' \in [Ids -> WorkerPcs]
    BY <1>1, <1>3 DEF RunInv, RunTypes, WorkerPcs
  <2>3. \A w \in Ids : w > nextId' => wpc'[w] = "none"
    BY <1>1, <1>3 DEF RunInv, RunTypes, Ids
  <2> QED BY <1>1, <1>2, <1>5, <2>1, <2>2, <2>3
          DEF RunInv, RunTypes, MainPcs, BeforeCancel, InLoop
<1>7. WorkersInv'
  BY <1>1, <1>2, <1>3, <1>4 DEF RunInv, RunTypes, WorkersInv
<1>8. CancelInv' /\ (ControlFailed <=> ControlFailed')
  BY <1>1, <1>2 DEF RunInv, CancelInv, ControlFailed, FatalControl,
                    InLoop, BeforeCancel, AfterLoad
<1>9. PublishedInv'
  BY <1>1, <1>2, <1>3, <1>8 DEF RunInv, RunTypes, PublishedInv
<1>10. JoinedInv'
  BY <1>1, <1>2, <1>3, <1>4, <1>5, <1>8 DEF RunInv, RunTypes, JoinedInv
<1>11. ResultInv'
  BY <1>1, <1>2 DEF RunInv, ResultInv, RootCauseReported, SuccessIsClean
<1> QED BY <1>6, <1>7, <1>8, <1>9, <1>10, <1>11 DEF RunInv

LEMMA LoopEndsStep ==
    ASSUME RunInv, NEW from \in InLoop, NEW how \in {"ok", "gone", "fatal", "echo"},
           how = "echo" => cancel, LoopEnds(from, how)
    PROVE  RunInv'
<1>1. mpc \in InLoop /\ mpc' = "load" /\ loopResult' = how
  BY DEF LoopEnds, MainAt
<1>2. UNCHANGED <<firstFailure, terminalCleanup, cancel, wpc, wresult, cursor, active, nextId,
                  failures, failedWorker, cleanup, result>>
  BY DEF LoopEnds, atomics, workers
<1>3. RunTypes'
  BY <1>1, <1>2 DEF RunInv, RunTypes, MainPcs, BeforeCancel, InLoop
<1>4. WorkersInv'
  BY <1>2 DEF RunInv, WorkersInv
<1>5. CancelInv' /\ (ControlFailed <=> ControlFailed')
  BY <1>1, <1>2 DEF RunInv, CancelInv, ControlFailed, FatalControl,
                    InLoop, BeforeCancel, AfterLoad
<1>6. PublishedInv' /\ JoinedInv'
  BY <1>2, <1>5 DEF RunInv, PublishedInv, JoinedInv
<1>7. ResultInv'
  BY <1>1, <1>2 DEF RunInv, ResultInv, RootCauseReported, SuccessIsClean, InLoop
<1> QED BY <1>3, <1>4, <1>5, <1>6, <1>7 DEF RunInv

\* Between the loop and the joins: first_failure is loaded, terminal_cleanup
\* decided and stored, and then the transfers are cancelled.
LEMMA WindUpStep ==
    ASSUME RunInv, LoadFirstFailure \/ MarkCleanup \/ CancelWorkers
    PROVE  RunInv'
<1>1. UNCHANGED <<firstFailure, wpc, wresult, cursor, active, nextId, failures, loopResult,
                  result>>
  BY DEF LoadFirstFailure, MarkCleanup, CancelWorkers, atomics, workers, ending
<1>2. /\ mpc \in {"load", "mark", "cancel"} /\ mpc' \in {"mark", "cancel", "join"}
      /\ cancel => cancel'
  BY DEF LoadFirstFailure, MarkCleanup, CancelWorkers, MainAt, atomics
<1>3. RunTypes'
  <2>1. /\ failedWorker' \in {failedWorker, firstFailure}
        /\ terminalCleanup' \in BOOLEAN /\ cancel' \in BOOLEAN /\ cleanup' \in BOOLEAN
    BY Zenon DEF RunInv, RunTypes, LoadFirstFailure, MarkCleanup, CancelWorkers, atomics, ending
  <2> QED BY <1>1, <1>2, <2>1 DEF RunInv, RunTypes, MainPcs, BeforeCancel, AfterLoad, InLoop
<1>4. WorkersInv'
  BY <1>1, <1>2 DEF RunInv, WorkersInv
<1>5. CancelInv'
  <2>1. CASE LoadFirstFailure
    BY <2>1, Zenon DEF RunInv, RunTypes, CancelInv, LoadFirstFailure, MainAt, FatalControl, atomics,
                InLoop, BeforeCancel, AfterLoad
  <2>2. CASE MarkCleanup
    BY <2>2 DEF RunInv, RunTypes, CancelInv, MarkCleanup, MainAt, FatalControl, ending,
                InLoop, BeforeCancel, AfterLoad
  <2>3. CASE CancelWorkers
    BY <2>3 DEF RunInv, RunTypes, CancelInv, CancelWorkers, MainAt, FatalControl, ending,
                InLoop, BeforeCancel, AfterLoad
  <2> QED BY <2>1, <2>2, <2>3
<1>6. ~ControlFailed
  BY <1>2 DEF ControlFailed
<1>7. PublishedInv' /\ JoinedInv'
  BY <1>1, <1>6 DEF RunInv, PublishedInv, JoinedInv
<1>8. ResultInv'
  BY <1>1, <1>2 DEF RunInv, ResultInv, RootCauseReported, SuccessIsClean
<1> QED BY <1>3, <1>4, <1>5, <1>7, <1>8 DEF RunInv

\* A finished transfer is joined, in the loop's sweep or in the wind-up.
LEMMA JoinStep ==
    ASSUME RunInv, NEW w \in Ids, NEW terminal \in BOOLEAN, wpc[w] = "finished",
           failures' = FailuresWith(w, terminal), active' \in Seq(Ids),
           Range(active) \subseteq Range(active') \cup {w},
           mpc \in {"sweep", "join"},
           mpc = "sweep" => terminal = FALSE, mpc = "join" => terminal = cleanup,
           UNCHANGED <<atomics, workers, mpc, cursor, nextId, ending>>
    PROVE  RunInv'
<1>1. UNCHANGED <<firstFailure, terminalCleanup, cancel, wpc, wresult, mpc, cursor, nextId,
                  loopResult, failedWorker, cleanup, result>>
  BY DEF atomics, workers, ending
<1>2. /\ failures' \in Seq(Ids) /\ Range(failures) \subseteq Range(failures')
      /\ Range(failures') \subseteq Range(failures) \cup {w}
      /\ w \in Range(failures') \/ wresult[w] = "ok" \/ CleanupForgives(w, terminal)
      /\ wresult[w] = "ok" \/ CleanupForgives(w, terminal) => failures' = failures
  BY JoinFailures DEF RunInv
<1>3. RunTypes'
  BY <1>1, <1>2 DEF RunInv, RunTypes
<1>4. WorkersInv' /\ CancelInv' /\ (ControlFailed <=> ControlFailed')
  BY <1>1 DEF RunInv, WorkersInv, CancelInv, ControlFailed, FatalControl
<1>5. PublishedInv'
  BY <1>1, <1>4 DEF RunInv, PublishedInv
<1>6. wresult[w] = "genuine" => w \in Range(failures')
  BY <1>2 DEF CleanupForgives
<1>7. w \in Range(failures') /\ wresult[w] = "cancelled" => firstFailure # None \/ ControlFailed
  <2>1. SUFFICES ASSUME w \in Range(failures'), wresult[w] = "cancelled", firstFailure = None
                 PROVE  ControlFailed
    OBVIOUS
  <2>2. cancel
    BY <2>1 DEF RunInv, WorkersInv
  <2>3. mpc = "join"
    BY <2>1, <2>2 DEF RunInv, CancelInv, BeforeCancel, InLoop
  <2>4. CASE terminal
    BY <1>2, <2>1, <2>4, Zenon DEF RunInv, JoinedInv, CleanupForgives
  <2>5. CASE ~terminal
    <3>1. ~cleanup
      BY <2>3, <2>5
    <3>2. failedWorker = None /\ loopResult # "echo"
      BY <2>1, <2>3 DEF RunInv, CancelInv, AfterLoad
    <3>3. FatalControl
      BY <2>3, <3>1, <3>2 DEF RunInv, CancelInv, AfterLoad
    <3> QED BY <2>3, <3>2, <3>3 DEF ControlFailed, FatalControl
  <2> QED BY <2>4, <2>5
<1>8. w \in Range(failures') => wresult[w] # "ok"
  BY <1>2 DEF RunInv, JoinedInv
<1>9. JoinedInv'
  BY <1>1, <1>2, <1>4, <1>6, <1>7, <1>8 DEF RunInv, JoinedInv
<1>10. ResultInv'
  BY <1>1 DEF RunInv, ResultInv, RootCauseReported, SuccessIsClean
<1> QED BY <1>3, <1>4, <1>5, <1>9, <1>10 DEF RunInv

LEMMA SweepJoinsStep ==
    ASSUME RunInv, SweepJoins
    PROVE  RunInv'
<1>1. cursor \in 1 .. Len(active)
  BY DEF SweepJoins, RunInv, RunTypes
<1>2. /\ Reaped(cursor) \in Seq(Ids) /\ active[cursor] \in Ids
      /\ Range(active) \subseteq Range(Reaped(cursor)) \cup {active[cursor]}
  BY <1>1, RemoveRange DEF RunInv, RunTypes, Reaped
<1> QED BY <1>2, JoinStep, Zenon DEF SweepJoins

LEMMA JoinNextStep ==
    ASSUME RunInv, JoinNext
    PROVE  RunInv'
<1>1. /\ Tail(active) \in Seq(Ids) /\ Head(active) \in Ids
      /\ Range(active) \subseteq Range(Tail(active)) \cup {Head(active)}
  BY TailRange DEF JoinNext, RunInv, RunTypes
<1>2. cleanup \in BOOLEAN
  BY DEF RunInv, RunTypes
<1> QED BY <1>1, <1>2, JoinStep DEF JoinNext

\* Every transfer is joined, so that a genuine failure is among the failures, and
\* so is the first one unless it was the control session that failed.
LEMMA DecideStep ==
    ASSUME RunInv, Decide
    PROVE  RunInv'
<1>1. mpc = "join" /\ mpc' = "done" /\ active = <<>>
  BY DEF Decide, MainAt
<1>2. UNCHANGED <<firstFailure, terminalCleanup, cancel, wpc, wresult, cursor, active, nextId,
                  failures, loopResult, failedWorker, cleanup>>
  BY DEF Decide, atomics, workers
<1>3. \A w \in Ids : wresult[w] = "genuine" => w \in Range(failures)
  <2>1. Range(active) = {}
    BY <1>1, EndsRange, Zenon DEF RunInv, RunTypes
  <2> QED BY <2>1 DEF RunInv, WorkersInv, JoinedInv
<1>4. Range(failures) \subseteq Ids /\ None \notin Ids
  BY EndsRange, WorkersAssumption DEF RunInv, RunTypes, Ids
<1>5. \A w \in Range(failures) : wresult[w] \in {"genuine", "cancelled"}
  BY <1>4 DEF RunInv, RunTypes, WorkerResults, WorkersInv, JoinedInv
<1>6. firstFailure # None /\ ~ControlFailed =>
          wresult[firstFailure] = "genuine" /\ firstFailure \in Range(failures)
  BY <1>3 DEF RunInv, RunTypes, PublishedInv
<1>7. failedWorker # None => failedWorker = firstFailure /\ ~ControlFailed
  BY <1>1 DEF RunInv, CancelInv, AfterLoad, ControlFailed
<1>8. loopResult = "echo" => failedWorker # None
  BY <1>1 DEF RunInv, CancelInv, AfterLoad
<1>9. ResultInv'
  <2>1. CASE RootWorker \in Range(failures)
    <3>1. RootWorker # None /\ RootWorker = firstFailure /\ ~ControlFailed
      BY <1>4, <1>7, <2>1 DEF RootWorker, FatalControl, ControlFailed
    <3>2. result' = [kind |-> "worker", id |-> firstFailure]
      BY <2>1, <3>1 DEF Decide, Worker
    <3> QED BY <1>1, <1>2, <1>6, <3>1, <3>2 DEF ResultInv, RootCauseReported, SuccessIsClean
  <2>2. CASE RootWorker \notin Range(failures) /\ FatalControl
    <3>1. failedWorker = None
      BY <1>6, <1>7, <2>2 DEF RootWorker
    <3>2. loopResult = "fatal" /\ result' = [kind |-> "fatal", id |-> None]
      BY <1>8, <2>2, <3>1 DEF Decide, FatalControl
    <3> QED BY <1>1, <1>2, <3>2 DEF ResultInv, RootCauseReported, SuccessIsClean
  <2>3. CASE RootWorker \notin Range(failures) /\ ~FatalControl
    <3>1. ~ControlFailed
      BY <2>3 DEF ControlFailed, FatalControl
    <3>2. firstFailure = None
      BY <1>6, <1>7, <2>3, <3>1 DEF RootWorker
    <3>3. \A w \in Range(failures) : FALSE
      BY <1>3, <1>4, <1>5, <3>1, <3>2 DEF RunInv, WorkersInv, JoinedInv
    <3>4. failures = <<>>
      BY <3>3, EndsRange DEF RunInv, RunTypes
    <3>5. result' = [kind |-> "ok", id |-> None]
      BY <2>3, <3>4 DEF Decide
    <3> QED BY <1>1, <1>2, <1>3, <3>3, <3>5 DEF ResultInv, RootCauseReported, SuccessIsClean
  <2> QED BY <2>1, <2>2, <2>3
<1>10. RunTypes'
  BY <1>1, <1>2 DEF RunInv, RunTypes, MainPcs, AfterLoad, InLoop
<1>11. WorkersInv' /\ CancelInv' /\ (ControlFailed <=> ControlFailed')
  BY <1>1, <1>2 DEF RunInv, WorkersInv, CancelInv, ControlFailed, FatalControl,
                    InLoop, BeforeCancel, AfterLoad
<1>12. PublishedInv' /\ JoinedInv'
  BY <1>2, <1>11 DEF RunInv, PublishedInv, JoinedInv
<1> QED BY <1>9, <1>10, <1>11, <1>12 DEF RunInv

-----------------------------------------------------------------------------
LEMMA NextRun == RunInv /\ [ClientNext]_clientVars => RunInv'
<1> SUFFICES ASSUME RunInv, [ClientNext]_clientVars PROVE RunInv'
  OBVIOUS
<1>1. CASE \E w \in Ids : WorkerSteps(w) \/ TransferEnds(w)
  BY <1>1, TransferStep, LoadsCleanupStep, PublishStep, RaiseStep DEF WorkerSteps
<1>2. CASE SweepSkips \/ SweepEnds \/ ReceiveMessage \/ CheckFailure
  <2>1. CASE SweepSkips \/ SweepEnds \/ ReceiveMessage
    <3>1. /\ mpc \in InLoop /\ mpc' \in InLoop /\ cursor' \in {cursor, cursor + 1, 1}
          /\ UNCHANGED <<atomics, workers, active, nextId, failures, ending>>
      BY <2>1 DEF SweepSkips, SweepEnds, ReceiveMessage, MainAt, InLoop
    <3>2. cursor' \in Nat \ {0}
      BY <3>1 DEF RunInv, RunTypes
    <3> QED BY <3>1, <3>2, LoopStep
  <2>2. CASE CheckFailure
    <3>1. CASE firstFailure # None /\ LoopEnds("check", "ok")
      BY <3>1, LoopEndsStep DEF InLoop
    <3>2. CASE ~(firstFailure # None /\ LoopEnds("check", "ok"))
      <4>1. /\ mpc \in InLoop /\ mpc' \in InLoop /\ cursor' = cursor
            /\ UNCHANGED <<atomics, workers, active, nextId, failures, ending>>
        BY <2>2, <3>2 DEF CheckFailure, MainAt, InLoop
      <4>2. cursor' \in Nat \ {0}
        BY <4>1 DEF RunInv, RunTypes
      <4> QED BY <4>1, <4>2, LoopStep
    <3> QED BY <3>1, <3>2
  <2> QED BY <1>2, <2>1, <2>2
<1>3. CASE ControlEnds \/ ControlCancelled
  <2>1. CASE ControlEnds
    BY <2>1, LoopEndsStep DEF ControlEnds, InLoop
  <2>2. CASE ControlCancelled
    BY <2>2, LoopEndsStep DEF ControlCancelled, InLoop
  <2> QED BY <1>3, <2>1, <2>2
<1>4. CASE UNCHANGED clientVars
  <2>1. UNCHANGED <<firstFailure, terminalCleanup, cancel, wpc, wresult, mpc, cursor, active,
                    nextId, failures, loopResult, failedWorker, cleanup, result>>
    BY <1>4 DEF clientVars, atomics, workers, ending
  <2>2. RunTypes' /\ WorkersInv' /\ CancelInv' /\ (ControlFailed <=> ControlFailed')
    BY <2>1 DEF RunInv, RunTypes, WorkersInv, CancelInv, ControlFailed, FatalControl
  <2> QED BY <2>1, <2>2 DEF RunInv, PublishedInv, JoinedInv, ResultInv, RootCauseReported,
                            SuccessIsClean
<1> QED BY <1>1, <1>2, <1>3, <1>4, RequestStep, WindUpStep, SweepJoinsStep, JoinNextStep,
           DecideStep DEF ClientNext, ControlSteps

\* For any number of transfers, what run_restore_with_cancellation returns is
\* never an echo of its own cancellation: the worker it names failed of its own
\* accord and is the one first_failure holds.
THEOREM RootCauseIsReported == ClientSpec => []RootCauseReported
<1>1. RunInv => RootCauseReported
  BY DEF RunInv, ResultInv
<1> QED BY <1>1, InitRun, NextRun, PTL DEF ClientSpec

\* For any number of transfers, a run that returns success had no transfer that
\* failed of its own accord, whenever it failed.
THEOREM SuccessHidesNothing == ClientSpec => []SuccessIsClean
<1>1. RunInv => SuccessIsClean
  BY DEF RunInv, ResultInv
<1> QED BY <1>1, InitRun, NextRun, PTL DEF ClientSpec

=============================================================================
