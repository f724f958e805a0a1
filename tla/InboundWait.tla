---------------------------- MODULE InboundWait ----------------------------
(***************************************************************************)
(* The threads that share one mux link and wait off it                     *)
(* (src/usbmux/stream.rs: SharedLink, read_shared, write_shared and        *)
(* complete_open_cancellable), over the inbound queue, the credits and the *)
(* generation counter of the bridge transport                              *)
(* (src/bridge_transport.rs: TransportState as an InboundSignal).          *)
(*                                                                         *)
(* A turn takes the link mutex, routes what the queue holds, looks at its  *)
(* own session and lets the mutex go; a thread that found nothing then     *)
(* sleeps on the queue's condition variable, unless the generation moved   *)
(* since it sampled it.  The queue has its own mutex, so packets, credits  *)
(* and the end of the transport come in between any two steps of a turn,   *)
(* also while the link is held.                                            *)
(***************************************************************************)
EXTENDS Naturals, Sequences, FiniteSets

CONSTANTS
    Readers,          \* threads inside read_shared, each with its own port
    Writers,          \* threads inside write_shared
    Dialers,          \* threads inside complete_open_cancellable
    HostCreditLimit,  \* host_credit_limit
    MaxPackets,       \* bound: packets the device sends in a behaviour
    MaxCallers,       \* bound: threads inside a call at the same time
    MaxCancels,       \* bound: cancellation flags raised in a behaviour
    NoThread          \* the link mutex is free

Threads == Readers \cup Writers \cup Dialers

ASSUME ThreadsAssumption ==
    /\ Readers \cap Writers = {} /\ Readers \cap Dialers = {}
    /\ Writers \cap Dialers = {} /\ NoThread \notin Threads
    /\ {HostCreditLimit, MaxPackets, MaxCallers, MaxCancels} \subseteq Nat

VARIABLES
    packets,        \* QueueState.packets: the thread each packet is for
    generation,     \* QueueState.inbound_generation
    hostCredits,    \* QueueState.host_credits
    closed,         \* QueueState.closed
    devicePresent,  \* TransportState.device_present
    received,       \* per session: segments routed to it and not consumed
    link,           \* the holder of SharedLink.inner
    pc,             \* where each thread is in its loop
    seen,           \* the generation each thread sampled last
    cancelled,      \* the threads whose cancellation flag is raised
    arrived         \* packets sent by the device so far

vars == <<packets, generation, hostCredits, closed, devicePresent, received,
          link, pc, seen, cancelled, arrived>>
transport == <<packets, generation, hostCredits, closed, devicePresent, arrived>>

\* A thread is outside its call before it, or when the call has returned.
Outside == {"idle", "done", "failed"}
Pcs == Outside \cup {"inspect", "enter", "draining", "closing", "sampling", "wait", "parked"}

TypeOK ==
    /\ packets \in Seq(Threads) /\ arrived \in 0 .. MaxPackets
    /\ generation \in Nat /\ hostCredits \in 0 .. HostCreditLimit
    /\ closed \in BOOLEAN /\ devicePresent \in BOOLEAN
    /\ received \in [Threads -> Nat]
    /\ link \in Threads \cup {NoThread}
    /\ pc \in [Threads -> Pcs]
    /\ seen \in [Threads -> Nat]
    /\ cancelled \in SUBSET Threads

-----------------------------------------------------------------------------
(* The shape of the three loops.  A writer and a dialler look at their     *)
(* cancellation flag before the turn, a reader after it.                   *)

LoopTop(t) == IF t \in Readers THEN "enter" ELSE "inspect"
AfterInspect(t) == IF t \in Readers THEN "wait" ELSE "enter"
AfterTurn(t) == IF t \in Readers THEN "inspect" ELSE "wait"

\* A read wants a segment, a dial its SYN-ACK, a write an open window (the
\* device's segment opens it) and a credit to send under.
Ready(t) == received[t] > 0 /\ (t \in Writers => hostCredits > 0)

\* Mutant of Woken: nobody is notified.
WokenNobody == pc

\* notify_all on queue_cv: every sleeping thread goes round its loop again.
Woken == [t \in Threads |-> IF pc[t] = "parked" THEN LoopTop(t) ELSE pc[t]]

\* Mutant of Stopped: the cancellation flag is not looked at.
StoppedByRemoval(t) == t \notin Dialers /\ ~devicePresent

\* The cancellation flag, and for a read or a write the device's presence.
Stopped(t) == t \in cancelled \/ (t \notin Dialers /\ ~devicePresent)

Inspect(t) ==
    /\ pc[t] = "inspect"
    /\ t \notin Dialers => link = NoThread
    /\ pc' = [pc EXCEPT ![t] = IF Stopped(t) THEN "failed" ELSE AfterInspect(t)]
    /\ UNCHANGED <<transport, received, link, seen, cancelled>>

\* The mutex is taken.  A read and a write sample the generation at once.
Enter(t) ==
    /\ pc[t] = "enter" /\ link = NoThread
    /\ link' = t
    /\ pc' = [pc EXCEPT ![t] = "draining"]
    /\ seen' = IF t \in Dialers THEN seen ELSE [seen EXCEPT ![t] = generation]
    /\ UNCHANGED <<transport, received, cancelled>>

\* drain_inbound: one packet leaves the queue and goes to its session,
\* whichever thread is draining.
Route(t) ==
    /\ pc[t] = "draining" /\ packets # <<>>
    /\ received' = [received EXCEPT ![Head(packets)] = @ + 1]
    /\ packets' = Tail(packets)
    /\ UNCHANGED <<generation, hostCredits, closed, devicePresent, arrived,
                   link, pc, seen, cancelled>>

\* drain_inbound, when the credit for the packet it popped cannot be written:
\* the packet is lost and the call goes on to mark the transport terminal.
RouteFails(t) ==
    /\ pc[t] = "draining" /\ packets # <<>>
    /\ packets' = Tail(packets)
    /\ devicePresent' = FALSE
    /\ pc' = [pc EXCEPT ![t] = "closing"]
    /\ UNCHANGED <<generation, hostCredits, closed, arrived, received, link,
                   seen, cancelled>>

CloseAndFail(t) ==
    /\ pc[t] = "closing"
    /\ closed' = TRUE
    /\ pc' = [Woken EXCEPT ![t] = "failed"]
    /\ link' = NoThread
    /\ UNCHANGED <<packets, generation, hostCredits, devicePresent, arrived,
                   received, seen, cancelled>>

\* recv_packet with no time to wait fails only once the queue is closed; the
\* acknowledgement or the segment a turn sends fails as soon as the device is
\* gone.
Refused(t) == closed \/ (~devicePresent /\ t \notin Dialers /\ received[t] > 0)

\* The queue is empty.  A transport that ended fails the call; otherwise a
\* read takes its bytes, a write sends, and a dial goes on to sample.
DrainEnds(t) ==
    /\ pc[t] = "draining" /\ packets = <<>>
    /\ IF Refused(t)
       THEN /\ pc' = [pc EXCEPT ![t] = "failed"]
            /\ link' = NoThread
            /\ UNCHANGED <<received, hostCredits>>
       ELSE IF t \in Dialers
       THEN /\ pc' = [pc EXCEPT ![t] = "sampling"]
            /\ UNCHANGED <<link, received, hostCredits>>
       ELSE /\ pc' = [pc EXCEPT ![t] = IF Ready(t) THEN "done" ELSE AfterTurn(t)]
            /\ link' = NoThread
            /\ received' = IF Ready(t)
                           THEN [received EXCEPT ![t] = IF t \in Readers THEN 0 ELSE @ - 1]
                           ELSE received
            /\ hostCredits' = IF t \in Writers /\ Ready(t)
                              THEN hostCredits - 1 ELSE hostCredits
    /\ UNCHANGED <<packets, generation, closed, devicePresent, arrived, seen,
                   cancelled>>

\* complete_open_cancellable samples after the drain, still under the mutex,
\* and looks at the state of its session.
Sample(t) ==
    /\ pc[t] = "sampling"
    /\ seen' = [seen EXCEPT ![t] = generation]
    /\ pc' = [pc EXCEPT ![t] = IF Ready(t) THEN "done" ELSE AfterTurn(t)]
    /\ link' = NoThread
    /\ UNCHANGED <<transport, received, cancelled>>

\* Mutant of Moved: the generation is not compared.
MovedIfClosed(t) == closed

\* wait_for_inbound returns at once when something happened since the sample.
Moved(t) == generation # seen[t] \/ closed

WaitForInbound(t) ==
    /\ pc[t] = "wait"
    /\ pc' = [pc EXCEPT ![t] = IF Moved(t) THEN LoopTop(t) ELSE "parked"]
    /\ UNCHANGED <<transport, received, link, seen, cancelled>>

\* The slice the thread sleeps for (turn, or DEFAULT_LINK_SLICE) runs out.
SliceExpires(t) ==
    /\ pc[t] = "parked"
    /\ pc' = [pc EXCEPT ![t] = LoopTop(t)]
    /\ UNCHANGED <<transport, received, link, seen, cancelled>>

\* A thread reads or writes, as often as it likes, or dials, once.
Call(t) ==
    /\ pc[t] = "idle" \/ (pc[t] = "done" /\ t \notin Dialers)
    /\ Cardinality({u \in Threads : pc[u] \notin Outside}) < MaxCallers
    /\ pc' = [pc EXCEPT ![t] = LoopTop(t)]
    /\ UNCHANGED <<transport, received, link, seen, cancelled>>

-----------------------------------------------------------------------------
(* The other side of the queue: the bridge's reader thread, and whoever     *)
(* cancels.                                                                 *)

\* A frame the reader thread has in hand is applied even if another thread
\* closes the queue meanwhile.
PushPacket(t) ==
    /\ arrived < MaxPackets
    /\ arrived' = arrived + 1
    /\ generation' = generation + 1
    /\ packets' = Append(packets, t)
    /\ pc' = Woken
    /\ UNCHANGED <<hostCredits, closed, devicePresent, received, link, seen,
                   cancelled>>

\* A credit past the limit is refused, and ends the transport (MarkAbsent).
CreditFits == hostCredits < HostCreditLimit

AddHostCredit ==
    /\ CreditFits
    /\ hostCredits' = hostCredits + 1
    /\ generation' = generation + 1
    /\ pc' = Woken
    /\ UNCHANGED <<packets, closed, devicePresent, arrived, received, link,
                   seen, cancelled>>

\* mark_terminal clears device_present first, and only then takes the queue
\* mutex to close the queue and wake the sleepers.
MarkAbsent ==
    /\ devicePresent
    /\ devicePresent' = FALSE
    /\ UNCHANGED <<packets, generation, hostCredits, closed, arrived, received,
                   link, pc, seen, cancelled>>

MarkClosed ==
    /\ ~devicePresent /\ ~closed
    /\ closed' = TRUE
    /\ pc' = Woken
    /\ UNCHANGED <<packets, generation, hostCredits, devicePresent, arrived,
                   received, link, seen, cancelled>>

\* Raising the flag wakes nobody.
Cancel(t) ==
    /\ t \notin cancelled /\ Cardinality(cancelled) < MaxCancels
    /\ cancelled' = cancelled \cup {t}
    /\ UNCHANGED <<transport, received, link, pc, seen>>

-----------------------------------------------------------------------------

Init ==
    /\ packets = <<>> /\ arrived = 0 /\ generation = 0
    /\ hostCredits = HostCreditLimit
    /\ closed = FALSE /\ devicePresent = TRUE
    /\ received = [t \in Threads |-> 0]
    /\ link = NoThread
    /\ pc = [t \in Threads |-> "idle"]
    /\ seen = [t \in Threads |-> 0]
    /\ cancelled = {}

Turn(t) ==
    \/ Inspect(t) \/ Route(t) \/ RouteFails(t) \/ CloseAndFail(t)
    \/ DrainEnds(t) \/ Sample(t) \/ WaitForInbound(t)

Next ==
    \/ \E t \in Threads :
          \/ Turn(t) \/ Enter(t) \/ SliceExpires(t) \/ Call(t)
          \/ PushPacket(t) \/ Cancel(t)
    \/ AddHostCredit \/ MarkAbsent \/ MarkClosed

Spec == Init /\ [][Next]_vars

\* Every thread is scheduled and gets the link mutex when it keeps asking;
\* mark_terminal finishes once it has begun.  Nothing is assumed of the slices.
\* A turn ends, that is, the broker reads what write_frame writes in it.
Fairness ==
    /\ \A t \in Threads : WF_vars(Turn(t)) /\ SF_vars(Enter(t)) /\ SF_vars(Inspect(t))
    /\ WF_vars(MarkClosed)

FairSpec == Spec /\ Fairness

-----------------------------------------------------------------------------

\* A thread that reads or writes never sleeps beside work of its own: while it
\* is parked the queue is empty, its session has nothing it could take or send
\* under, and the transport has not ended.  This is what sampling the
\* generation before draining is for (src/usbmux/link.rs:567).
NothingMissed ==
    \A t \in Readers \cup Writers :
        pc[t] = "parked" => packets = <<>> /\ ~Ready(t) /\ ~closed

\* A packet for a thread that reads brings the thread back, whoever routes it,
\* and the end of the transport brings everyone back, whatever they are doing:
\* without any slice running out, by the condition variable alone.
EventsReachEveryone ==
    /\ \A t \in Readers :
        (\E i \in 1 .. Len(packets) : packets[i] = t) ~> pc[t] \in Outside
    /\ \A t \in Threads : closed ~> pc[t] \in Outside

\* A cancelled call returns.  Nothing wakes it, so this rests on the slices it
\* sleeps in: they run out.
CancelEndsTheCall ==
    (\A t \in Threads : WF_vars(SliceExpires(t))) =>
        \A t \in Threads : t \in cancelled ~> pc[t] \in Outside
============================================================================
