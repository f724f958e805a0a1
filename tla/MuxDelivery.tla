---------------------------- MODULE MuxDelivery -----------------------------
(***************************************************************************)
(* A stream's writer on top of MuxPair: write_shared, drain_delivery_shared*)
(* and shutdown_write of src/usbmux/stream.rs.  Unlike MuxPair, where the  *)
(* methods of the session are called in any order, here they are called as *)
(* the stream calls them.  The probes that recover lost packets run only   *)
(* while the writer is inside one of these calls; that is all the fairness *)
(* the code provides.                                                      *)
(***************************************************************************)
EXTENDS MuxPair

VARIABLE
    writer  \* "dialling", "writing", "draining", "finishing", "finished", "failed"

deliveryVars == <<pairVars, writer>>

Inside == \/ writer \in {"draining", "finishing"}
          \/ writer = "writing" /\ outbound # <<>>

\* pending_sequences: bytes queued and the FIN not yet sent.
Pending == outbound # <<>> \/ (writeShutdown /\ sentFin = NoSeq)

\* Mutant of Drained: sent is taken for delivered.
DrainedUnacked == ~Pending

Drained == ~Pending /\ sndUna = sndNxt

-----------------------------------------------------------------------------
(* complete_open_cancellable: established, cancelled, timed out or reset. *)

Opened ==
    /\ writer = "dialling" /\ state = "Established"
    /\ writer' = "writing"
    /\ UNCHANGED pairVars

DialFails ==
    /\ writer = "dialling"
    /\ LinkCall(Close) \/ LinkCall(Forget)
    /\ writer' = "failed"

-----------------------------------------------------------------------------
(* write_shared queues once, then stays until nothing is pending.          *)
(* shutdown_write drains what was written, shuts the session, and drains   *)
(* its FIN.                                                                *)

Write(n) ==
    /\ writer = "writing" /\ outbound = <<>>
    /\ LinkCallThenFlush(Queue(n))
    /\ UNCHANGED writer

StartShutdown ==
    /\ writer = "writing" /\ outbound = <<>>
    /\ writer' = "draining"
    /\ UNCHANGED pairVars

FirstDrainReturns ==
    /\ writer = "draining"
    /\ Drained
    /\ LinkCallThenFlush(ShutdownWrite)
    /\ writer' = "finishing"

SecondDrainReturns ==
    /\ writer = "finishing" /\ state = "Established"
    /\ Drained
    /\ ~flushing
    /\ writer' = "finished"
    /\ UNCHANGED pairVars

\* The peer reset the session, or pump closed it for its flags.
WriterSeesClosed ==
    /\ Inside
    /\ state = "Closed"
    /\ writer' = "failed"
    /\ UNCHANGED pairVars

\* Cancelled, expired, or failed by an error of another session on the link.
WriterGivesUp ==
    /\ Inside /\ ~flushing
    /\ writer' = "failed"
    /\ UNCHANGED pairVars

\* Dropping the stream closes the session.
DropStream ==
    /\ writer \in {"finished", "failed"}
    /\ LinkCall(Close)
    /\ UNCHANGED writer

-----------------------------------------------------------------------------
(* Every round of the loops routes what has arrived and flushes.  A reader *)
(* of the same link does so too, whether or not the writer is inside.      *)

PumpAndFlush == Flush /\ UNCHANGED writer
Route == HostReceive /\ UNCHANGED writer

\* DeliveryProbeTimer is due: something has been in flight for a whole period.
DeliveryProbe ==
    /\ Inside /\ sndUna # sndNxt
    /\ Resend
    /\ UNCHANGED writer

\* The write policy's poll expires with something still queued.
PollProbe ==
    /\ Inside /\ Pending
    /\ LinkCallThenFlush(ProbeWindow)
    /\ UNCHANGED writer

DeliveryInit == PairInit /\ writer = "dialling"

DeliveryNext ==
    \/ Opened \/ DialFails
    \/ \E n \in 1 .. load.written : Write(n)
    \/ StartShutdown \/ FirstDrainReturns \/ SecondDrainReturns
    \/ WriterSeesClosed \/ WriterGivesUp \/ DropStream
    \/ PumpAndFlush \/ Route \/ DeliveryProbe \/ PollProbe
    \/ DeviceStep /\ UNCHANGED writer

DeliverySpec == DeliveryInit /\ [][DeliveryNext]_deliveryVars

\* The writer's loop comes round while it is inside; a flush or a probe that
\* found no capacity, and a route that waited for the lock, are tried again,
\* hence strong fairness.  The device receives, reads and acknowledges, but
\* nothing makes it announce that its window has reopened.
Fairness ==
    /\ WF_deliveryVars(FirstDrainReturns) /\ WF_deliveryVars(SecondDrainReturns)
    /\ WF_deliveryVars(WriterSeesClosed)
    /\ SF_deliveryVars(PumpAndFlush /\ (Inside \/ flushing))
    /\ SF_deliveryVars(Route /\ Inside)
    /\ SF_deliveryVars(DeliveryProbe)
    /\ SF_deliveryVars(PollProbe)
    /\ WF_deliveryVars(DevReceive /\ UNCHANGED <<writer, flushing, load>>)
    /\ WF_deliveryVars(DevConsume /\ UNCHANGED <<writer, flushing, load>>)
    /\ WF_deliveryVars(DevAck /\ UNCHANGED <<writer, flushing, load>>)

FairDeliverySpec == DeliverySpec /\ Fairness

-----------------------------------------------------------------------------
\* shutdown_write returns Ok only when the device holds every byte and the end
\* of file: a restore image is whole when its transfer reports success.
ShutdownMeansDelivered ==
    writer = "finished" => Len(devGot) = written /\ devEof

\* Lost data, lost acknowledgements, a lost FIN, a shut window whose reopening
\* is never announced, sends held back by may_send_now: while the probes run,
\* a write or a shutdown does not wait for ever on a session the device keeps
\* open.  (A device that drops the session and whose reset is lost leaves the
\* writer to its cancellation, its expiry or the removal of the device.)
WriterReturns == Inside ~> (~Inside \/ devState = "Closed")
=============================================================================
