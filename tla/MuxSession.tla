----------------------------- MODULE MuxSession -----------------------------
(***************************************************************************)
(* One session of the USB multiplexer: the host end of the TCP-like byte   *)
(* stream in src/usbmux/session.rs, with the header predicates of          *)
(* src/usbmux/tcp.rs.                                                      *)
(*                                                                         *)
(* The variables are the fields of MuxSession, the actions its methods.    *)
(* Segments leave through toDev, the FIFO of packets the transport has     *)
(* accepted.  A byte is modelled by its position in the stream it belongs  *)
(* to, so misplaced, lost and repeated bytes are all visible.  Sequence    *)
(* numbers wrap at SeqMod (2^32 in the code).                              *)
(*                                                                         *)
(* Spec lets the methods be called in any order, and leaves the device     *)
(* open: any header may arrive that meets DeviceContract.  MuxPair calls   *)
(* them as the link does, closes the system with a device and two lossy    *)
(* channels, and checks that this device meets the contract.               *)
(***************************************************************************)
EXTENDS Integers, Sequences, FiniteSets

CONSTANTS
    SeqHalf,          \* half the sequence space: 2^31 in the code
    InitialSequence,  \* config.initial_sequence
    Mss,              \* config.mss
    ReceiveWindow,    \* config.receive_window
    MaxWindow,        \* the widest window a header can carry: 0xffff << 8
    MaxWritten,       \* bound: bytes queued over the session's life
    SendCapacity,     \* packets the transport accepts before it is drained
    NoSeq             \* None, for Option<u32>

SeqMod == 2 * SeqHalf
SeqSpace == 0 .. SeqMod - 1

ASSUME SequenceAssumption ==
    /\ SeqHalf \in Nat
    /\ InitialSequence \in SeqSpace
    /\ NoSeq \notin SeqSpace

\* A window is less than 2^24 bytes, half the sequence space 2^31.
ASSUME WindowAssumption ==
    /\ MaxWindow \in Nat
    /\ MaxWindow < SeqHalf

ASSUME SizeAssumption ==
    /\ Mss \in Nat \ {0}
    /\ ReceiveWindow \in Nat
    /\ MaxWritten \in Nat
    /\ SendCapacity \in Nat

VARIABLES
    state, sndNxt, sndUna, sndWndEdge, sendEpoch, rcvNxt,
    outbound, unacknowledged, inbound, oweAck,
    peerFin, writeShutdown, sentFin, peerWindow, maxPeerWindow,
    written,   \* how many bytes the writer has queued so far
    taken,     \* the bytes the reader has taken so far
    toDev      \* packets accepted by the transport, not yet at the device

sendVars == <<sndNxt, sndUna, sendEpoch, outbound, unacknowledged, sentFin>>
windowVars == <<sndWndEdge, peerWindow, maxPeerWindow>>
recvVars == <<rcvNxt, inbound, peerFin>>
appVars == <<written, taken, writeShutdown>>
vars == <<state, oweAck, sendVars, windowVars, recvVars, appVars, toDev>>

-----------------------------------------------------------------------------
(* Wrapping u32 arithmetic.  Every use has n <= SeqMod, so one conditional *)
(* subtraction is the remainder.                                           *)

\* Mutant of SeqAdd: the addition does not wrap.
SeqAddUnwrapped(a, n) == a + n

SeqAdd(a, n) == IF a + n >= SeqMod THEN a + n - SeqMod ELSE a + n
SeqSub(a, b) == IF a >= b THEN a - b ELSE a - b + SeqMod

\* The difference as i32 is positive.
SeqGt(a, b) == 0 < SeqSub(a, b) /\ SeqSub(a, b) < SeqHalf

Least(a, b) == IF a <= b THEN a ELSE b
Greatest(a, b) == IF a >= b THEN a ELSE b
Front(s, n) == SubSeq(s, 1, n)
Drop(s, n) == SubSeq(s, n + 1, Len(s))

-----------------------------------------------------------------------------
(* Segments and the predicates on their headers. *)

Flags == {"FIN", "SYN", "RST", "PSH", "ACK"}
Segment == [flags: SUBSET Flags, seq: SeqSpace, ack: SeqSpace, win: Nat,
            payload: Seq(Nat)]

IsBareAck(h) == h.flags = {"ACK"}
IsSynAck(h) == h.flags = {"SYN", "ACK"}
IsFin(h) == "FIN" \in h.flags /\ h.flags \subseteq {"FIN", "ACK", "PSH"}
IsReset(h) == "RST" \in h.flags
HasAck(h) == "ACK" \in h.flags
WindowEdge(h) == SeqAdd(h.ack, h.win)

-----------------------------------------------------------------------------
(* Derived values of the session. *)

InFlight == SeqSub(sndNxt, sndUna)

\* Mutant of UsableWindow: the difference is not read as signed.
UsableWindowUnsigned == SeqSub(sndWndEdge, sndNxt)

UsableWindow == IF SeqGt(sndWndEdge, sndNxt) THEN SeqSub(sndWndEdge, sndNxt) ELSE 0

AdvertisedWindow == Greatest(ReceiveWindow - Len(inbound), 0)
CanWrite == state = "Established" /\ ~writeShutdown
ReceivedEof == peerFin # NoSeq /\ inbound = <<>>

\* Mutant of OrderlyClosed: the FIN was sent but may not be acknowledged.
OrderlyClosedUnacked == state = "Established" /\ ReceivedEof /\ sentFin # NoSeq

OrderlyClosed ==
    /\ state = "Established"
    /\ ReceivedEof
    /\ sentFin # NoSeq
    /\ sndUna = sndNxt

AckSegment(seq, flags, payload) ==
    [flags |-> flags \cup {"ACK"}, seq |-> seq, ack |-> rcvNxt,
     win |-> AdvertisedWindow, payload |-> payload]

\* The transport has credit: MuxLink asks before it pulls a segment.
HasCapacity == Len(toDev) < SendCapacity

Emit(seg) == toDev' = Append(toDev, seg)

-----------------------------------------------------------------------------
Syn == [flags |-> {"SYN"}, seq |-> InitialSequence, ack |-> 0,
        win |-> ReceiveWindow, payload |-> <<>>]

Init ==
    /\ state = "SynSent"
    /\ sndNxt = InitialSequence
    /\ sndUna = InitialSequence
    /\ sndWndEdge = InitialSequence
    /\ sendEpoch = 0
    /\ rcvNxt = 0
    /\ outbound = <<>> /\ unacknowledged = <<>> /\ inbound = <<>>
    /\ oweAck = FALSE
    /\ peerFin = NoSeq /\ sentFin = NoSeq
    /\ writeShutdown = FALSE
    /\ peerWindow = 0 /\ maxPeerWindow = 0
    /\ written = 0 /\ taken = <<>>
    /\ toDev = <<Syn>>

-----------------------------------------------------------------------------
(* Calls from the stream above, each up to the flush it ends with. *)

Queue(n) ==
    /\ CanWrite
    /\ written + n <= MaxWritten
    /\ outbound' = outbound \o [i \in 1 .. n |-> written + i]
    /\ written' = written + n
    /\ UNCHANGED <<state, oweAck, sndNxt, sndUna, sendEpoch, unacknowledged,
                   sentFin, windowVars, recvVars, taken, writeShutdown, toDev>>

\* MuxLink::take_received asks for an acknowledgement after a non-empty take.
TakeReceived(n) ==
    /\ state # "Removed"
    /\ n \in 1 .. Len(inbound)
    /\ taken' = taken \o Front(inbound, n)
    /\ inbound' = Drop(inbound, n)
    /\ oweAck' = (oweAck \/ state = "Established")
    /\ UNCHANGED <<state, sendVars, windowVars, rcvNxt, peerFin, written,
                   writeShutdown, toDev>>

ShutdownWrite ==
    /\ state = "Established"
    /\ writeShutdown' = TRUE
    /\ UNCHANGED <<state, oweAck, sendVars, windowVars, recvVars, written,
                   taken, toDev>>

ProbeWindow ==
    /\ state = "Established"
    /\ ~oweAck
    /\ ~(UsableWindow > 0 /\ outbound # <<>>)
    /\ oweAck' = TRUE
    /\ UNCHANGED <<state, sendVars, windowVars, recvVars, appVars, toDev>>

\* MuxLink::close: an orderly session is dropped in silence, any other is
\* aborted.  The reset is sent without asking for capacity, and a send the
\* transport refuses is not retried; the session is gone either way.
Close ==
    /\ state # "Removed"
    /\ state' = "Removed"
    /\ IF OrderlyClosed \/ ~HasCapacity
       THEN UNCHANGED toDev
       ELSE Emit([flags |-> {"RST"}, seq |-> sndNxt, ack |-> rcvNxt, win |-> 0,
                  payload |-> <<>>])
    /\ UNCHANGED <<oweAck, sendVars, windowVars, recvVars, appVars>>

\* abandon_open, forget_session: dropped without a word to the device.
Forget ==
    /\ state # "Removed"
    /\ state' = "Removed"
    /\ UNCHANGED <<oweAck, sendVars, windowVars, recvVars, appVars, toDev>>

-----------------------------------------------------------------------------
(* next_segment: data, else a FIN, else an owed acknowledgement. *)

Take == Least(Least(Len(outbound), Mss), UsableWindow)

MaySendNow(take) ==
    \/ take >= Mss
    \/ take >= maxPeerWindow \div 2
    \/ take >= peerWindow
    \/ take = Len(outbound)
    \/ InFlight = 0

MaySendData == UsableWindow > 0 /\ outbound # <<>> /\ MaySendNow(Take)

MaySendFin ==
    /\ UsableWindow > 0
    /\ outbound = <<>>
    /\ writeShutdown
    /\ sentFin = NoSeq

\* Mutant of EpochOfData: data never starts a new flight.
EpochOfDataStale == sendEpoch

\* The first byte in flight starts a new epoch.
EpochOfData == IF unacknowledged = <<>> THEN sendEpoch + 1 ELSE sendEpoch

SendData ==
    /\ state = "Established" /\ HasCapacity
    /\ MaySendData
    /\ Emit(AckSegment(sndNxt, {}, Front(outbound, Take)))
    /\ unacknowledged' = unacknowledged \o Front(outbound, Take)
    /\ outbound' = Drop(outbound, Take)
    /\ sendEpoch' = EpochOfData
    /\ sndNxt' = SeqAdd(sndNxt, Take)
    /\ oweAck' = FALSE
    /\ UNCHANGED <<state, sndUna, sentFin, windowVars, recvVars, appVars>>

SendFin ==
    /\ state = "Established" /\ HasCapacity
    /\ MaySendFin
    /\ Emit(AckSegment(sndNxt, {"FIN"}, <<>>))
    /\ sentFin' = sndNxt
    /\ sndNxt' = SeqAdd(sndNxt, 1)
    /\ sendEpoch' = sendEpoch + 1
    /\ oweAck' = FALSE
    /\ UNCHANGED <<state, sndUna, outbound, unacknowledged, windowVars,
                   recvVars, appVars>>

SendAck ==
    /\ state = "Established" /\ HasCapacity
    /\ ~MaySendData /\ ~MaySendFin
    /\ oweAck
    /\ Emit(AckSegment(sndNxt, {}, <<>>))
    /\ oweAck' = FALSE
    /\ UNCHANGED <<state, sendVars, windowVars, recvVars, appVars>>

NextSegment == SendData \/ SendFin \/ SendAck

\* flush goes on while this holds.
CanSendMore ==
    /\ state = "Established" /\ HasCapacity
    /\ MaySendData \/ MaySendFin \/ oweAck

-----------------------------------------------------------------------------
(* retransmit_unacknowledged changes nothing in the session. *)

Room == IF SeqGt(sndWndEdge, sndUna) THEN SeqSub(sndWndEdge, sndUna) ELSE 0

\* Mutant of RetransmitFin: only queued bytes are ever resent.
RetransmitFinNever == FALSE

RetransmitFin ==
    /\ state = "Established" /\ HasCapacity
    /\ unacknowledged = <<>>
    /\ sentFin # NoSeq /\ sndUna = sentFin
    /\ Emit(AckSegment(sentFin, {"FIN"}, <<>>))
    /\ UNCHANGED <<state, oweAck, sendVars, windowVars, recvVars, appVars>>

RetransmitData ==
    /\ state = "Established" /\ HasCapacity
    /\ unacknowledged # <<>>
    /\ Room > 0
    /\ LET take == Least(Least(Len(unacknowledged), Mss), Room)
       IN  Emit(AckSegment(sndUna, {}, Front(unacknowledged, take)))
    /\ UNCHANGED <<state, oweAck, sendVars, windowVars, recvVars, appVars>>

Retransmit == RetransmitFin \/ RetransmitData

-----------------------------------------------------------------------------
(* on_segment: one action per outcome.  Each leaves toDev alone; the flush *)
(* MuxLink::pump may run next is NextSegment.                              *)

OnReset(h) ==
    /\ state # "Removed"
    /\ IsReset(h)
    /\ state' = "Closed"
    /\ UNCHANGED <<oweAck, sendVars, windowVars, recvVars, appVars, toDev>>

OnSynAck(h) ==
    /\ state = "SynSent"
    /\ IsSynAck(h)
    /\ h.ack = SeqAdd(InitialSequence, 1)
    /\ state' = "Established"
    /\ sndNxt' = h.ack
    /\ sndUna' = h.ack
    /\ sndWndEdge' = WindowEdge(h)
    /\ peerWindow' = h.win
    /\ maxPeerWindow' = Greatest(maxPeerWindow, h.win)
    /\ rcvNxt' = SeqAdd(h.seq, 1)
    /\ oweAck' = TRUE
    /\ UNCHANGED <<sendEpoch, outbound, unacknowledged, sentFin, inbound,
                   peerFin, appVars, toDev>>

OnOddFlags(h) ==
    /\ state = "Established"
    /\ ~IsReset(h) /\ ~IsBareAck(h) /\ ~IsFin(h)
    /\ state' = "Closed"
    /\ UNCHANGED <<oweAck, sendVars, windowVars, recvVars, appVars, toDev>>

AcksNew(h) == HasAck(h) /\ SeqGt(h.ack, sndUna)
AcksUnsent(h) == AcksNew(h) /\ SeqGt(h.ack, sndNxt)

\* Err(Closed), Err(BadHandshake), Err(BadAcknowledgement): nothing changes.
OnRejected(h) ==
    /\ ~IsReset(h)
    /\ \/ state = "Closed"
       \/ state = "SynSent" /\ ~(IsSynAck(h) /\ h.ack = SeqAdd(InitialSequence, 1))
       \/ state = "Established" /\ (IsBareAck(h) \/ IsFin(h)) /\ AcksUnsent(h)
    /\ UNCHANGED vars

\* Mutants of Unacked: any acknowledgement empties the queue, or drains it
\* from its back.
UnackedNone(acked) == <<>>
UnackedFromBack(acked) ==
    Front(unacknowledged, Len(unacknowledged) - Least(acked, Len(unacknowledged)))

\* What stays queued for retransmission when acked numbers are acknowledged.
Unacked(acked) == Drop(unacknowledged, Least(acked, Len(unacknowledged)))

ApplyAck(h) ==
    /\ IF AcksNew(h)
       THEN /\ unacknowledged' = Unacked(SeqSub(h.ack, sndUna))
            /\ sndUna' = h.ack
            /\ sendEpoch' = sendEpoch + 1
       ELSE UNCHANGED <<unacknowledged, sndUna, sendEpoch>>
    /\ IF HasAck(h)
       THEN /\ sndWndEdge' = WindowEdge(h)
            /\ peerWindow' = h.win
            /\ maxPeerWindow' = Greatest(maxPeerWindow, h.win)
       ELSE UNCHANGED windowVars
    /\ UNCHANGED <<sndNxt, outbound, sentFin>>

\* Mutant of InOrder: the sequence number is not compared.
InOrderAny(h) == peerFin = NoSeq

InOrder(h) == h.seq = rcvNxt /\ peerFin = NoSeq

ApplyPayload(h) ==
    LET end == SeqAdd(rcvNxt, Len(h.payload))
    IN  /\ inbound' = inbound \o h.payload
        /\ rcvNxt' = IF IsFin(h) THEN SeqAdd(end, 1) ELSE end
        /\ peerFin' = IF IsFin(h) THEN end ELSE peerFin

OnEstablished(h) ==
    /\ state = "Established"
    /\ IsBareAck(h) \/ IsFin(h)
    /\ ~AcksUnsent(h)
    /\ ApplyAck(h)
    /\ IF h.payload = <<>> /\ ~IsFin(h)
       THEN UNCHANGED <<recvVars, oweAck>>
       ELSE /\ oweAck' = TRUE
            /\ IF InOrder(h) THEN ApplyPayload(h) ELSE UNCHANGED recvVars
    /\ UNCHANGED <<state, appVars, toDev>>

OnSegment(h) ==
    OnReset(h) \/ OnSynAck(h) \/ OnOddFlags(h) \/ OnRejected(h) \/ OnEstablished(h)

-----------------------------------------------------------------------------
(* The open environment.                                                   *)

\* What is asked of the device: its windows fit the header, and a stale
\* acknowledgement is not half the sequence space behind.
DeviceContract(h) ==
    /\ h.win <= MaxWindow
    /\ state = "Established" /\ HasAck(h) =>
           \/ SeqGt(h.ack, sndUna)
           \/ SeqSub(sndUna, h.ack) + MaxWindow <= SeqHalf
    /\ Len(h.payload) < SeqHalf

\* The transport hands the packet at the front to the device.
Carry == toDev # <<>> /\ toDev' = Tail(toDev)
         /\ UNCHANGED <<state, oweAck, sendVars, windowVars, recvVars, appVars>>

HostNext ==
    \/ \E n \in 1 .. MaxWritten : Queue(n)
    \/ \E n \in 1 .. Len(inbound) : TakeReceived(n)
    \/ ShutdownWrite \/ ProbeWindow \/ Close \/ Forget
    \/ NextSegment \/ Retransmit

Next ==
    \/ HostNext
    \/ Carry
    \/ \E h \in Segment : DeviceContract(h) /\ OnSegment(h)

Spec == Init /\ [][Next]_vars

-----------------------------------------------------------------------------
(* Properties of the session whatever the device sends. *)

States == {"SynSent", "Established", "Closed", "Removed"}

\* Every field of MuxSession keeps the type its declaration gives it.
TypeOK ==
    /\ state \in States
    /\ sndNxt \in SeqSpace /\ sndUna \in SeqSpace /\ sndWndEdge \in SeqSpace
    /\ rcvNxt \in SeqSpace
    /\ sendEpoch \in Nat
    /\ outbound \in Seq(Nat) /\ unacknowledged \in Seq(Nat) /\ inbound \in Seq(Nat)
    /\ oweAck \in BOOLEAN /\ writeShutdown \in BOOLEAN
    /\ peerFin \in SeqSpace \cup {NoSeq} /\ sentFin \in SeqSpace \cup {NoSeq}
    /\ peerWindow \in Nat /\ maxPeerWindow \in Nat
    /\ written \in Nat /\ taken \in Seq(Nat)
    /\ toDev \in Seq(Segment)

FinOutstanding == IF sentFin # NoSeq /\ sndUna # sndNxt THEN 1 ELSE 0

\* on_established drains the retransmission queue by a wrapped difference and
\* next_segment fills it: the sequence numbers in flight are exactly the bytes
\* kept for retransmission and a FIN not yet acknowledged, also across a wrap.
FlightAccounting == InFlight = Len(unacknowledged) + FinOutstanding

\* usable_window compares wrapped numbers as signed: what is in flight never
\* exceeds a window, so that comparison never takes a shut window for a huge one.
FlightFitsWindow == InFlight <= MaxWindow

\* retransmit_unacknowledged resends the front of its queue as the bytes at
\* snd_una: the two queues hold the last bytes written, in order, with no gap
\* between what is kept and what is still to be sent.
StreamContiguous ==
    LET unsent == written - Len(outbound)
        acked  == unsent - Len(unacknowledged)
    IN  /\ \A i \in DOMAIN unacknowledged : unacknowledged[i] = acked + i
        /\ \A i \in DOMAIN outbound : outbound[i] = unsent + i

\* next_segment sends its FIN after the last byte: once it is sent nothing is
\* queued, the writer is shut, and the FIN is the last number used.
FinIsLast ==
    sentFin # NoSeq =>
        /\ writeShutdown /\ outbound = <<>>
        /\ sndNxt = SeqAdd(sentFin, 1)

\* The four together: what on_established, next_segment and
\* retransmit_unacknowledged rely on in each other's bookkeeping.
SessionSound == FlightAccounting /\ FlightFitsWindow /\ StreamContiguous /\ FinIsLast

\* What EpochNamesFlight asks of a step.
EpochStep ==
    state = "Established" /\ sendEpoch' = sendEpoch =>
        /\ sndUna' = sndUna
        /\ sentFin' = sentFin
        /\ unacknowledged = <<>> => unacknowledged' = <<>>

\* DeliveryProbeTimer re-arms when send_epoch moves: no step acknowledges
\* anything or puts a first byte or a FIN in flight under the epoch of the
\* flight before it.
EpochNamesFlight == [][EpochStep]_vars
=============================================================================
