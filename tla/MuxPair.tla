------------------------------ MODULE MuxPair -------------------------------
(***************************************************************************)
(* A mux session (MuxSession, the code) talking to a device through two    *)
(* bounded FIFO channels that may lose packets.                            *)
(*                                                                         *)
(* The device is not in this repository.  It is modelled from what the     *)
(* code says of it: it drops out-of-order data (session.rs:19), rounds the *)
(* window it advertises down to the wire unit (session.rs:258), answers a  *)
(* bare acknowledgement but never probes (session.rs:385), and learns the  *)
(* host's window from the host's acknowledgements (link.rs:418).           *)
(***************************************************************************)
EXTENDS MuxSession

CONSTANTS
    WindowUnit,   \* the byte count of one wire window unit: 1 << 8
    DevInitial,   \* the device's initial sequence number
    DevCap,       \* the device's receive buffer
    DevBytes,     \* bound: bytes the device writes
    MaxLoss,      \* bound: packets lost
    Workloads     \* what a behaviour may do: see load

ASSUME DeviceAssumption ==
    /\ WindowUnit \in Nat \ {0}
    /\ DevInitial \in SeqSpace
    /\ DevCap \in 0 .. MaxWindow /\ ReceiveWindow \in 0 .. MaxWindow
    /\ 2 * MaxWindow + 1 < SeqHalf  \* windows are below 2^24, SeqHalf is 2^31
    /\ {DevBytes, MaxLoss} \subseteq Nat
    /\ Workloads \subseteq
           [written : 0 .. MaxWritten,  \* bound: bytes the host queues
            devBytes : 0 .. DevBytes,   \* bound: bytes the device writes
            devShuts : BOOLEAN,         \* whether it shuts its writing side
            devCredits : Nat,           \* packets the bridge holds towards the host
            strays : Nat]               \* bound: its segments against the protocol

VARIABLES
    devState,    \* "Listen", "Open", "Closed"
    devRcvNxt, devGot, devUnread, devEof,
    devSndNxt, devSndUna, devEdge, devSent, devFin, devOwe,
    toHost,      \* packets on their way to the host
    flushing,    \* a call holds the link and is in MuxLink::flush
    losses, strays,
    load         \* the workload of this behaviour

devVars == <<devState, devRcvNxt, devGot, devUnread, devEof, devSndNxt,
             devSndUna, devEdge, devSent, devFin, devOwe>>
pairVars == <<vars, devVars, toHost, flushing, losses, strays, load>>

\* TcpHeader::window_to_wire and window_from_wire: what survives the header.
OnWire(window) == Least(window \div WindowUnit, MaxWindow \div WindowUnit) * WindowUnit

-----------------------------------------------------------------------------
(* The device. *)

DevHasCredit == Len(toHost) < load.devCredits
ToHost(seg) == toHost' = Append(toHost, seg)

DevSegment(seq, flags, payload) ==
    [flags |-> flags, seq |-> seq, ack |-> devRcvNxt,
     win |-> OnWire(DevCap - devUnread), payload |-> payload]

Arriving == Head(toDev)
Arrived == /\ toDev' = Tail(toDev)
           /\ UNCHANGED <<state, oweAck, sendVars, windowVars, recvVars, appVars>>

DevAcceptSyn ==
    /\ toDev # <<>> /\ DevHasCredit
    /\ devState = "Listen"
    /\ Arriving.flags = {"SYN"}
    /\ Arrived
    /\ devState' = "Open"
    /\ devRcvNxt' = SeqAdd(Arriving.seq, 1)
    /\ ToHost([flags |-> {"SYN", "ACK"}, seq |-> DevInitial,
               ack |-> SeqAdd(Arriving.seq, 1), win |-> OnWire(DevCap),
               payload |-> <<>>])
    /\ UNCHANGED <<devGot, devUnread, devEof, devSndNxt, devSndUna, devEdge,
                   devSent, devFin, devOwe, losses, strays>>

DevReset ==
    /\ strays < load.strays /\ DevHasCredit
    /\ devState # "Closed"
    /\ devState' = "Closed"
    /\ ToHost([DevSegment(devSndNxt, {"RST"}, <<>>) EXCEPT !.win = 0])
    /\ strays' = strays + 1
    /\ UNCHANGED <<vars, devRcvNxt, devGot, devUnread, devEof, devSndNxt,
                   devSndUna, devEdge, devSent, devFin, devOwe, losses>>

\* Segments the session must refuse: flags it does not know, an
\* acknowledgement of bytes never sent.
DevStray ==
    /\ strays < load.strays /\ DevHasCredit
    /\ devState = "Open"
    /\ \/ ToHost(DevSegment(devSndNxt, {"PSH", "ACK"}, <<>>))
       \/ ToHost([DevSegment(devSndNxt, {"ACK"}, <<>>)
                      EXCEPT !.ack = SeqAdd(devRcvNxt, MaxWindow + 1)])
    /\ strays' = strays + 1
    /\ UNCHANGED <<vars, devVars, losses>>

\* In-order data that fits is kept; anything else is dropped.  Either way,
\* and for a bare acknowledgement, the device owes an acknowledgement.
DevReceive ==
    /\ toDev # <<>>
    /\ devState = "Open"
    /\ LET seg  == Arriving
           keep == /\ seg.seq = devRcvNxt /\ ~devEof
                   /\ Len(seg.payload) <= DevCap - devUnread
           n    == IF keep THEN Len(seg.payload) ELSE 0
           fin  == keep /\ "FIN" \in seg.flags
       IN  IF "ACK" \in seg.flags
           THEN /\ devGot' = IF keep THEN devGot \o seg.payload ELSE devGot
                /\ devUnread' = devUnread + n
                /\ devRcvNxt' = SeqAdd(devRcvNxt, IF fin THEN n + 1 ELSE n)
                /\ devEof' = (devEof \/ fin)
                /\ devSndUna' = IF SeqGt(seg.ack, devSndUna) THEN seg.ack ELSE devSndUna
                /\ devEdge' = SeqAdd(seg.ack, OnWire(seg.win))
                /\ devOwe' = TRUE
                /\ UNCHANGED devState
           ELSE /\ devState' = IF "RST" \in seg.flags THEN "Closed" ELSE devState
                /\ UNCHANGED <<devGot, devUnread, devRcvNxt, devEof, devSndUna,
                               devEdge, devOwe>>
    /\ Arrived
    /\ UNCHANGED <<devSndNxt, devSent, devFin, toHost, losses, strays>>

DevIgnore ==
    /\ toDev # <<>>
    /\ devState = "Closed"
    /\ Arrived
    /\ UNCHANGED <<devVars, toHost, losses, strays>>

DevConsume ==
    /\ devUnread > 0
    /\ devUnread' \in 0 .. devUnread - 1
    /\ UNCHANGED <<vars, devState, devRcvNxt, devGot, devEof, devSndNxt, devSndUna,
                   devEdge, devSent, devFin, devOwe, toHost, losses, strays>>

DevAck ==
    /\ devState = "Open" /\ devOwe /\ DevHasCredit
    /\ ToHost(DevSegment(devSndNxt, {"ACK"}, <<>>))
    /\ devOwe' = FALSE
    /\ UNCHANGED <<vars, devState, devRcvNxt, devGot, devUnread, devEof, devSndNxt,
                   devSndUna, devEdge, devSent, devFin, losses, strays>>

DevRoom == IF SeqGt(devEdge, devSndNxt) THEN SeqSub(devEdge, devSndNxt) ELSE 0

DevSend(n) ==
    /\ devState = "Open" /\ DevHasCredit
    /\ devFin = NoSeq
    /\ n <= DevRoom /\ devSent + n <= load.devBytes
    /\ ToHost(DevSegment(devSndNxt, {"ACK"}, [i \in 1 .. n |-> devSent + i]))
    /\ devSndNxt' = SeqAdd(devSndNxt, n)
    /\ devSent' = devSent + n
    /\ devOwe' = FALSE
    /\ UNCHANGED <<vars, devState, devRcvNxt, devGot, devUnread, devEof, devSndUna,
                   devEdge, devFin, losses, strays>>

DevSendFin ==
    /\ devState = "Open" /\ DevHasCredit
    /\ load.devShuts /\ devFin = NoSeq /\ DevRoom > 0
    /\ ToHost(DevSegment(devSndNxt, {"FIN", "ACK"}, <<>>))
    /\ devFin' = devSndNxt
    /\ devSndNxt' = SeqAdd(devSndNxt, 1)
    /\ devOwe' = FALSE
    /\ UNCHANGED <<vars, devState, devRcvNxt, devGot, devUnread, devEof, devSndUna,
                   devEdge, devSent, losses, strays>>

\* Everything not yet acknowledged, from its first byte, FIN included.
DevRetransmit ==
    /\ devState = "Open" /\ DevHasCredit
    /\ devSndUna # devSndNxt
    /\ LET fin == devFin # NoSeq
           n   == SeqSub(devSndNxt, devSndUna) - (IF fin THEN 1 ELSE 0)
       IN  ToHost(DevSegment(devSndUna, IF fin THEN {"FIN", "ACK"} ELSE {"ACK"},
                             [i \in 1 .. n |-> devSent - n + i]))
    /\ UNCHANGED <<vars, devVars, losses, strays>>

-----------------------------------------------------------------------------
(* The channels, and the pump that brings packets to the session. *)

\* pump, called by route_available (in_flush is set, nothing is sent) or by
\* drain_inbound, where a segment the session accepts is followed by a flush.
HostReceive ==
    /\ ~flushing
    /\ toHost # <<>>
    /\ toHost' = Tail(toHost)
    /\ LET h == Head(toHost)
       IN  \/ OnSegment(h) /\ UNCHANGED flushing
           \/ /\ OnReset(h) \/ OnSynAck(h) \/ OnOddFlags(h) \/ OnEstablished(h)
              /\ flushing' = CanSendMore'
           \/ state = "Removed" /\ UNCHANGED <<vars, flushing>>  \* LinkEvent::Unmatched
    /\ UNCHANGED <<devVars, losses, strays, load>>

LoseToDev ==
    /\ toDev # <<>> /\ losses < MaxLoss
    /\ Arrived
    /\ losses' = losses + 1
    /\ UNCHANGED <<devVars, toHost, strays>>

LoseToHost ==
    /\ toHost # <<>> /\ losses < MaxLoss
    /\ toHost' = Tail(toHost)
    /\ losses' = losses + 1
    /\ UNCHANGED <<vars, devVars, strays>>

PairInit ==
    /\ Init
    /\ devState = "Listen"
    /\ devRcvNxt = 0 /\ devGot = <<>> /\ devUnread = 0 /\ devEof = FALSE
    /\ devSndNxt = SeqAdd(DevInitial, 1) /\ devSndUna = SeqAdd(DevInitial, 1)
    /\ devEdge = SeqAdd(DevInitial, 1)
    /\ devSent = 0 /\ devFin = NoSeq /\ devOwe = FALSE
    /\ toHost = <<>> /\ flushing = FALSE /\ losses = 0 /\ strays = 0
    /\ load \in Workloads

HostDo(A) == A /\ UNCHANGED <<devVars, toHost, losses, strays, load>>

\* The link's lock: one call at a time, and a call that ends with a flush has
\* ended when the flush has nothing to send or no capacity left.
LinkCall(A) == ~flushing /\ HostDo(A) /\ UNCHANGED flushing
LinkCallThenFlush(A) == ~flushing /\ HostDo(A) /\ flushing' = CanSendMore'

\* A round of flush, called for its own sake or at the end of another call.
Flush == HostDo(NextSegment) /\ flushing' = CanSendMore'

\* MuxLink::retransmit_unacknowledged probes when it has nothing to resend.
HasRetransmit == IF unacknowledged = <<>>
                 THEN sentFin # NoSeq /\ sndUna = sentFin
                 ELSE Room > 0

Resend ==
    /\ HasCapacity
    /\ \/ LinkCall(Retransmit)
       \/ ~HasRetransmit /\ LinkCallThenFlush(ProbeWindow)

HostStep ==
    \/ LinkCallThenFlush(\E n \in 1 .. load.written - written : Queue(n))
    \/ LinkCallThenFlush(\E n \in 1 .. Len(inbound) : TakeReceived(n))
    \/ LinkCallThenFlush(ShutdownWrite)
    \/ LinkCallThenFlush(ProbeWindow)
    \/ LinkCall(Close) \/ LinkCall(Forget)
    \/ Flush \/ Resend
    \/ HostReceive

DeviceStep ==
    /\ \/ DevAcceptSyn \/ DevReset \/ DevStray \/ DevReceive \/ DevIgnore
       \/ DevConsume \/ DevAck \/ DevSendFin \/ DevRetransmit
       \/ \E n \in 1 .. DevBytes : DevSend(n)
       \/ LoseToDev \/ LoseToHost
    /\ UNCHANGED <<flushing, load>>

PairNext == HostStep \/ DeviceStep

PairSpec == PairInit /\ [][PairNext]_pairVars

-----------------------------------------------------------------------------
(* Safety. *)

Down == INSTANCE BytePipe WITH MaxSent <- MaxWritten, sent <- written,
            shut <- writeShutdown, got <- devGot, eof <- devEof
Up == INSTANCE BytePipe WITH MaxSent <- DevBytes, sent <- devSent,
          shut <- devFin # NoSeq, got <- taken, eof <- ReceivedEof

\* next_segment, retransmit_unacknowledged and on_established give the device
\* an in-order byte pipe over the lossy channel: nothing lost, repeated or
\* reordered, and end-of-file only after the last byte.
DownIsPipe == Down!PipeSpec

\* on_established and take_received give the reader such a pipe too, whatever
\* the device repeats and the channel loses.
UpIsPipe == Up!PipeSpec

\* The assumption under which MuxSession's own theorems hold is met: every
\* segment this device sends satisfies the contract when on_segment sees it.
ContractMet == toHost # <<>> => Head(toHost) \in Segment /\ DeviceContract(Head(toHost))

\* Neither receiver is overrun.  usable_window counts from snd_nxt and follows
\* the last edge heard, so no packet on the wire ends past the device's buffer,
\* although that edge was computed and rounded in an earlier state of the
\* device.  And on_established does not compare arriving data with
\* advertised_window: the windows it has advertised keep inbound within
\* receive_window by themselves.
BuffersSuffice ==
    /\ \A i \in DOMAIN toDev :
        LET p == toDev[i].payload
        IN  p # <<>> => p[Len(p)] <= Len(devGot) - devUnread + DevCap
    /\ Len(inbound) <= ReceiveWindow

\* MuxLink::close drops an orderly_closed session without a reset: by then
\* every byte and the end of file have arrived, in both directions.
OrderlyCloseIsComplete ==
    OrderlyClosed =>
        /\ Len(devGot) = written /\ devEof
        /\ Len(taken) = devSent /\ devFin # NoSeq
=============================================================================
