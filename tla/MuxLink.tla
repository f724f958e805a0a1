------------------------------ MODULE MuxLink ------------------------------
(***************************************************************************)
(* One mux link and the streams dialled over it (src/usbmux/link.rs:       *)
(* MuxLink; src/usbmux/stream.rs: SharedLink::complete_open_cancellable    *)
(* and MuxStream): the version exchange, the packet numbering of framing   *)
(* version 2, the map of sessions by local port, and the dials that share  *)
(* it.  Every action of a thread is one hold of the link mutex.            *)
(*                                                                         *)
(* What flows inside a stream is MuxSession's matter.  Here a connection   *)
(* is the number of its dial, which stands for the initial sequence number *)
(* of the session, and a segment is a SYN, a SYN-ACK, data, an ACK or a    *)
(* RST of a connection.  The device is external: it answers a SYN, numbers *)
(* its packets, drops a packet whose number it does not expect, and may    *)
(* restart its framing.                                                    *)
(***************************************************************************)
EXTENDS Naturals, Sequences, SequencesExt

CONSTANTS
    Dialers,      \* threads that dial, use and close streams
    NPorts,       \* local ports: u16::MAX - FIRST_LOCAL_PORT + 1 of them
    PacketMod,    \* 2^16: the modulus of tx_seq and rx_expected
    HostCredits,  \* packets the transport takes before it refuses one
    Versions,     \* the framings the device may answer with
    Workloads     \* bound: dials, unsolicited packets of the device, restarts
                  \* of its framing and packets lost, one of these a behaviour

ASSUME LinkAssumption ==
    /\ NPorts \in Nat \ {0} /\ HostCredits \in Nat \ {0}
    /\ PacketMod \in Nat \ {0} /\ Versions \subseteq {"V1", "V2"}
    /\ Workloads \subseteq [dials : Nat, data : Nat, restarts : Nat, losses : Nat]

Ports == 0 .. NPorts - 1

VARIABLES
    link,     \* the fields of MuxLink
    toDev,    \* packets the transport took and the device has not handled
    toHost,   \* packets of the device the host has not received
    pc,       \* where each thread is
    port,     \* the local port of each thread's stream
    conn,     \* the dial each thread is in
    seen,     \* what the last poll of a dial found: a state, or "error"
    cancelled,  \* the threads whose cancellation flag is up
    dials,    \* dials begun
    dev,      \* the device: its version, counters, framings and connections
    ghost     \* what the properties and the bounds speak of; no code reads it

vars == <<link, toDev, toHost, pc, port, conn, seen, cancelled, dials, dev, ghost>>
threads == <<pc, port, conn, seen, cancelled, dials>>

NoSession == [state |-> "none", conn |-> 0, oweAck |-> FALSE]
Live == {"opening", "polled", "open"}

-----------------------------------------------------------------------------
(* Sending.  A packet carries tx_seq, which moves only once the transport  *)
(* took the packet.  l is [link, in, out, err, ghost], a link with its     *)
(* transport in the middle of an operation.                                *)

\* send_capacity, and what the transport refuses without.
SendCapacity(l) == Len(l.out) < HostCredits

HostPacket(l, p, c, kind) ==
    [seq |-> l.link.txSeq, kind |-> kind, port |-> p, conn |-> c,
     framing |-> l.ghost.framing]

\* Mutant of SendPacket: a refused packet uses up its number.
SendPacketCounted(l, p, c, kind) ==
    [l EXCEPT !.out = IF SendCapacity(l) THEN Append(@, HostPacket(l, p, c, kind)) ELSE @,
              !.err = @ \/ ~SendCapacity(l),
              !.link.txSeq = IF l.link.version = "V2" THEN (@ + 1) % PacketMod ELSE @]

\* send_packet: the transport refuses a packet it has no credit for.
SendPacket(l, p, c, kind) ==
    IF ~SendCapacity(l) THEN [l EXCEPT !.err = TRUE]
    ELSE [l EXCEPT !.out = Append(@, HostPacket(l, p, c, kind)),
                   !.link.txSeq = IF l.link.version = "V2" THEN (@ + 1) % PacketMod ELSE @]

\* flush: the owed acknowledgement of an established session, if there is
\* capacity for it.
Flush(l, p) ==
    LET s == l.link.sessions[p]
    IN  IF SendCapacity(l) /\ s.state = "Established" /\ s.oweAck
        THEN SendPacket([l EXCEPT !.link.sessions[p].oweAck = FALSE], p, s.conn, "ack")
        ELSE l

-----------------------------------------------------------------------------
(* Receiving.                                                              *)

\* Mutant of SynAckMatches: on_syn_ack takes any SYN-ACK.
SynAckMatchesAny(s, pkt) == pkt.kind = "synack"

\* on_syn_ack: the acknowledgement is of this session's own SYN.
SynAckMatches(s, pkt) == pkt.kind = "synack" /\ pkt.conn = s.conn

\* on_segment: a RST closes whatever it finds; a session in SynSent takes
\* nothing but its SYN-ACK; an established one is closed by a second SYN-ACK
\* and acknowledges everything else (a segment of another connection is out
\* of order).
OnSegment(s, pkt) ==
    IF pkt.kind = "rst" THEN [s EXCEPT !.state = "Closed"]
    ELSE IF s.state = "SynSent" THEN [s EXCEPT !.state = "Established", !.oweAck = TRUE]
    ELSE IF pkt.kind = "synack" THEN [s EXCEPT !.state = "Closed"]
    ELSE [s EXCEPT !.oweAck = TRUE]

SegmentFails(s, pkt) ==
    /\ pkt.kind # "rst"
    /\ \/ s.state = "Closed"
       \/ s.state = "SynSent" /\ ~SynAckMatches(s, pkt)

\* Mutant of GapClosed: the link resynchronises on the packet it has.
GapClosedByPacket(l, pkt) == TRUE

\* The number of the packet is the one expected.
GapClosed(l, pkt) == l.link.rxExpected = pkt.seq

Framed(l, ver) ==
    [l EXCEPT !.link.version = ver, !.link.txSeq = 0, !.link.rxExpected = 0,
              !.ghost.framing = @ + 1, !.ghost.applied = 0]

\* A packet that passes the numbering is the next one of its framing, or its
\* number has come round since the link began to refuse.
Numbered(l, pkt) ==
    IF l.link.version # "V2" THEN l
    ELSE [l EXCEPT !.link.rxExpected = (@ + 1) % PacketMod,
                   !.ghost.inOrder = @ /\ \/ pkt.index = l.ghost.applied
                                          \/ pkt.index >= l.ghost.applied + PacketMod,
                   !.ghost.applied = pkt.index + 1]

\* A TCP packet is for the session of its port, if there is one.
Dispatch(l, pkt, inFlush) ==
    LET s == l.link.sessions[pkt.port]
        applied == [l EXCEPT !.link.sessions[pkt.port] = OnSegment(s, pkt)]
    IN  IF s.state = "none" THEN l
        ELSE IF SegmentFails(s, pkt) THEN [l EXCEPT !.err = TRUE]
        ELSE IF inFlush \/ applied.link.sessions[pkt.port].state = "Closed" THEN applied
        ELSE Flush(applied, pkt.port)

\* pump with a packet at hand.
Pump(l, pkt, inFlush) ==
    LET taken == [l EXCEPT !.in = Tail(@)]
    IN  IF pkt.kind = "version" THEN Framed(taken, pkt.version)
        ELSE IF l.link.version = "V2" /\ ~GapClosed(l, pkt) THEN [taken EXCEPT !.err = TRUE]
        ELSE IF pkt.kind = "control" THEN Numbered(taken, pkt)
        ELSE Dispatch(Numbered(taken, pkt), pkt, inFlush)

\* drain_inbound and, with in_flush set, route_available: pump until the
\* queue is empty or a packet fails.
Drain(l, inFlush) ==
    FoldLeft(LAMBDA acc, pkt : IF acc.err THEN acc ELSE Pump(acc, pkt, inFlush), l, l.in)

-----------------------------------------------------------------------------
(* Ports.                                                                  *)

\* Mutant of FreePorts: sessions are not looked up.
FreePortsAll == Ports

\* Mutant of NextPort: always the lowest free port.
NextPortLowest(free) == CHOOSE p \in free : \A q \in free : p <= q

FreePorts == {p \in Ports : link.sessions[p].state = "none"}

\* allocate_port: the first free port from next_local_port on, cyclically.
NextPort(free) ==
    LET away(p) == (p + NPorts - link.nextPort) % NPorts
    IN  CHOOSE p \in free : \A q \in free : away(p) <= away(q)

\* sessions.remove.
Removed(l, p) == [l EXCEPT !.link.sessions[p] = NoSession]

\* close: the session goes, then its RST, if the transport takes it.
Close(l, p) ==
    LET s == l.link.sessions[p]
    IN  IF s.state = "none" THEN l ELSE SendPacket(Removed(l, p), p, s.conn, "rst")

-----------------------------------------------------------------------------
(* The threads.                                                            *)

Hold == [link |-> link, in |-> toHost, out |-> toDev, err |-> FALSE, ghost |-> ghost]

Release(l) == link' = l.link /\ toHost' = l.in /\ toDev' = l.out /\ ghost' = l.ghost

Goto(d, where) == pc' = [pc EXCEPT ![d] = where]

\* negotiate sends its request ...
Negotiate ==
    /\ link.version = "none" /\ ~link.asked
    /\ link' = [link EXCEPT !.asked = TRUE]
    /\ toDev' = Append(toDev, [seq |-> 0, kind |-> "version", port |-> 0, conn |-> 0,
                               framing |-> 0])
    /\ UNCHANGED <<toHost, threads, dev, ghost>>

\* ... and discards what comes before the answer.
NegotiateRecv ==
    /\ link.version = "none" /\ link.asked /\ toHost # <<>>
    /\ LET taken == [Hold EXCEPT !.in = Tail(@)]
       IN  Release(IF Head(toHost).kind = "version" THEN Framed(taken, Head(toHost).version)
                   ELSE taken)
    /\ UNCHANGED <<threads, dev>>

\* begin_open: the session is in the map before its SYN is sent, and stays
\* there when the SYN is refused.
BeginOpen(d) ==
    /\ link.version # "none" /\ pc[d] = "idle" /\ d \notin cancelled
    /\ dials < ghost.load.dials /\ FreePorts # {}
    /\ LET p == NextPort(FreePorts)
           c == dials + 1
           l == SendPacket([Hold EXCEPT
                    !.link.sessions[p] = [state |-> "SynSent", conn |-> c, oweAck |-> FALSE],
                    !.link.nextPort = (p + 1) % NPorts], p, c, "syn")
       IN  /\ Release(IF l.err THEN [l EXCEPT !.ghost.refused = @ \cup {c}] ELSE l)
           /\ Goto(d, IF l.err THEN "idle" ELSE "opening")
           /\ port' = [port EXCEPT ![d] = p]
           /\ conn' = [conn EXCEPT ![d] = c]
           /\ dials' = c
    /\ UNCHANGED <<seen, cancelled, dev>>

\* One turn of complete_open_cancellable under the link: drain and look.
OpenPoll(d) ==
    /\ pc[d] = "opening" /\ d \notin cancelled
    /\ LET l == Drain(Hold, FALSE)
       IN  /\ Release(l)
           /\ seen' = [seen EXCEPT ![d] =
                          IF l.err THEN "error" ELSE l.link.sessions[port[d]].state]
    /\ Goto(d, "polled")
    /\ UNCHANGED <<port, conn, cancelled, dials, dev>>

\* The dial acts on what it saw, in a second hold of the link.
OpenSucceeds(d) ==
    /\ pc[d] = "polled" /\ seen[d] = "Established" /\ d \notin cancelled
    /\ Release(Flush(Hold, port[d]))
    /\ Goto(d, "open")
    /\ UNCHANGED <<port, conn, seen, cancelled, dials, dev>>

\* An error or a closed session ends the dial; so does its deadline, without
\* a word to the device.
OpenFails(d) ==
    /\ pc[d] = "polled" /\ seen[d] # "Established"
    /\ Release(Removed(Hold, port[d]))
    /\ Goto(d, "idle")
    /\ UNCHANGED <<port, conn, seen, cancelled, dials, dev>>

OpenWaits(d) ==
    /\ pc[d] = "polled" /\ seen[d] = "SynSent"
    /\ Goto(d, "opening")
    /\ UNCHANGED <<link, toDev, toHost, port, conn, seen, cancelled, dials, dev, ghost>>

\* The cancellation flag at the top of the turn or before finish_open.
OpenCancelled(d) ==
    /\ d \in cancelled
    /\ pc[d] = "opening" \/ (pc[d] = "polled" /\ seen[d] = "Established")
    /\ Release(Removed(Close(Hold, port[d]), port[d]))
    /\ Goto(d, "idle")
    /\ UNCHANGED <<port, conn, seen, cancelled, dials, dev>>

Cancel(d) ==
    /\ d \notin cancelled /\ pc[d] \in Live
    /\ cancelled' = cancelled \cup {d}
    /\ UNCHANGED <<link, toDev, toHost, pc, port, conn, seen, dials, dev, ghost>>

\* A turn of an open stream: a read drains and a write routes, then flushes
\* its own port.
StreamTurn(d) ==
    /\ pc[d] = "open"
    /\ \E inFlush \in BOOLEAN :
         LET l == Drain(Hold, inFlush)
         IN  /\ Release(IF l.err THEN l ELSE Flush(l, port[d]))
             /\ seen' = [seen EXCEPT ![d] = IF l.err THEN "error" ELSE "Established"]
    /\ UNCHANGED <<pc, port, conn, cancelled, dials, dev>>

\* Dropping a stream closes it; a refused RST is not tried again.
CloseStream(d) ==
    /\ pc[d] = "open"
    /\ Release(Close(Hold, port[d]))
    /\ Goto(d, "idle")
    /\ UNCHANGED <<port, conn, seen, cancelled, dials, dev>>

-----------------------------------------------------------------------------
(* The device (external).                                                  *)

\* A packet of the device: its number, its index in the framing, its kind.
DevPacket(kind, p, c) ==
    [seq |-> dev.tx % PacketMod, index |-> dev.tx, kind |-> kind, port |-> p, conn |-> c,
     version |-> dev.version]

\* The device's counters start again and a version packet says so.
Restarted(ver) ==
    /\ dev' = [dev EXCEPT !.tx = 0, !.rx = 0, !.framing = @ + 1, !.version = ver]
    /\ toHost' = Append(toHost, [seq |-> 0, index |-> 0, kind |-> "version", port |-> 0,
                                 conn |-> 0, version |-> ver])

DevNegotiates ==
    /\ toDev # <<>> /\ Head(toDev).kind = "version"
    /\ toDev' = Tail(toDev)
    /\ \E ver \in Versions : Restarted(ver)
    /\ UNCHANGED <<link, threads, ghost>>

DevRestarts ==
    /\ link.version # "none" /\ dev.framing <= ghost.load.restarts
    /\ Restarted(dev.version)
    /\ UNCHANGED <<link, toDev, threads, ghost>>

Expected(pkt) == dev.version = "V1" \/ pkt.seq = dev.rx

\* A packet with the wrong number is dropped as a duplicate.
DevDrops ==
    /\ toDev # <<>> /\ Head(toDev).kind # "version" /\ ~Expected(Head(toDev))
    /\ toDev' = Tail(toDev)
    /\ ghost' = [ghost EXCEPT !.unheard = @ \/ Head(toDev).framing = dev.framing]
    /\ UNCHANGED <<link, toHost, threads, dev>>

\* The device takes a packet: a SYN is accepted or refused, an ACK completes
\* the handshake of its connection, a RST ends it.
DevTakes ==
    /\ toDev # <<>> /\ Head(toDev).kind # "version" /\ Expected(Head(toDev))
    /\ toDev' = Tail(toDev)
    /\ LET pkt == Head(toDev)
           rx == IF dev.version = "V1" THEN dev.rx ELSE (dev.rx + 1) % PacketMod
           crossed == ghost.crossed \/ (dev.version = "V2" /\ pkt.framing # dev.framing)
           moved(conns, tx) == dev' = [dev EXCEPT !.rx = rx, !.conns = conns, !.tx = tx]
           answer(kind, conns) ==
               /\ toHost' = Append(toHost, DevPacket(kind, pkt.port, pkt.conn))
               /\ moved(conns, dev.tx + 1)
       IN  \/ /\ pkt.kind = "syn"
              /\ answer("synack", [dev.conns EXCEPT ![pkt.port] = [conn |-> pkt.conn, open |-> FALSE]])
              /\ ghost' = [ghost EXCEPT !.crossed = crossed, !.accepted = @ \cup {pkt.conn}]
           \/ /\ pkt.kind = "syn"
              /\ answer("rst", [dev.conns EXCEPT ![pkt.port] = [conn |-> 0, open |-> FALSE]])
              /\ ghost' = [ghost EXCEPT !.crossed = crossed]
           \/ /\ pkt.kind \in {"ack", "rst"}
              /\ moved([dev.conns EXCEPT ![pkt.port] =
                           IF @.conn # pkt.conn THEN @
                           ELSE IF pkt.kind = "ack" THEN [@ EXCEPT !.open = TRUE]
                           ELSE [conn |-> 0, open |-> FALSE]], dev.tx)
              /\ toHost' = toHost
              /\ ghost' = [ghost EXCEPT !.crossed = crossed]
    /\ UNCHANGED <<link, threads>>

\* The device sends on a connection, resets one, or sends a control message.
DevSpeaks ==
    /\ dev.data < ghost.load.data /\ dev.framing > 0
    /\ \E p \in Ports :
         LET c == dev.conns[p]
             spent == [dev EXCEPT !.tx = @ + 1, !.data = @ + 1]
         IN  \/ /\ c.open
                /\ toHost' = Append(toHost, DevPacket("data", p, c.conn))
                /\ dev' = spent
             \/ /\ c.open
                /\ toHost' = Append(toHost, DevPacket("rst", p, c.conn))
                /\ dev' = [spent EXCEPT !.conns[p] = [conn |-> 0, open |-> FALSE]]
             \/ /\ toHost' = Append(toHost, DevPacket("control", 0, 0))
                /\ dev' = spent
    /\ UNCHANGED <<link, toDev, threads, ghost>>

\* A packet is lost on its way to the host.
Lose ==
    /\ toHost # <<>> /\ ghost.losses < ghost.load.losses
    /\ toHost' = Tail(toHost)
    /\ ghost' = [ghost EXCEPT !.losses = @ + 1,
                              !.missed = @ \/ Head(toHost).kind = "version"]
    /\ UNCHANGED <<link, toDev, threads, dev>>

-----------------------------------------------------------------------------
\* The link is new; a packet meant for an earlier host may still be queued.
Init ==
    /\ link = [version |-> "none", asked |-> FALSE, txSeq |-> 0, rxExpected |-> 0,
               sessions |-> [p \in Ports |-> NoSession], nextPort |-> 0]
    /\ toDev = <<>>
    /\ toHost \in {<<>>, <<[seq |-> 0, index |-> 0, kind |-> "control", port |-> 0,
                            conn |-> 0, version |-> "V2"]>>}
    /\ pc = [d \in Dialers |-> "idle"]
    /\ port = [d \in Dialers |-> 0] /\ conn = [d \in Dialers |-> 0]
    /\ seen = [d \in Dialers |-> "none"] /\ cancelled = {} /\ dials = 0
    /\ dev = [version |-> "none", tx |-> 0, rx |-> 0, framing |-> 0, data |-> 0,
              conns |-> [p \in Ports |-> [conn |-> 0, open |-> FALSE]]]
    /\ \E load \in Workloads :
        ghost = [framing |-> 0, applied |-> 0, inOrder |-> TRUE, unheard |-> FALSE,
                 crossed |-> FALSE, refused |-> {}, accepted |-> {}, losses |-> 0,
                 missed |-> FALSE, load |-> load]

Next ==
    \/ Negotiate \/ NegotiateRecv
    \/ \E d \in Dialers :
         \/ BeginOpen(d) \/ OpenPoll(d) \/ OpenSucceeds(d) \/ OpenFails(d)
         \/ OpenWaits(d) \/ OpenCancelled(d) \/ Cancel(d) \/ StreamTurn(d)
         \/ CloseStream(d)
    \/ DevNegotiates \/ DevRestarts \/ DevDrops \/ DevTakes \/ DevSpeaks \/ Lose

Spec == Init /\ [][Next]_vars

-----------------------------------------------------------------------------
\* What the link applies of a framing is a run of the device's packets from
\* its first, with no gap: a packet whose predecessor was lost is refused, and
\* so is every one after it, because a gap leaves rx_expected where it was,
\* until the number comes round (PacketMod packets later, and they are lost).
\* The exception is a restart whose version packet was the one lost: then the
\* new numbers are held against the old counter.
AppliedInOrder == ghost.inOrder \/ ghost.missed

\* The device drops no packet sent under the framing it is in: a refused send
\* uses up no number, and a late version packet takes both sides back to
\* zero.  The exception is a packet sent before the restart was seen that
\* carries, by chance, the number the restarted device expects.
DeviceHearsEverything == ghost.unheard => ghost.crossed

\* The map of sessions and the threads agree.  A thread that dials or holds a
\* stream is alone on its port, and the session there is the one of its own
\* dial, however often the ports have come round.  A port that no thread holds
\* is free, but for the ports of dials whose SYN the transport refused:
\* begin_open leaves those in the map for good.
PortsAreOwned ==
    /\ \A d \in Dialers : pc[d] \in Live => link.sessions[port[d]].conn = conn[d]
    /\ \A p \in Ports :
        \/ link.sessions[p].state = "none"
        \/ link.sessions[p].conn \in ghost.refused
        \/ \E d \in Dialers : pc[d] \in Live /\ port[d] = p

\* A dial that succeeds was accepted by the device: no SYN-ACK left over from
\* an earlier connection of the port establishes it.
OpenedMeansAccepted ==
    \A d \in Dialers : pc[d] = "open" => conn[d] \in ghost.accepted

\* While no packet is lost and the ports have not come round, no drain meets
\* an error, so no thread is failed by another thread's connection.
StrangersUnharmed ==
    ghost.losses = 0 /\ dials <= NPorts => \A d \in Dialers : seen[d] # "error"

=============================================================================
