---------------------------- MODULE MuxPairSends ----------------------------
(***************************************************************************)
(* Every step in which the host or the device sends keeps Met: the segment *)
(* goes behind what the channel already holds, it starts where the sender  *)
(* says, and the window it announces is room the receiver has.             *)
(***************************************************************************)
EXTENDS MuxSessionProofs

USE SMTT(30), ZenonT(30)

LEMMA ApartSub ==
    ASSUME NEW x \in SeqSpace, NEW y \in SeqSpace, NEW k \in Int, 0 <= k, k < SeqMod
    PROVE  Apart(x, y, k) <=> SeqSub(x, y) = k
BY Spaces, InSpace DEF Apart, SeqSub

\* usable_window and retransmit_unacknowledged's room, and the device's, when the
\* edge is a window from una and nxt a flight.
LEMMA RoomIs ==
    ASSUME NEW una \in SeqSpace, NEW nxt \in SeqSpace, NEW w \in 0 .. MaxWindow,
           NEW edge, edge = SeqAdd(una, w), SeqSub(nxt, una) <= MaxWindow
    PROVE  /\ SeqGt(edge, nxt) <=> w > SeqSub(nxt, una)
           /\ SeqGt(edge, nxt) => SeqSub(edge, nxt) = w - SeqSub(nxt, una)
BY Spaces, InSpace DEF SeqGt, SeqSub, SeqAdd

\* A segment sent adds to what has been sent, or repeats what is in flight.
LEMMA StreamSend ==
    ASSUME NEW q \in Seq(Segment), NEW s \in Segment, Carries(s),
           NEW seq, NEW rcvd \in Nat, NEW sent \in Nat, NEW shut \in BOOLEAN,
           NEW more \in Nat, NEW b \in BOOLEAN,
           Stream(q, seq, rcvd, sent, shut),
           sent <= more, shut => more = sent /\ b,
           Placed(s, seq, rcvd, more, b),
           sent + Bit(shut) <= Start(s, more) + MaxWindow
    PROVE  Stream(Append(q, s), seq, rcvd, more, b)
<1>1. PICK t : t = Append(q, s)
  BY Zenon
<1>2. /\ Len(q) \in Nat /\ Len(t) = Len(q) + 1 /\ t[Len(q) + 1] = s
      /\ \A i \in 1 .. Len(q) : t[i] = q[i] /\ q[i] \in Segment
  BY <1>1, AppendIs
<1>3. ASSUME NEW i \in 1 .. Len(q), Carries(q[i])
      PROVE  /\ Start(q[i], more) = Start(q[i], sent) /\ End(q[i], more) = End(q[i], sent)
             /\ Placed(q[i], seq, rcvd, more, b) /\ End(q[i], more) <= sent + Bit(shut)
  <2>1. Placed(q[i], seq, rcvd, sent, shut)
    BY <1>3, Zenon DEF Stream
  <2>2. PICK g \in Segment : g = q[i]
    BY <1>2, Zenon
  <2>3. Start(g, more) = Start(g, sent)
    BY <1>3, <2>1, <2>2, Zenon DEF Start, Carries, Placed
  <2>4. Placed(g, seq, rcvd, more, b)
    BY <2>1, <2>2, <2>3, SegmentType DEF Placed
  <2>5. End(g, more) <= sent + Bit(shut)
    <3>1. PICK a \in Nat, l \in Nat : a = Start(g, sent) /\ l = Len(g.payload)
      BY <2>1, <2>2, SegmentType, Zenon DEF Placed
    <3>2. a + l <= sent /\ ("FIN" \in g.flags => shut)
      BY <2>1, <2>2, <3>1, Zenon DEF Placed
    <3> QED BY <2>3, <3>1, <3>2 DEF End, Bit
  <2> QED BY <2>2, <2>3, <2>4, <2>5, Zenon DEF End
<1>4. ASSUME NEW i \in 1 .. Len(t), Carries(t[i]) PROVE Placed(t[i], seq, rcvd, more, b)
  BY <1>2, <1>3, <1>4
<1>5. ASSUME NEW i \in 1 .. Len(t), NEW j \in 1 .. Len(t), i < j PROVE Follows(t[i], t[j], more)
  <2> SUFFICES ASSUME Carries(t[i]), Carries(t[j])
               PROVE  End(t[i], more) <= Start(t[j], more) + MaxWindow
    BY Zenon DEF Follows
  <2>0. i \in 1 .. Len(q)
    BY <1>2, <1>5
  <2>1. CASE j = Len(q) + 1
    <3>1. PICK e \in Int : e = End(q[i], more)
      <4>1. Start(q[i], more) \in Nat /\ Len(q[i].payload) \in Nat
        BY <1>2, <1>3, <2>0, SegmentType, Zenon DEF Placed
      <4> QED BY <4>1 DEF End, Bit
    <3>2. PICK a \in Nat : a = Start(s, more)
      BY Zenon DEF Placed
    <3>3. PICK c \in 0 .. 1 : c = Bit(shut)
      BY BitType, Zenon
    <3>4. e <= sent + c /\ sent + c <= a + MaxWindow
      BY <1>2, <1>3, <2>0, <3>1, <3>2, <3>3, Zenon
    <3>5. e <= a + MaxWindow
      BY <3>4, Spaces
    <3> QED BY <1>2, <2>0, <2>1, <3>1, <3>2, <3>5, Zenon
  <2>2. CASE j # Len(q) + 1
    <3>1. j \in 1 .. Len(q)
      BY <1>2, <2>2
    <3> QED BY <1>2, <1>3, <1>5, <2>0, <3>1, Zenon DEF Stream, Follows
  <2> QED BY <2>1, <2>2, Zenon
<1> QED BY <1>1, <1>4, <1>5, Zenon DEF Stream

\* The receiver acknowledges from where it is.
LEMMA AcksAppend ==
    ASSUME NEW q \in Seq(Segment), NEW s \in Segment, NEW una \in SeqSpace,
           NEW ahead \in Nat, NEW edge \in Int, Acks(q, una, ahead, edge),
           Point(s.ack, una) = ahead, Acknowledges(s, una, ahead, edge)
    PROVE  Acks(Append(q, s), una, ahead, edge)
<1>1. PICK t : t = Append(q, s)
  BY Zenon
<1>2. /\ Len(q) \in Nat /\ Len(t) = Len(q) + 1 /\ t[Len(q) + 1] = s
      /\ \A i \in 1 .. Len(q) : t[i] = q[i]
  BY <1>1, AppendIs
<1>3. ASSUME NEW i \in 1 .. Len(t), HasAck(t[i]) PROVE Acknowledges(t[i], una, ahead, edge)
  BY <1>2, <1>3 DEF Acks
<1>4. ASSUME NEW i \in 1 .. Len(t), NEW j \in 1 .. Len(t), i < j PROVE Later(t[i], t[j], una)
  <2>0. i \in 1 .. Len(q)
    BY <1>2, <1>4
  <2>1. CASE j = Len(q) + 1
    <3>1. HasAck(q[i]) => Point(q[i].ack, una) <= ahead
      BY <2>0, Zenon DEF Acks, Acknowledges
    <3> QED BY <1>2, <2>0, <2>1, <3>1, Zenon DEF Later
  <2>2. CASE j # Len(q) + 1
    <3>1. j \in 1 .. Len(q)
      BY <1>2, <2>2
    <3> QED BY <1>2, <1>4, <2>0, <3>1, Zenon DEF Acks
  <2> QED BY <2>1, <2>2, Zenon
<1> QED BY <1>1, <1>3, <1>4, Zenon DEF Acks

\* The next numbers of the two ends, seen from the receiver.
LEMMA HostApart ==
    ASSUME FlightInv, DevTypes, DownReceived, DownAcks, state = "Established"
    PROVE  /\ Apart(sndNxt, devRcvNxt, HostSent - DevRcvd)
           /\ Apart(sndUna, devRcvNxt, HostAcked - DevRcvd)
           /\ SeqSub(devRcvNxt, sndUna) = DevRcvd - HostAcked
<1>1. /\ sndNxt \in SeqSpace /\ sndUna \in SeqSpace /\ devRcvNxt \in SeqSpace
  BY Zenon DEF FlightInv, TypeOK, DevTypes
<1>2. PICK n \in Nat, u \in Nat, r \in Nat, m \in Nat :
        n = HostSent /\ u = HostAcked /\ r = DevRcvd /\ m = InFlight
  BY DownNumbers, Spaces
<1>3. n = u + m /\ m <= MaxWindow /\ r <= n /\ u <= r
  BY <1>2, DownNumbers, Spaces
<1>4. Apart(devRcvNxt, sndUna, r - u) /\ SeqSub(sndNxt, sndUna) = m
  BY <1>2, Zenon DEF DownAcks, Live, HostUna, InFlight
<1>5. Apart(sndNxt, devRcvNxt, n - r) /\ Apart(sndUna, devRcvNxt, u - r)
  BY <1>1, <1>3, <1>4, Spaces, InSpace DEF Apart, SeqSub
<1>6. SeqSub(devRcvNxt, sndUna) = r - u
  BY <1>1, <1>3, <1>4, Spaces, InSpace DEF Apart, SeqSub
<1> QED BY <1>2, <1>5, <1>6, Zenon

LEMMA DevApart ==
    ASSUME TypeOK, DevTypes, UpReceived, UpAcks, UpWindow, Live
    PROVE  /\ Apart(devSndNxt, HostExpects, DevUsed - HostRcvd)
           /\ Apart(devSndUna, HostExpects, DevAcked - HostRcvd)
           /\ SeqSub(HostExpects, devSndUna) = HostRcvd - DevAcked
<1>1. devSndNxt \in SeqSpace /\ devSndUna \in SeqSpace /\ HostExpects \in SeqSpace
  BY HostNumbers, Zenon DEF DevTypes
<1>2. PICK n \in Nat, u \in Nat, r \in Nat, m \in Nat :
        n = DevUsed /\ u = DevAcked /\ r = HostRcvd /\ m = DevFlight
  BY UpNumbers, DevNumbers, HostNumbers, Zenon
<1>3. n = u + m /\ m <= MaxWindow /\ r <= n /\ u <= r
  BY <1>2, UpNumbers, Spaces DEF DevAcked, UpAcks, UpWindow
<1>4. Apart(HostExpects, devSndUna, r - u) /\ SeqSub(devSndNxt, devSndUna) = m
  BY <1>2, Zenon DEF UpAcks, DevFlight
<1>5. Apart(devSndNxt, HostExpects, n - r) /\ Apart(devSndUna, HostExpects, u - r)
  BY <1>1, <1>3, <1>4, Spaces, InSpace DEF Apart, SeqSub
<1>6. SeqSub(HostExpects, devSndUna) = r - u
  BY <1>1, <1>3, <1>4, Spaces, InSpace DEF Apart, SeqSub
<1> QED BY <1>2, <1>5, <1>6, Zenon

-----------------------------------------------------------------------------
(* The host sends a segment, which acknowledges what it has received.      *)

LEMMA UpAfterHostSends ==
    ASSUME TypeOK, DevTypes, Met, state = "Established", UNCHANGED <<state, sndUna, toHost>>,
           HostRecvSame, DevSendSame, NEW seg \in Segment, seg.ack = rcvNxt,
           seg.win = AdvertisedWindow, toDev' = Append(toDev, seg)
    PROVE  UpReceived' /\ UpStream' /\ UpAcks' /\ UpWindow'
<1>1. UpReceived /\ UpStream /\ UpAcks /\ UpWindow
  BY Zenon DEF Met
<1>2. Anchored /\ Live /\ Live' /\ HostExpects = rcvNxt /\ HostExpects' = rcvNxt
  BY Zenon DEF Anchored, Live, HostUna, HostExpects, HostRecvSame
<1>3. UpReceived' /\ UpStream' /\ UpWindow'
  <2>1. Quiet(toHost, toHost')
    BY Zenon DEF Quiet
  <2> QED BY <1>1, <1>2, <2>1, UpReceivedKept, UpStreamKept, UpWindowKept, Zenon
<1>4. PICK ahead \in 0 .. MaxWindow, free \in Nat :
        ahead = HostRcvd - DevAcked /\ free = HostFree /\ free = seg.win
  BY <1>1, UpNumbers
<1>5. ahead \in Nat /\ ahead + free \in Int /\ ahead <= MaxWindow /\ devSndUna \in SeqSpace
  BY <1>4, Spaces DEF DevTypes
<1>6. SeqSub(seg.ack, devSndUna) = ahead
  BY <1>1, <1>2, <1>4, DevApart, Zenon
<1>7. Point(seg.ack, devSndUna) = ahead
  BY <1>5, <1>6, Zenon DEF Point
<1>8. Acknowledges(seg, devSndUna, ahead, ahead + free)
  <2>1. ahead <= 2 * MaxWindow + 1 /\ ahead <= ahead /\ ahead + free <= ahead + free
    BY <1>4, <1>5, Spaces
  <2> QED BY <1>4, <1>6, <1>7, <2>1, Zenon DEF Acknowledges
<1>9. toDev \in Seq(Segment) /\ Acks(toDev, devSndUna, ahead, ahead + free)
  BY <1>1, <1>4, Zenon DEF TypeOK, UpAcks
<1>10. Acks(toDev', devSndUna, ahead, ahead + free)
  BY <1>5, <1>7, <1>8, <1>9, AcksAppend, Zenon
<1>11. ASSUME NEW i \in 1 .. Len(toDev'), HasAck(toDev'[i])
       PROVE  SeqSub(toDev'[i].ack, devSndUna) <= MaxWindow
  <2>1. CASE i = Len(toDev) + 1
    BY <1>5, <1>6, <1>9, <2>1, AppendIs
  <2>2. CASE i # Len(toDev) + 1
    <3>1. i \in 1 .. Len(toDev) /\ toDev'[i] = toDev[i]
      BY <1>9, <2>2, AppendIs
    <3> QED BY <1>1, <1>11, <3>1, Zenon DEF UpAcks
  <2> QED BY <2>1, <2>2, Zenon
<1>12. UNCHANGED <<devSndUna, DevAcked, HostRcvd, HostFree, HostExpects>>
  BY <1>2, Kept, Zenon DEF DevSendSame
<1>13. UpAcks'
  BY <1>1, <1>2, <1>4, <1>10, <1>11, <1>12, Zenon DEF UpAcks
<1> QED BY <1>3, <1>13, Zenon

\* It carries the next bytes or the FIN, or repeats what is in flight.
LEMMA DownAfterHostSends ==
    ASSUME FlightInv, DevTypes, Met, state = "Established",
           UNCHANGED <<state, sndUna, sndWndEdge, peerWindow, HostAcked, rcvNxt, toHost>>,
           DevRecvSame, NEW seg \in Segment, Carries(seg), toDev' = Append(toDev, seg),
           NEW more \in Nat, HostBytes' = more, HostBytes <= more,
           more <= Len(devGot) + DevFree,
           sentFin # NoSeq => UNCHANGED <<sentFin, HostBytes>>,
           Placed(seg, devRcvNxt, DevRcvd, more, sentFin' # NoSeq),
           HostSent <= Start(seg, more) + MaxWindow
    PROVE  DownReceived' /\ DownStream' /\ DownAcks' /\ DownWindow'
<1>1. TypeOK /\ DownReceived /\ DownStream /\ DownAcks /\ DownWindow
  BY Zenon DEF Met, FlightInv
<1>2. UNCHANGED <<devRcvNxt, devGot, devEof, devUnread, DevRcvd, DevFree>>
  BY Kept, Zenon DEF DevRecvSame
<1>3. DownReceived'
  <2>1. PICK d \in Nat, b \in Int, f \in Nat : d = Len(devGot) /\ b = HostBytes /\ f = DevFree
    BY <1>1, HostNumbers, DevNumbers, Zenon
  <2>2. d <= b /\ (devEof => sentFin # NoSeq /\ d = b)
    BY <1>1, <2>1, Zenon DEF DownReceived
  <2>3. d <= more /\ (devEof => sentFin' # NoSeq /\ d = more) /\ more <= d + f
    BY <2>1, <2>2
  <2>4. \A k \in 1 .. d : devGot[k] = k
    BY <1>1, <2>1, Zenon DEF DownReceived
  <2> QED BY <1>2, <2>1, <2>3, <2>4, Zenon DEF DownReceived
<1>4. DownStream'
  <2>1. toDev \in Seq(Segment) /\ HostBytes \in Nat /\ DevRcvd \in Nat
    BY <1>1, DownNumbers, Zenon DEF TypeOK
  <2>2. PICK shut \in BOOLEAN,
  b \in BOOLEAN : (shut <=> sentFin # NoSeq) /\ (b <=> sentFin' # NoSeq)
    BY Zenon
  <2>3. /\ Stream(toDev, devRcvNxt, DevRcvd, HostBytes, shut)
        /\ Placed(seg, devRcvNxt, DevRcvd, more, b)
        /\ HostBytes + Bit(shut) <= Start(seg, more) + MaxWindow
        /\ shut => more = HostBytes /\ b
    BY <1>1, <2>2, Zenon DEF DownStream, HostSent, Stream, Placed, Bit
  <2>4. Stream(Append(toDev, seg), devRcvNxt, DevRcvd, more, b)
    BY <2>1, <2>3, StreamSend, ZenonT(30)
  <2>5. Stream(toDev', devRcvNxt', DevRcvd', HostBytes', sentFin' # NoSeq)
    BY <1>2, <2>2, <2>4, Zenon DEF Stream, Placed
  <2> QED BY <2>5, Zenon DEF DownStream
<1>5. DownAcks'
  <2>1. UNCHANGED <<HostUna, Live>>
    BY Zenon DEF HostUna, Live
  <2> QED BY <1>1, <1>2, <2>1, Zenon DEF DownAcks
<1>6. DownWindow'
  BY <1>1, <1>2, Zenon DEF DownWindow
<1> QED BY <1>3, <1>4, <1>5, <1>6, Zenon

-----------------------------------------------------------------------------
(* The host's sends.                                                       *)

\* usable_window is what the last window heard leaves beyond the flight, and
\* retransmit_unacknowledged's room is that window.
LEMMA HostWindow ==
    ASSUME FlightInv, DownWindow, state = "Established"
    PROVE  /\ UsableWindow > 0 => UsableWindow = peerWindow - InFlight
           /\ peerWindow \in 0 .. MaxWindow
<1>1. /\ sndUna \in SeqSpace /\ sndNxt \in SeqSpace /\ peerWindow \in 0 .. MaxWindow
      /\ sndWndEdge = SeqAdd(sndUna, peerWindow) /\ SeqSub(sndNxt, sndUna) <= MaxWindow
  BY Spaces DEF FlightInv, TypeOK, FlightFitsWindow, InFlight, DownWindow
<1>2. SeqGt(sndWndEdge, sndNxt) => SeqSub(sndWndEdge, sndNxt) = peerWindow - InFlight
  BY <1>1, RoomIs, Zenon DEF InFlight
<1> QED BY <1>1, <1>2 DEF UsableWindow

\* What is kept for retransmission starts where the acknowledgements end.
LEMMA UnackedStart ==
    ASSUME FlightInv, unacknowledged # <<>>
    PROVE  HostAcked = HostBytes - Len(unacknowledged)
<1>1. PICK u \in Nat \ {0}, m \in Nat, b \in Int : u = Len(unacknowledged) /\ m = InFlight /\ b = HostBytes
  BY HostNumbers, EmptySeq, Zenon DEF FlightInv, TypeOK
<1>2. m = u + FinOutstanding /\ sndUna # sndNxt
  <2>1. m = u + FinOutstanding
    BY <1>1, Zenon DEF FlightInv, FlightAccounting
  <2>2. sndUna = sndNxt => m = 0
    BY <1>1, InSpace DEF InFlight, SeqSub, FlightInv, TypeOK
  <2> QED BY <1>1, <2>1, <2>2 DEF FinOutstanding
<1>3. FinOutstanding = Bit(sentFin # NoSeq)
  BY <1>2, Zenon DEF FinOutstanding, Bit
<1>4. PICK f \in 0 .. 1 : f = Bit(sentFin # NoSeq)
  BY BitType, Zenon
<1>5. HostAcked = (b + f) - m
  BY <1>1, <1>4, Zenon DEF HostAcked, HostSent
<1> QED BY <1>1, <1>2, <1>3, <1>4, <1>5

LEMMA MetSendData ==
    ASSUME FlightInv, StreamContiguous, DevTypes, Met, SendData, UNCHANGED <<devVars, toHost>>
    PROVE  Met'
<1> USE DEF sendVars, windowVars, recvVars, appVars, devVars
<1>0. /\ TypeOK /\ DownReceived /\ DownStream /\ DownAcks /\ DownWindow
      /\ UNCHANGED <<state, sndUna, sndWndEdge, peerWindow, rcvNxt, toHost, sentFin, written>>
      /\ state = "Established" /\ sentFin = NoSeq
  BY Zenon DEF FlightInv, Met, SendData, MaySendData, FinIsLast
<1>1. HostRecvSame /\ DevRecvSame /\ DevSendSame
  BY Zenon DEF SendData, HostRecvSame, DevRecvSame, DevSendSame
<1>2. PICK t \in Nat : t = Take /\ t \in 1 .. Len(outbound) /\ t <= UsableWindow /\ UsableWindow > 0
  BY <1>0, TakeType, HostNumbers DEF SendData, MaySendData
<1>3. PICK p \in Seq(Nat) : p = Front(outbound, Take)
  BY <1>0, <1>2, SplitType, HostNumbers DEF TypeOK
<1>4. /\ Len(p) = t /\ \A k \in 1 .. t : p[k] = HostBytes + k
      /\ Len(outbound') = Len(outbound) - t
  <2>1. outbound \in Seq(Nat) /\ t \in 0 .. Len(outbound) /\ DOMAIN outbound = 1 .. Len(outbound)
    BY <1>0, <1>2, HostNumbers DEF TypeOK
  <2>2. /\ Len(p) = t /\ \A k \in 1 .. t : p[k] = outbound[k]
        /\ Len(outbound') = Len(outbound) - t
    BY <1>2, <1>3, <2>1, SplitType, ZenonT(30) DEF SendData
  <2>3. \A k \in 1 .. Len(outbound) : outbound[k] = HostBytes + k
    BY <2>1, Zenon DEF StreamContiguous, HostBytes
  <2>4. \A k \in 1 .. t : k \in 1 .. Len(outbound)
    BY <1>2, <2>1
  <2> QED BY <2>2, <2>3, <2>4, Zenon
<1>5. PICK seg \in Segment : seg = AckSegment(sndNxt, {}, p) /\ toDev' = Append(toDev, seg)
  BY <1>0, <1>3, AckSegmentType, Zenon DEF SendData, Emit, TypeOK
<1>6. /\ seg.ack = rcvNxt /\ seg.win = AdvertisedWindow /\ seg.seq = sndNxt /\ seg.payload = p
      /\ "FIN" \notin seg.flags
  BY <1>5, Zenon DEF AckSegment
<1>7. PICK b \in Nat, m \in Nat, u \in Nat, r \in Nat, d \in Nat, w \in Nat, f \in Nat :
        /\ b = HostBytes /\ m = InFlight /\ u = HostAcked /\ r = DevRcvd /\ d = Len(devGot)
        /\ w = peerWindow /\ f = DevFree
  <2>1. HostBytes \in Nat /\ InFlight \in Nat /\ HostAcked \in Nat /\ DevRcvd \in Nat
    BY <1>0, DownNumbers, HostNumbers, Zenon
  <2>2. Len(devGot) \in Nat /\ DevFree \in Nat /\ peerWindow \in Nat
    BY <1>0, DevNumbers, Zenon DEF TypeOK
  <2> QED BY <2>1, <2>2, Zenon
<1>8. /\ HostSent = b /\ b = u + m /\ r <= b /\ u <= r /\ m <= MaxWindow /\ r = d
      /\ w <= (r - u) + f /\ t <= w - m
  <2>1. HostSent = b /\ r = d
    BY <1>0, <1>7, DevNumbers DEF HostSent, Bit, DevRcvd, DownReceived
  <2>2. w <= (r - u) + f
    BY <1>0, <1>7, Zenon DEF DownWindow
  <2>3. t <= w - m
    BY <1>0, <1>2, <1>7, HostWindow, Zenon
  <2>4. HostSent = u + m /\ r <= HostSent /\ r - u \in 0 .. MaxWindow /\ m \in 0 .. MaxWindow
    BY <1>0, <1>7, DownNumbers, Zenon
  <2> QED BY <2>1, <2>2, <2>3, <2>4, <1>7
<1>9. PICK more \in Nat : more = b + t
  OBVIOUS
<1>10. HostBytes' = more /\ b <= more /\ more <= d + f
  <2>1. HostBytes' = written - (Len(outbound) - t)
    BY <1>0, <1>4, Zenon DEF HostBytes
  <2>2. written \in Nat /\ Len(outbound) \in Nat /\ b = written - Len(outbound)
    BY <1>0, <1>7, HostNumbers, Zenon DEF TypeOK, HostBytes
  <2> QED BY <1>8, <1>9, <2>1, <2>2
<1>11. UNCHANGED HostAcked
  <2>1. InFlight' = m + t
    <3>1. SeqGt(sndWndEdge, sndNxt) /\ t <= SeqSub(sndWndEdge, sndNxt)
      BY <1>2 DEF UsableWindow
    <3> QED BY <1>2, <1>7, <3>1, SendArithmetic
            DEF FlightInv, TypeOK, FlightFitsWindow, EdgeInReach, InFlight, SendData
  <2>2. HostSent' = more
    BY <1>0, <1>10 DEF HostSent, Bit
  <2>3. HostAcked' = more - (m + t)
    BY <2>1, <2>2, Zenon DEF HostAcked
  <2> QED BY <1>7, <1>8, <1>9, <2>3
<1>12. p # <<>> /\ Carries(seg) /\ Start(seg, more) = b
  <2>1. p[1] = b + 1 /\ p # <<>>
    BY <1>2, <1>4, <1>7
  <2> QED BY <1>6, <1>7, <2>1 DEF Carries, Start
<1>13. Placed(seg, devRcvNxt, DevRcvd, more, sentFin' # NoSeq)
  <2>1. Apart(sndNxt, devRcvNxt, b - r)
    BY <1>0, <1>7, <1>8, HostApart, Zenon
  <2>2. b + t <= more /\ r - MaxWindow <= b /\ b <= r + MaxWindow
    BY <1>8, <1>9, Spaces
  <2> QED BY <1>4, <1>6, <1>7, <1>12, <2>1, <2>2, Zenon DEF Placed
<1>14. HostSent <= Start(seg, more) + MaxWindow
  BY <1>8, <1>12, Spaces
<1>15. DownReceived' /\ DownStream' /\ DownAcks' /\ DownWindow'
  BY <1>0, <1>1, <1>5, <1>7, <1>10, <1>11, <1>12, <1>13, <1>14, DownAfterHostSends, ZenonT(30)
<1>16. UpReceived' /\ UpStream' /\ UpAcks' /\ UpWindow'
  BY <1>0, <1>1, <1>5, <1>6, UpAfterHostSends, Zenon
<1> QED BY <1>0, <1>15, <1>16, Zenon DEF Met
\* A segment without bytes: an acknowledgement or the FIN.
LEMMA EmptySegmentType ==
    ASSUME TypeOK, NEW seq \in SeqSpace
    PROVE  AckSegment(seq, {}, <<>>) \in Segment /\ AckSegment(seq, {"FIN"}, <<>>) \in Segment
<1>1. <<>> \in Seq(Nat) /\ {} \in SUBSET Flags /\ {"FIN"} \in SUBSET Flags
  BY DEF Flags
<1> QED BY <1>1, AckSegmentType, Zenon

LEMMA MetSendFin ==
    ASSUME FlightInv, StreamContiguous, DevTypes, Met, SendFin, UNCHANGED <<devVars, toHost>>
    PROVE  Met'
<1> USE DEF sendVars, windowVars, recvVars, appVars, devVars
<1>0. /\ TypeOK /\ DownReceived /\ DownStream /\ DownAcks /\ DownWindow
      /\ UNCHANGED <<state, sndUna, sndWndEdge, peerWindow, rcvNxt, toHost, HostBytes>>
      /\ state = "Established" /\ sentFin = NoSeq /\ sentFin' # NoSeq
  BY SequenceAssumption, Zenon DEF FlightInv, Met, SendFin, MaySendFin, TypeOK, HostBytes
<1>1. HostRecvSame /\ DevRecvSame /\ DevSendSame
  BY Zenon DEF SendFin, HostRecvSame, DevRecvSame, DevSendSame
<1>2. PICK seg \in Segment : seg = AckSegment(sndNxt, {"FIN"}, <<>>) /\ toDev' = Append(toDev, seg)
  BY <1>0, EmptySegmentType, Zenon DEF SendFin, Emit, TypeOK
<1>3. /\ seg.ack = rcvNxt /\ seg.win = AdvertisedWindow /\ seg.seq = sndNxt /\ seg.payload = <<>>
      /\ "FIN" \in seg.flags /\ Len(seg.payload) = 0
  BY <1>2, Zenon DEF AckSegment
<1>4. PICK b \in Nat, m \in Nat, u \in Nat, r \in Nat :
        /\ b = HostBytes /\ m = InFlight /\ u = HostAcked /\ r = DevRcvd
  BY <1>0, DownNumbers, HostNumbers, Zenon
<1>5. HostSent = b /\ b = u + m /\ r <= b /\ u <= r /\ m <= MaxWindow
  <2>1. HostSent = b
    BY <1>0, <1>4 DEF HostSent, Bit
  <2>2. HostSent = u + m /\ r <= HostSent /\ r - u \in 0 .. MaxWindow /\ m \in 0 .. MaxWindow
    BY <1>0, <1>4, DownNumbers, Zenon
  <2> QED BY <2>1, <2>2
<1>6. b <= Len(devGot) + DevFree
  BY <1>0, <1>4, Zenon DEF DownReceived
<1>7. UNCHANGED HostAcked
  <2>1. InFlight' = m + 1
    <3>1. SeqGt(sndWndEdge, sndNxt)
      BY DEF SendFin, MaySendFin, UsableWindow
    <3>2. 1 <= SeqSub(sndWndEdge, sndNxt)
      <4>1. SeqSub(sndWndEdge, sndNxt) \in 0 .. SeqMod - 1
        BY <1>0, SubType, Zenon DEF TypeOK
      <4> QED BY <3>1, <4>1, Spaces DEF SeqGt
    <3> QED BY <1>4, <3>1, <3>2, SendArithmetic
            DEF FlightInv, TypeOK, FlightFitsWindow, EdgeInReach, InFlight, SendFin
  <2>2. HostSent' = b + 1
    BY <1>0, <1>4, Zenon DEF HostSent, Bit
  <2>3. HostAcked' = (b + 1) - (m + 1)
    BY <2>1, <2>2, Zenon DEF HostAcked
  <2> QED BY <1>4, <1>5, <2>3
<1>8. Carries(seg) /\ Start(seg, b) = b
  BY <1>3, ZenonT(30) DEF Carries, Start
<1>9. Placed(seg, devRcvNxt, DevRcvd, b, sentFin' # NoSeq)
  <2>1. Apart(sndNxt, devRcvNxt, b - r)
    BY <1>0, <1>4, <1>5, HostApart, Zenon
  <2>2. b + 0 = b /\ b + 0 <= b /\ r - MaxWindow <= b /\ b <= r + MaxWindow
    BY <1>5, Spaces
  <2> QED BY <1>0, <1>3, <1>4, <1>8, <2>1, <2>2 DEF Placed
<1>10. HostSent <= Start(seg, b) + MaxWindow
  BY <1>5, <1>8, Spaces
<1>11. HostBytes' = b /\ HostBytes <= b
  BY <1>0, <1>4
<1>12. DownReceived' /\ DownStream' /\ DownAcks' /\ DownWindow'
  BY <1>0, <1>1, <1>2, <1>6, <1>7, <1>8, <1>9, <1>10, <1>11, DownAfterHostSends, ZenonT(30)
<1>13. UpReceived' /\ UpStream' /\ UpAcks' /\ UpWindow'
  BY <1>0, <1>1, <1>2, <1>3, UpAfterHostSends, Zenon
<1> QED BY <1>0, <1>12, <1>13, Zenon DEF Met

LEMMA MetSendAck ==
    ASSUME FlightInv, StreamContiguous, DevTypes, Met, SendAck, UNCHANGED <<devVars, toHost>>
    PROVE  Met'
<1> USE DEF sendVars, windowVars, recvVars, appVars, devVars
<1>0. /\ TypeOK /\ DownReceived /\ DownStream /\ DownAcks /\ DownWindow
      /\ state = "Established" /\ UNCHANGED state
  BY Zenon DEF FlightInv, Met, SendAck
<1>1. HostSendSame /\ HostRecvSame /\ DevRecvSame /\ DevSendSame /\ Anchored
  BY Zenon DEF SendAck, HostSendSame, HostRecvSame, DevRecvSame, DevSendSame, HostBytes, Anchored,
         Live, HostUna, HostExpects
<1>2. PICK seg \in Segment : seg = AckSegment(sndNxt, {}, <<>>) /\ toDev' = Append(toDev, seg)
  BY <1>0, EmptySegmentType, Zenon DEF SendAck, Emit, TypeOK
<1>3. seg.ack = rcvNxt /\ seg.win = AdvertisedWindow /\ ~Carries(seg)
  BY <1>2, Zenon DEF AckSegment, Carries
<1>4. DownStream'
  <2>1. Stream(toDev', devRcvNxt, DevRcvd, HostBytes, sentFin # NoSeq)
    BY <1>0, <1>2, <1>3, StreamPass, ZenonT(30) DEF DownStream, TypeOK
  <2>2. UNCHANGED <<devRcvNxt, DevRcvd, HostBytes, sentFin>>
    BY <1>1, Kept, Zenon DEF HostSendSame, DevRecvSame
  <2> QED BY <2>1, <2>2, Zenon DEF DownStream
<1>5. DownReceived' /\ DownAcks' /\ DownWindow'
  <2>1. Quiet(toHost, toHost')
    BY Zenon DEF Quiet
  <2> QED BY <1>0, <1>1, <2>1, DownReceivedKept, DownAcksKept, DownWindowKept, Zenon
<1>6. UpReceived' /\ UpStream' /\ UpAcks' /\ UpWindow'
  BY <1>0, <1>1, <1>2, <1>3, UpAfterHostSends, Zenon DEF HostSendSame
<1> QED BY <1>0, <1>4, <1>5, <1>6, Zenon DEF Met

LEMMA MetRetransmitFin ==
    ASSUME FlightInv, StreamContiguous, DevTypes, Met, RetransmitFin,
           UNCHANGED <<devVars, toHost>>
    PROVE  Met'
<1> USE DEF sendVars, windowVars, recvVars, appVars, devVars
<1>0. /\ TypeOK /\ DownReceived /\ DownStream /\ DownAcks /\ DownWindow
      /\ UNCHANGED <<state, sndUna, sndWndEdge, peerWindow, rcvNxt, toHost, sentFin>>
      /\ state = "Established" /\ sentFin # NoSeq /\ sndUna = sentFin
      /\ unacknowledged = <<>> /\ sndNxt = SeqAdd(sndUna, 1)
  BY Zenon DEF FlightInv, Met, RetransmitFin, FinIsLast
<1>1. HostSendSame /\ HostRecvSame /\ DevRecvSame /\ DevSendSame /\ UNCHANGED HostBytes
  BY Zenon DEF RetransmitFin, HostSendSame, HostRecvSame, DevRecvSame, DevSendSame, HostBytes
<1>2. PICK seg \in Segment : seg = AckSegment(sndUna, {"FIN"}, <<>>) /\ toDev' = Append(toDev, seg)
  BY <1>0, EmptySegmentType, Zenon DEF RetransmitFin, Emit, TypeOK
<1>3. /\ seg.ack = rcvNxt /\ seg.win = AdvertisedWindow /\ seg.seq = sndUna /\ seg.payload = <<>>
      /\ "FIN" \in seg.flags /\ Len(seg.payload) = 0
  BY <1>2, Zenon DEF AckSegment
<1>4. PICK b \in Nat, r \in Nat : b = HostBytes /\ r = DevRcvd
  BY <1>0, DownNumbers, Zenon
<1>5. HostAcked = b /\ HostSent = b + 1 /\ b <= r /\ r <= b + 1
  <2>1. InFlight = 1
    BY <1>0, Spaces, InSpace DEF InFlight, SeqSub, SeqAdd, TypeOK
  <2>2. HostSent = b + 1
    BY <1>0, <1>4, Zenon DEF HostSent, Bit
  <2>3. HostAcked = b
    BY <2>1, <2>2 DEF HostAcked
  <2>4. r <= HostSent /\ HostAcked <= r
    BY <1>0, <1>4, DownNumbers, Zenon DEF DownAcks
  <2> QED BY <2>2, <2>3, <2>4, Zenon
<1>6. b <= Len(devGot) + DevFree
  BY <1>0, <1>4, Zenon DEF DownReceived
<1>7. UNCHANGED HostAcked
  BY <1>1, Kept, Zenon
<1>8. Carries(seg) /\ Start(seg, b) = b
  BY <1>3, Zenon DEF Carries, Start
<1>9. 1 <= MaxWindow
  <2>1. InFlight = 1 /\ InFlight <= MaxWindow
    BY <1>0, Spaces, InSpace DEF InFlight, SeqSub, SeqAdd, TypeOK, FlightInv, FlightFitsWindow
  <2> QED BY <2>1, Zenon
<1>10. Placed(seg, devRcvNxt, DevRcvd, b, sentFin' # NoSeq)
  <2>1. Apart(sndUna, devRcvNxt, b - r)
    BY <1>0, <1>4, <1>5, HostApart, ZenonT(30)
  <2>2. b + 0 = b /\ b + 0 <= b /\ r - MaxWindow <= b /\ b <= r + MaxWindow
    BY <1>5, <1>9, Spaces
  <2> QED BY <1>0, <1>3, <1>4, <1>8, <2>1, <2>2 DEF Placed
<1>11. HostSent <= Start(seg, b) + MaxWindow
  BY <1>5, <1>8, <1>9, Spaces
<1>12. HostBytes' = b /\ HostBytes <= b
  BY <1>1, <1>4
<1>13. DownReceived' /\ DownStream' /\ DownAcks' /\ DownWindow'
  BY <1>0, <1>1, <1>2, <1>6, <1>7, <1>8, <1>10, <1>11, <1>12, DownAfterHostSends, ZenonT(30)
<1>14. UpReceived' /\ UpStream' /\ UpAcks' /\ UpWindow'
  BY <1>0, <1>1, <1>2, <1>3, UpAfterHostSends, Zenon
<1> QED BY <1>0, <1>13, <1>14, Zenon DEF Met

LEMMA MetRetransmitData ==
    ASSUME FlightInv, StreamContiguous, DevTypes, Met, RetransmitData,
           UNCHANGED <<devVars, toHost>>
    PROVE  Met'
<1> USE DEF sendVars, windowVars, recvVars, appVars, devVars
<1>0. /\ TypeOK /\ DownReceived /\ DownStream /\ DownAcks /\ DownWindow
      /\ UNCHANGED <<state, sndUna, sndWndEdge, peerWindow, rcvNxt, toHost, sentFin>>
      /\ state = "Established" /\ unacknowledged # <<>>
  BY Zenon DEF FlightInv, Met, RetransmitData
<1>1. HostSendSame /\ HostRecvSame /\ DevRecvSame /\ DevSendSame /\ UNCHANGED HostBytes
  BY Zenon DEF RetransmitData, HostSendSame, HostRecvSame, DevRecvSame, DevSendSame, HostBytes
<1>2. PICK t \in Nat : /\ t = Least(Least(Len(unacknowledged), Mss), Room)
                       /\ t \in 1 .. Len(unacknowledged)
  <2>1. Len(unacknowledged) \in Nat \ {0} /\ Mss \in Nat \ {0}
    BY <1>0, EmptySeq, SizeAssumption DEF TypeOK
  <2>2. Room \in Nat \ {0}
    BY <1>0, SubType, Spaces DEF Room, RetransmitData, TypeOK
  <2> QED BY <2>1, <2>2 DEF Least
<1>3. PICK p \in Seq(Nat) : p = Front(unacknowledged, t)
  BY <1>0, <1>2, SplitType, HostNumbers DEF TypeOK
<1>4. PICK seg \in Segment : seg = AckSegment(sndUna, {}, p) /\ toDev' = Append(toDev, seg)
  BY <1>0, <1>2, <1>3, AckSegmentType, ZenonT(30) DEF RetransmitData, Emit, TypeOK
<1>5. /\ seg.ack = rcvNxt /\ seg.win = AdvertisedWindow /\ seg.seq = sndUna /\ seg.payload = p
      /\ "FIN" \notin seg.flags
  BY <1>4, Zenon DEF AckSegment
<1>6. PICK b \in Nat, m \in Nat, u \in Nat, r \in Nat :
        /\ b = HostBytes /\ m = InFlight /\ u = HostAcked /\ r = DevRcvd
  BY <1>0, DownNumbers, HostNumbers, Zenon
<1>7. /\ HostSent = u + m /\ m <= MaxWindow /\ r <= u + m /\ u <= r /\ r <= u + MaxWindow
      /\ u = b - Len(unacknowledged)
  <2>1. HostSent = u + m /\ r <= HostSent /\ r - u \in 0 .. MaxWindow /\ m \in 0 .. MaxWindow
    BY <1>0, <1>6, DownNumbers, Zenon
  <2>2. u = b - Len(unacknowledged)
    BY <1>0, <1>6, UnackedStart, Zenon
  <2> QED BY <2>1, <2>2, Spaces
<1>8. Len(p) = t /\ \A k \in 1 .. t : p[k] = u + k
  <2>1. /\ unacknowledged \in Seq(Nat) /\ t \in 0 .. Len(unacknowledged)
        /\ DOMAIN unacknowledged = 1 .. Len(unacknowledged)
    BY <1>0, <1>2, HostNumbers DEF TypeOK
  <2>2. Len(p) = t /\ \A k \in 1 .. t : p[k] = unacknowledged[k]
    BY <1>3, <2>1, SplitType, Zenon
  <2>3. \A k \in 1 .. Len(unacknowledged) : unacknowledged[k] = u + k
    BY <1>6, <1>7, <2>1, Zenon DEF StreamContiguous, HostBytes
  <2>4. \A k \in 1 .. t : k \in 1 .. Len(unacknowledged)
    BY <1>2, <2>1
  <2> QED BY <2>2, <2>3, <2>4, ZenonT(30)
<1>9. b <= Len(devGot) + DevFree
  BY <1>0, <1>6, Zenon DEF DownReceived
<1>10. UNCHANGED HostAcked
  BY <1>1, Kept, Zenon
<1>11. Carries(seg) /\ Start(seg, b) = u /\ p # <<>>
  <2>1. p[1] = u + 1 /\ p # <<>>
    BY <1>2, <1>8
  <2> QED BY <1>5, <2>1 DEF Carries, Start
<1>12. Placed(seg, devRcvNxt, DevRcvd, b, sentFin' # NoSeq)
  <2>1. Apart(sndUna, devRcvNxt, u - r)
    BY <1>0, <1>6, HostApart, Zenon
  <2>2. u + t <= b /\ r - MaxWindow <= u /\ u <= r + MaxWindow
    BY <1>2, <1>7, Spaces
  <2> QED BY <1>5, <1>6, <1>8, <1>11, <2>1, <2>2, Zenon DEF Placed
<1>13. HostSent <= Start(seg, b) + MaxWindow
  BY <1>7, <1>11, Spaces
<1>14. HostBytes' = b /\ HostBytes <= b
  BY <1>1, <1>6
<1>15. DownReceived' /\ DownStream' /\ DownAcks' /\ DownWindow'
  BY <1>0, <1>1, <1>4, <1>9, <1>10, <1>11, <1>12, <1>13, <1>14, DownAfterHostSends, ZenonT(30)
<1>16. UpReceived' /\ UpStream' /\ UpAcks' /\ UpWindow'
  BY <1>0, <1>1, <1>4, <1>5, UpAfterHostSends, ZenonT(30)
<1> QED BY <1>0, <1>15, <1>16, Zenon DEF Met

-----------------------------------------------------------------------------
(* The device's sends.                                                     *)

LEMMA PointOf ==
    ASSUME NEW x \in SeqSpace, NEW una \in SeqSpace, NEW ahead \in Nat, ahead <= MaxWindow,
           Apart(x, una, ahead)
    PROVE  /\ SeqSub(x, una) = ahead /\ Point(x, una) = ahead
           /\ SeqSub(SeqAdd(x, MaxWindow + 1), una) = ahead + MaxWindow + 1
           /\ Point(SeqAdd(x, MaxWindow + 1), una) = ahead
<1>1. SeqSub(x, una) = ahead
  BY Spaces, ApartSub
<1>2. SeqSub(SeqAdd(x, MaxWindow + 1), una) = ahead + MaxWindow + 1
  BY <1>1, Spaces, InSpace DEF SeqSub, SeqAdd
<1> QED BY <1>1, <1>2, Spaces DEF Point

LEMMA FlightGrows ==
    ASSUME NEW una \in SeqSpace, NEW nxt \in SeqSpace, NEW n \in Nat,
           SeqSub(nxt, una) + n <= MaxWindow
    PROVE  SeqAdd(nxt, n) \in SeqSpace /\ SeqSub(SeqAdd(nxt, n), una) = SeqSub(nxt, una) + n
BY Spaces, InSpace DEF SeqSub, SeqAdd

\* What it sends acknowledges what it has received and offers the room it has,
\* unless it is a stray acknowledgement.
LEMMA DownAfterDevSends ==
    ASSUME FlightInv, DevTypes, Met, UNCHANGED vars, DevRecvSame, NEW seg \in Segment,
           toHost' = Append(toHost, seg),
           \/ seg.ack = devRcvNxt /\ seg.win <= DevFree
           \/ seg.ack = SeqAdd(devRcvNxt, MaxWindow + 1)
    PROVE  DownReceived' /\ DownStream' /\ DownAcks' /\ DownWindow'
<1>1. TypeOK /\ DownReceived /\ DownStream /\ DownAcks /\ DownWindow
  BY Zenon DEF FlightInv, Met
<1>2. /\ HostSendSame /\ HostRecvSame /\ Anchored /\ UNCHANGED <<Live, HostUna>>
      /\ UNCHANGED <<toDev, state>>
  BY HostUntouched, Zenon DEF vars
<1>3. DownReceived' /\ DownStream' /\ DownWindow'
  <2>1. Quiet(toDev, toDev')
    BY <1>2, Zenon DEF Quiet
  <2> QED BY <1>1, <1>2, <2>1, DownReceivedKept, DownStreamKept, DownWindowKept, Zenon
<1>4. UNCHANGED <<DevRcvd, HostAcked, DevFree, devRcvNxt>>
  BY <1>2, Kept, Zenon DEF DevRecvSame
<1>5. ASSUME Live
      PROVE  Acks(toHost', HostUna, DevRcvd - HostAcked, DevRcvd - HostAcked + DevFree)
  <2>1. PICK ahead \in Nat, free \in Nat, win \in Nat :
          ahead = DevRcvd - HostAcked /\ free = DevFree /\ win = seg.win
    <3>1. DevRcvd - HostAcked \in 0 .. MaxWindow
      BY <1>1, DownNumbers, Zenon
    <3> QED BY <3>1, DevNumbers, SegmentType, Spaces
  <2>2. ahead <= MaxWindow
    BY <1>1, <2>1, DownNumbers
  <2>3. /\ HostUna \in SeqSpace /\ devRcvNxt \in SeqSpace /\ Apart(devRcvNxt, HostUna, ahead)
        /\ toHost \in Seq(Segment) /\ Acks(toHost, HostUna, ahead, ahead + free)
    BY <1>1, <1>5, <2>1, HostNumbers, Zenon DEF DownAcks, DevTypes
  <2>4. /\ SeqSub(devRcvNxt, HostUna) = ahead /\ Point(devRcvNxt, HostUna) = ahead
        /\ SeqSub(SeqAdd(devRcvNxt, MaxWindow + 1), HostUna) = ahead + MaxWindow + 1
        /\ Point(SeqAdd(devRcvNxt, MaxWindow + 1), HostUna) = ahead
    BY <2>2, <2>3, PointOf, Zenon
  <2>5. /\ ahead <= 2 * MaxWindow + 1 /\ ahead + MaxWindow + 1 <= 2 * MaxWindow + 1
        /\ ahead + MaxWindow + 1 > MaxWindow /\ ahead <= ahead /\ ahead + free \in Int
    BY <2>2, Spaces
  <2>6. CASE seg.ack = devRcvNxt /\ seg.win <= DevFree
    <3>1. ahead + win <= ahead + free
      BY <2>1, <2>6
    <3>2. Acknowledges(seg, HostUna, ahead, ahead + free)
      BY <2>1, <2>4, <2>5, <2>6, <3>1, Zenon DEF Acknowledges
    <3> QED BY <2>1, <2>3, <2>4, <2>5, <2>6, <3>2, AcksAppend, Zenon
  <2>7. CASE seg.ack = SeqAdd(devRcvNxt, MaxWindow + 1)
    <3>1. ~(ahead + MaxWindow + 1 <= MaxWindow)
      BY <2>5, Spaces
    <3>2. Acknowledges(seg, HostUna, ahead, ahead + free)
      BY <2>4, <2>5, <2>7, <3>1, Zenon DEF Acknowledges
    <3> QED BY <2>1, <2>3, <2>4, <2>5, <2>7, <3>2, AcksAppend, ZenonT(30)
  <2> QED BY <2>6, <2>7, Zenon
<1>6. DownAcks'
  BY <1>1, <1>2, <1>4, <1>5, Zenon DEF DownAcks
<1> QED BY <1>3, <1>6, Zenon

LEMMA UpAfterDevAcks ==
    ASSUME TypeOK, DevTypes, Met, UNCHANGED vars, DevSendSame, NEW seg \in Segment,
           ~Carries(seg), toHost' = Append(toHost, seg)
    PROVE  UpReceived' /\ UpStream' /\ UpAcks' /\ UpWindow'
<1>1. UpReceived /\ UpStream /\ UpAcks /\ UpWindow
  BY Zenon DEF Met
<1>2. /\ HostRecvSame /\ Anchored /\ UNCHANGED <<Live, HostExpects, toDev>>
  BY HostUntouched, Zenon DEF vars
<1>3. UpReceived' /\ UpAcks' /\ UpWindow'
  <2>1. Quiet(toDev, toDev')
    BY <1>2, Zenon DEF Quiet
  <2> QED BY <1>1, <1>2, <2>1, UpReceivedKept, UpAcksKept, UpWindowKept, Zenon
<1>4. UpStream'
  <2>1. Live => Stream(toHost', HostExpects, HostRcvd, devSent, devFin # NoSeq)
    BY <1>1, StreamPass, Zenon DEF UpStream, DevTypes
  <2>2. UNCHANGED <<HostRcvd, devSent, devFin>>
    BY <1>2, Kept, Zenon DEF DevSendSame
  <2> QED BY <1>2, <2>1, <2>2, Zenon DEF UpStream
<1> QED BY <1>3, <1>4, Zenon

\* It carries the device's next bytes or its FIN, or repeats what is in flight.
LEMMA UpAfterDevSends ==
    ASSUME TypeOK, DevTypes, Met, UNCHANGED <<vars, devSndUna, devEdge, DevAcked>>,
           NEW seg \in Segment, Carries(seg), toHost' = Append(toHost, seg),
           NEW more \in Nat, devSent' = more, devSent <= more,
           more <= Len(taken) + ReceiveWindow,
           devFin # NoSeq => UNCHANGED <<devFin, devSent>>,
           Live => Placed(seg, HostExpects, HostRcvd, more, devFin' # NoSeq),
           DevUsed <= Start(seg, more) + MaxWindow, DevFlight' <= MaxWindow
    PROVE  UpReceived' /\ UpStream' /\ UpAcks' /\ UpWindow'
<1>1. UpReceived /\ UpStream /\ UpAcks /\ UpWindow
  BY Zenon DEF Met
<1>2. /\ HostRecvSame /\ UNCHANGED <<Live, HostExpects, toDev, HostRcvd, HostFree>>
  BY HostUntouched, Kept, Zenon DEF vars
<1>3. UNCHANGED <<taken, inbound, peerFin>>
  BY <1>2, Zenon DEF HostRecvSame
<1>4. UpReceived'
  <2>1. PICK a \in Nat, b \in Nat, c \in Nat : a = Len(taken) /\ b = Len(inbound) /\ c = devSent
    BY HostNumbers, Zenon DEF DevTypes
  <2>2. a + b <= c /\ (peerFin # NoSeq => devFin # NoSeq /\ a + b = c)
    BY <1>1, <2>1, Zenon DEF UpReceived
  <2>3. a + b <= more /\ (peerFin # NoSeq => devFin' # NoSeq /\ a + b = more)
    BY <2>1, <2>2
  <2> QED BY <1>1, <1>3, <2>1, <2>3, Zenon DEF UpReceived
<1>5. UpAcks'
  BY <1>1, <1>2, Zenon DEF UpAcks
<1>6. UpWindow'
  BY <1>1, <1>2, Zenon DEF UpWindow
<1>7. UpStream'
  <2> SUFFICES ASSUME Live
               PROVE  Stream(toHost', HostExpects, HostRcvd, more, devFin' # NoSeq)
    BY <1>2, Zenon DEF UpStream
  <2>1. toHost \in Seq(Segment) /\ devSent \in Nat /\ HostRcvd \in Nat
    BY HostNumbers, Zenon DEF DevTypes
  <2>2. PICK shut \in BOOLEAN, b \in BOOLEAN : (shut <=> devFin # NoSeq) /\ (b <=> devFin' # NoSeq)
    BY Zenon
  <2>3. /\ Stream(toHost, HostExpects, HostRcvd, devSent, shut)
        /\ Placed(seg, HostExpects, HostRcvd, more, b)
        /\ devSent + Bit(shut) <= Start(seg, more) + MaxWindow
        /\ shut => more = devSent /\ b
    BY <1>1, <2>2, Zenon DEF UpStream, DevUsed, Stream, Placed, Bit
  <2>4. Stream(Append(toHost, seg), HostExpects, HostRcvd, more, b)
    BY <2>1, <2>3, StreamSend, Zenon
  <2> QED BY <2>2, <2>4, Zenon DEF Stream, Placed
<1> QED BY <1>4, <1>5, <1>6, <1>7, Zenon

\* A segment of the device: its window is rounded down, so its buffer holds it.
LEMMA DevSegmentIs ==
    ASSUME DevTypes, NEW seq \in SeqSpace, NEW flags \in SUBSET Flags, NEW p \in Seq(Nat),
           NEW seg, seg = DevSegment(seq, flags, p)
    PROVE  /\ seg \in Segment /\ seg.flags = flags /\ seg.seq = seq /\ seg.payload = p
           /\ seg.ack = devRcvNxt /\ seg.win <= DevFree /\ seg.win <= MaxWindow
<1>1. DevFree \in Nat /\ OnWire(DevFree) \in 0 .. DevFree /\ DevFree <= MaxWindow
  <2>1. DevFree \in Nat /\ DevFree \in 0 .. DevCap /\ DevCap \in 0 .. MaxWindow
    BY DevNumbers, Zenon
  <2>2. OnWire(DevFree) \in 0 .. DevFree
    BY <2>1, WireWindow, Zenon
  <2> QED BY <2>1, <2>2, Spaces
<1>2. /\ seg.flags = flags /\ seg.seq = seq /\ seg.payload = p
      /\ seg.ack = devRcvNxt /\ seg.win = OnWire(DevFree)
  BY Zenon DEF DevSegment, DevFree
<1>3. seg \in Segment
  BY <1>1 DEF DevSegment, DevFree, Segment, DevTypes
<1> QED BY <1>1, <1>2, <1>3, Spaces

LEMMA DevEmptyIs ==
    ASSUME DevTypes, NEW flags \in SUBSET Flags, NEW seg, seg = DevSegment(devSndNxt, flags, <<>>)
    PROVE  /\ seg \in Segment /\ seg.flags = flags /\ seg.seq = devSndNxt /\ seg.payload = <<>>
           /\ seg.ack = devRcvNxt /\ seg.win <= DevFree /\ seg.win <= MaxWindow
<1>1. <<>> \in Seq(Nat) /\ devSndNxt \in SeqSpace
  BY DEF DevTypes
<1>2. PICK p : p = <<>>
  BY Zenon
<1>3. p \in Seq(Nat) /\ seg = DevSegment(devSndNxt, flags, p)
  BY <1>1, <1>2, Zenon
<1>4. /\ seg \in Segment /\ seg.flags = flags /\ seg.seq = devSndNxt /\ seg.payload = p
      /\ seg.ack = devRcvNxt /\ seg.win <= DevFree /\ seg.win <= MaxWindow
  BY <1>1, <1>3, DevSegmentIs
<1> QED BY <1>2, <1>4, Zenon

LEMMA MetDevAck ==
    ASSUME FlightInv, DevTypes, Met, DevAck
    PROVE  Met'
<1>1. DevRecvSame /\ DevSendSame /\ UNCHANGED vars /\ devState' = devState
  BY Zenon DEF DevAck, DevRecvSame, DevSendSame
<1>2. PICK seg : seg = DevSegment(devSndNxt, {"ACK"}, <<>>) /\ toHost' = Append(toHost, seg)
  BY Zenon DEF DevAck, ToHost
<1>3. seg \in Segment /\ seg.ack = devRcvNxt /\ seg.win <= DevFree /\ ~Carries(seg)
  <2>1. /\ seg \in Segment /\ seg.ack = devRcvNxt /\ seg.win <= DevFree
        /\ seg.flags = {"ACK"} /\ seg.payload = <<>>
    BY <1>2, KnownFlags, DevEmptyIs, Zenon
  <2> QED BY <2>1, Zenon DEF Carries
<1>4. DownReceived' /\ DownStream' /\ DownAcks' /\ DownWindow'
  BY <1>1, <1>2, <1>3, DownAfterDevSends, Zenon
<1>5. UpReceived' /\ UpStream' /\ UpAcks' /\ UpWindow'
  BY <1>1, <1>2, <1>3, UpAfterDevAcks, Zenon DEF FlightInv
<1> QED BY <1>1, <1>4, <1>5, HostUntouched, Zenon DEF Met, vars

LEMMA MetDevStray ==
    ASSUME FlightInv, DevTypes, Met, DevStray
    PROVE  Met'
<1>1. DevRecvSame /\ DevSendSame /\ UNCHANGED vars /\ devState' = devState
  BY Zenon DEF DevStray, DevRecvSame, DevSendSame, devVars
<1>2. SeqAdd(devRcvNxt, MaxWindow + 1) \in SeqSpace
  BY AddType, Spaces DEF DevTypes
<1>3. PICK seg \in Segment :
        /\ toHost' = Append(toHost, seg) /\ ~Carries(seg)
        /\ \/ seg.ack = devRcvNxt /\ seg.win <= DevFree
           \/ seg.ack = SeqAdd(devRcvNxt, MaxWindow + 1)
  <2>1. CASE ToHost(DevSegment(devSndNxt, {"PSH", "ACK"}, <<>>))
    <3>1. PICK seg : seg = DevSegment(devSndNxt, {"PSH", "ACK"}, <<>>) /\ toHost' = Append(toHost,
    seg)
      BY <2>1, Zenon DEF ToHost
    <3>2. seg \in Segment /\ seg.ack = devRcvNxt /\ seg.win <= DevFree /\ ~Carries(seg)
      <4>1. /\ seg \in Segment /\ seg.ack = devRcvNxt /\ seg.win <= DevFree
            /\ seg.flags = {"PSH", "ACK"} /\ seg.payload = <<>>
        BY <3>1, KnownFlags, DevEmptyIs, Zenon
      <4> QED BY <4>1, Zenon DEF Carries
    <3> QED BY <3>1, <3>2, Zenon
  <2>2. CASE ToHost([DevSegment(devSndNxt, {"ACK"}, <<>>)
                        EXCEPT !.ack = SeqAdd(devRcvNxt, MaxWindow + 1)])
    <3>1. PICK old : old = DevSegment(devSndNxt, {"ACK"}, <<>>)
      BY Zenon
    <3>2. old \in Segment /\ ~Carries(old)
      <4>1. old \in Segment /\ old.flags = {"ACK"} /\ old.payload = <<>>
        BY <3>1, KnownFlags, DevEmptyIs, Zenon
      <4> QED BY <4>1, Zenon DEF Carries
    <3>3. PICK seg : /\ seg = [old EXCEPT !.ack = SeqAdd(devRcvNxt, MaxWindow + 1)]
                     /\ toHost' = Append(toHost, seg)
      BY <2>2, <3>1, Zenon DEF ToHost
    <3>4. seg \in Segment /\ ~Carries(seg) /\ seg.ack = SeqAdd(devRcvNxt, MaxWindow + 1)
      BY <1>2, <3>2, <3>3, Zenon DEF Segment, Carries
    <3> QED BY <3>3, <3>4, Zenon
  <2> QED BY <2>1, <2>2, Zenon DEF DevStray
<1>4. DownReceived' /\ DownStream' /\ DownAcks' /\ DownWindow'
  BY <1>1, <1>3, DownAfterDevSends, Zenon
<1>5. UpReceived' /\ UpStream' /\ UpAcks' /\ UpWindow'
  BY <1>1, <1>3, UpAfterDevAcks, Zenon DEF FlightInv
<1> QED BY <1>1, <1>4, <1>5, HostUntouched, Zenon DEF Met, vars

\* The device's room is what the last window it heard leaves beyond its flight.
LEMMA DevWindow ==
    ASSUME DevTypes, UpWindow, DevRoom > 0
    PROVE  \E w \in 0 .. MaxWindow :
              /\ w <= HostRcvd - DevAcked + HostFree /\ DevRoom = w - DevFlight
<1>1. PICK w \in 0 .. MaxWindow :
        devEdge = SeqAdd(devSndUna, w) /\ w <= HostRcvd - DevAcked + HostFree
  BY Zenon DEF UpWindow
<1>2. devSndUna \in SeqSpace /\ devSndNxt \in SeqSpace /\ SeqSub(devSndNxt, devSndUna) <= MaxWindow
  BY Zenon DEF DevTypes, UpWindow, DevFlight
<1>3. SeqGt(devEdge, devSndNxt) => SeqSub(devEdge, devSndNxt) = w - DevFlight
  BY <1>1, <1>2, RoomIs, Zenon DEF DevFlight
<1> QED BY <1>1, <1>3 DEF DevRoom

\* What fits its room, the host has room for, if the device has not shut.
LEMMA DevFits ==
    ASSUME TypeOK, DevTypes, UpReceived, UpAcks, UpWindow, devFin = NoSeq,
           NEW n \in Nat \ {0}, n <= DevRoom
    PROVE  /\ DevFlight + n <= MaxWindow
           /\ devSent + n <= Len(taken) + ReceiveWindow
<1>1. PICK m \in Nat, a \in Nat, b \in Nat, s \in Nat, rw \in Nat :
        /\ m = DevFlight /\ a = Len(taken) /\ b = Len(inbound) /\ s = devSent
        /\ rw = ReceiveWindow
  <2>1. DevFlight \in Nat /\ Len(taken) \in Nat /\ Len(inbound) \in Nat
    BY DevNumbers, HostNumbers, Zenon
  <2> QED BY <2>1, SizeAssumption, Zenon DEF DevTypes
<1>2. DevAcked = s - m /\ HostRcvd = a + b /\ HostFree = rw - b
  <2>1. peerFin = NoSeq
    BY Zenon DEF UpReceived
  <2> QED BY <1>1, <2>1 DEF DevAcked, DevUsed, HostRcvd, HostFree, Bit
<1>3. DevRoom > 0
  <2>1. DevRoom \in Int
    <3>1. PICK w \in 0 .. MaxWindow : devEdge = SeqAdd(devSndUna, w)
      BY Zenon DEF UpWindow
    <3>2. devEdge \in SeqSpace
      BY <3>1, AddType, Spaces DEF DevTypes
    <3>3. SeqSub(devEdge, devSndNxt) \in 0 .. SeqMod - 1
      BY <3>2, SubType, Zenon DEF DevTypes
    <3> QED BY <3>3, Spaces DEF DevRoom
  <2> QED BY <2>1
<1>4. PICK w \in 0 .. MaxWindow :
        w <= HostRcvd - DevAcked + HostFree /\ DevRoom = w - DevFlight
  BY <1>3, DevWindow, Zenon
<1>5. w <= (a + b) - (s - m) + (rw - b) /\ n <= w - m /\ w <= MaxWindow
  BY <1>1, <1>2, <1>4
<1> QED BY <1>1, <1>5, Spaces

LEMMA MetDevSend ==
    ASSUME FlightInv, DevTypes, Met, NEW n \in Nat \ {0}, DevSend(n)
    PROVE  Met'
<1>0. TypeOK /\ UpReceived /\ UpStream /\ UpAcks /\ UpWindow
  BY Zenon DEF FlightInv, Met
<1>1. /\ DevRecvSame /\ UNCHANGED <<vars, devSndUna, devEdge, devFin>> /\ devState' = devState
      /\ devFin = NoSeq /\ n <= DevRoom
  BY Zenon DEF DevSend, DevRecvSame
<1>2. PICK s \in Nat, m \in Nat, u \in Nat, r \in Nat :
        /\ s = devSent /\ m = DevFlight /\ u = DevAcked /\ r = HostRcvd
  <2>1. devSent \in Nat /\ DevFlight \in Nat /\ DevAcked \in Nat /\ HostRcvd \in Nat
    BY <1>0, UpNumbers, DevNumbers, HostNumbers, Zenon
  <2> QED BY <2>1, Zenon
<1>3. /\ m + n <= MaxWindow /\ s + n <= Len(taken) + ReceiveWindow
  BY <1>0, <1>1, <1>2, DevFits, ZenonT(30)
<1>4. DevUsed = s /\ s = u + m /\ r <= s /\ u <= r /\ r <= u + MaxWindow
  <2>1. DevUsed = s
    BY <1>1, <1>2 DEF DevUsed, Bit
  <2>2. u = s - m
    BY <1>2, <2>1, Zenon DEF DevAcked
  <2>3. r <= DevUsed /\ r - u \in 0 .. MaxWindow
    BY <1>0, <1>2, UpNumbers, Zenon
  <2> QED BY <2>1, <2>2, <2>3, Spaces
<1>5. PICK p : p = [i \in 1 .. n |-> s + i]
  BY Zenon
<1>6. p \in Seq(Nat) /\ Len(p) = n /\ \A k \in 1 .. n : p[k] = s + k
  BY <1>5, BytesFrom
<1>7. PICK seg : seg = DevSegment(devSndNxt, {"ACK"}, p) /\ toHost' = Append(toHost, seg)
  BY <1>2, <1>5, Zenon DEF DevSend, ToHost
<1>8. /\ seg \in Segment /\ seg.ack = devRcvNxt /\ seg.win <= DevFree /\ seg.seq = devSndNxt
      /\ seg.payload = p /\ "FIN" \notin seg.flags
  <2>1. devSndNxt \in SeqSpace /\ {"ACK"} \in SUBSET Flags /\ "FIN" \notin {"ACK"}
    BY Zenon DEF DevTypes, Flags
  <2> QED BY <1>6, <1>7, <2>1, DevSegmentIs
<1>9. PICK more \in Nat : more = s + n
  OBVIOUS
<1>10. devSent' = more /\ s <= more /\ more <= Len(taken) + ReceiveWindow
  BY <1>2, <1>3, <1>9 DEF DevSend
<1>11. DevFlight' = m + n /\ UNCHANGED DevAcked /\ DevFlight' <= MaxWindow
  <2>1. DevFlight' = m + n
    <3>1. devSndUna \in SeqSpace /\ devSndNxt \in SeqSpace /\ devSndNxt' = SeqAdd(devSndNxt, n)
      BY Zenon DEF DevTypes, DevSend
    <3> QED BY <1>1, <1>2, <1>3, <3>1, FlightGrows, ZenonT(30) DEF DevFlight
  <2>2. DevUsed' = more
    BY <1>1, <1>10 DEF DevUsed, Bit
  <2>3. DevAcked' = more - (m + n)
    BY <2>1, <2>2, ZenonT(30) DEF DevAcked
  <2> QED BY <1>2, <1>3, <1>4, <1>9, <2>1, <2>3
<1>12. Carries(seg) /\ Start(seg, more) = s
  <2>1. p # <<>> /\ p[1] = s + 1
    BY <1>6
  <2> QED BY <1>8, <2>1 DEF Carries, Start
<1>13. ASSUME Live PROVE Placed(seg, HostExpects, HostRcvd, more, devFin' # NoSeq)
  <2>1. Apart(devSndNxt, HostExpects, s - r)
    BY <1>0, <1>2, <1>4, <1>13, DevApart, ZenonT(30)
  <2>2. s + n <= more /\ r - MaxWindow <= s /\ s <= r + MaxWindow
    BY <1>3, <1>4, <1>9, Spaces
  <2> QED BY <1>2, <1>6, <1>8, <1>12, <2>1, <2>2, ZenonT(30) DEF Placed
<1>14. DevUsed <= Start(seg, more) + MaxWindow
  BY <1>4, <1>12, Spaces
<1>15. DownReceived' /\ DownStream' /\ DownAcks' /\ DownWindow'
  BY <1>1, <1>7, <1>8, DownAfterDevSends, ZenonT(30)
<1>16. UpReceived' /\ UpStream' /\ UpAcks' /\ UpWindow'
  BY <1>0, <1>1, <1>2, <1>7, <1>8, <1>10, <1>11, <1>12, <1>13, <1>14, UpAfterDevSends, ZenonT(30)
<1> QED BY <1>1, <1>15, <1>16, HostUntouched, Zenon DEF Met, vars

LEMMA MetDevSendFin ==
    ASSUME FlightInv, DevTypes, Met, DevSendFin
    PROVE  Met'
<1>0. TypeOK /\ UpReceived /\ UpStream /\ UpAcks /\ UpWindow
  BY Zenon DEF FlightInv, Met
<1>1. /\ DevRecvSame /\ UNCHANGED <<vars, devSndUna, devEdge, devSent>> /\ devState' = devState
      /\ devFin = NoSeq /\ devFin' # NoSeq
  BY SequenceAssumption, Zenon DEF DevSendFin, DevRecvSame, DevTypes
<1>2. PICK s \in Nat, m \in Nat, u \in Nat, r \in Nat :
        /\ s = devSent /\ m = DevFlight /\ u = DevAcked /\ r = HostRcvd
  <2>1. devSent \in Nat /\ DevFlight \in Nat /\ DevAcked \in Nat /\ HostRcvd \in Nat
    BY <1>0, UpNumbers, DevNumbers, HostNumbers, Zenon
  <2> QED BY <2>1, Zenon
<1>3. m + 1 <= MaxWindow
  <2>1. DevRoom > 0
    BY Zenon DEF DevSendFin
  <2>2. PICK w \in 0 .. MaxWindow : DevRoom = w - m
    BY <1>0, <1>2, <2>1, DevWindow, ZenonT(30)
  <2> QED BY <2>1, <2>2, Spaces
<1>4. DevUsed = s /\ s = u + m /\ r <= s /\ u <= r /\ r <= u + MaxWindow
  <2>1. DevUsed = s
    BY <1>1, <1>2 DEF DevUsed, Bit
  <2>2. u = s - m
    BY <1>2, <2>1, Zenon DEF DevAcked
  <2>3. r <= DevUsed /\ r - u \in 0 .. MaxWindow
    BY <1>0, <1>2, UpNumbers, Zenon
  <2> QED BY <2>1, <2>2, <2>3, Spaces
<1>5. PICK seg : seg = DevSegment(devSndNxt, {"FIN", "ACK"}, <<>>) /\ toHost' = Append(toHost, seg)
  BY Zenon DEF DevSendFin, ToHost
<1>6. /\ seg \in Segment /\ seg.ack = devRcvNxt /\ seg.win <= DevFree /\ seg.seq = devSndNxt
      /\ seg.payload = <<>> /\ "FIN" \in seg.flags /\ Len(seg.payload) = 0
  <2>1. /\ seg \in Segment /\ seg.ack = devRcvNxt /\ seg.win <= DevFree /\ seg.seq = devSndNxt
        /\ seg.payload = <<>> /\ seg.flags = {"FIN", "ACK"}
    BY <1>5, KnownFlags, DevEmptyIs, Zenon
  <2> QED BY <2>1, Zenon
<1>7. s <= Len(taken) + ReceiveWindow
  BY <1>0, <1>2, Zenon DEF UpReceived
<1>8. DevFlight' = m + 1 /\ UNCHANGED DevAcked /\ DevFlight' <= MaxWindow
  <2>1. DevFlight' = m + 1
    <3>1. devSndUna \in SeqSpace /\ devSndNxt \in SeqSpace /\ devSndNxt' = SeqAdd(devSndNxt, 1)
      BY Zenon DEF DevTypes, DevSendFin
    <3> QED BY <1>1, <1>2, <1>3, <3>1, FlightGrows, ZenonT(30) DEF DevFlight
  <2>2. DevUsed' = s + 1
    BY <1>1, <1>2, Zenon DEF DevUsed, Bit
  <2>3. DevAcked' = (s + 1) - (m + 1)
    BY <2>1, <2>2, Zenon DEF DevAcked
  <2> QED BY <1>2, <1>3, <1>4, <2>1, <2>3
<1>9. Carries(seg) /\ Start(seg, s) = s
  BY <1>6, ZenonT(30) DEF Carries, Start
<1>10. ASSUME Live PROVE Placed(seg, HostExpects, HostRcvd, s, devFin' # NoSeq)
  <2>1. Apart(devSndNxt, HostExpects, s - r)
    BY <1>0, <1>2, <1>4, <1>10, DevApart, ZenonT(30)
  <2>2. s + 0 = s /\ s + 0 <= s /\ r - MaxWindow <= s /\ s <= r + MaxWindow
    BY <1>3, <1>4, Spaces
  <2> QED BY <1>1, <1>2, <1>6, <1>9, <2>1, <2>2 DEF Placed
<1>11. DevUsed <= Start(seg, s) + MaxWindow
  BY <1>4, <1>9, Spaces
<1>12. DownReceived' /\ DownStream' /\ DownAcks' /\ DownWindow'
  BY <1>1, <1>5, <1>6, DownAfterDevSends, Zenon
<1>13. devSent' = s /\ devSent <= s
  BY <1>1, <1>2
<1>14. UpReceived' /\ UpStream' /\ UpAcks' /\ UpWindow'
  BY <1>0, <1>1, <1>5, <1>6, <1>7, <1>8, <1>9, <1>10, <1>11, <1>13, UpAfterDevSends, ZenonT(30)
<1> QED BY <1>1, <1>12, <1>14, HostUntouched, ZenonT(30) DEF Met, vars

LEMMA MetDevRetransmit ==
    ASSUME FlightInv, DevTypes, Met, DevRetransmit
    PROVE  Met'
<1>0. TypeOK /\ UpReceived /\ UpStream /\ UpAcks /\ UpWindow
  BY Zenon DEF FlightInv, Met
<1>1. DevRecvSame /\ DevSendSame /\ UNCHANGED vars /\ devState' = devState
  BY Zenon DEF DevRetransmit, DevRecvSame, DevSendSame, devVars
<1>2. PICK s \in Nat, m \in Nat, u \in Nat, r \in Nat, f \in 0 .. 1 :
        /\ s = devSent /\ m = DevFlight /\ u = DevAcked /\ r = HostRcvd /\ f = Bit(devFin # NoSeq)
  <2>1. devSent \in Nat /\ DevFlight \in Nat /\ DevAcked \in Nat /\ HostRcvd \in Nat
    BY <1>0, UpNumbers, DevNumbers, HostNumbers, Zenon
  <2> QED BY <2>1, BitType, ZenonT(30)
<1>3. /\ DevUsed = s + f /\ u = (s + f) - m /\ r <= s + f /\ u <= r /\ r <= u + MaxWindow
      /\ m <= MaxWindow /\ u <= s /\ m # 0
  <2>1. DevUsed = s + f
    BY <1>2, Zenon DEF DevUsed
  <2>2. u = (s + f) - m
    BY <1>2, <2>1, Zenon DEF DevAcked
  <2>3. r <= DevUsed /\ r - u \in 0 .. MaxWindow /\ m <= MaxWindow
    BY <1>0, <1>2, UpNumbers, Zenon DEF UpWindow
  <2>4. m # 0
    <3>1. devSndUna \in SeqSpace /\ devSndNxt \in SeqSpace /\ devSndUna # devSndNxt
      BY Zenon DEF DevTypes, DevRetransmit
    <3> QED BY <1>2, <3>1, Spaces, InSpace DEF DevFlight, SeqSub
  <2> QED BY <2>1, <2>2, <2>3, <2>4, Spaces
<1>4. PICK n \in Nat : n = m - f /\ s - n = u
  BY <1>3
<1>5. PICK p : p = [i \in 1 .. n |-> u + i]
  BY Zenon
<1>6. p \in Seq(Nat) /\ Len(p) = n /\ \A k \in 1 .. n : p[k] = u + k
  BY <1>5, BytesFrom, ZenonT(30)
<1>7. PICK flags \in SUBSET Flags :
        flags = IF devFin # NoSeq THEN {"FIN", "ACK"} ELSE {"ACK"}
  BY KnownFlags, Zenon
<1>8. PICK seg : seg = DevSegment(devSndUna, flags, p) /\ toHost' = Append(toHost, seg)
  <2>1. n = SeqSub(devSndNxt, devSndUna) - (IF devFin # NoSeq THEN 1 ELSE 0)
    BY <1>2, <1>4, Zenon DEF DevFlight, Bit
  <2>2. p = [i \in 1 .. n |-> devSent - n + i]
    BY <1>2, <1>4, <1>5, ZenonT(30)
  <2> QED BY <1>7, <2>1, <2>2, Zenon DEF DevRetransmit, ToHost
<1>9. /\ seg \in Segment /\ seg.ack = devRcvNxt /\ seg.win <= DevFree /\ seg.seq = devSndUna
      /\ seg.payload = p /\ seg.flags = flags
  <2>1. devSndUna \in SeqSpace
    BY Zenon DEF DevTypes
  <2> QED BY <1>6, <1>8, <2>1, DevSegmentIs
<1>10. ("FIN" \in seg.flags <=> devFin # NoSeq) /\ Start(seg, s) = u /\ Carries(seg)
  <2>1. "FIN" \in seg.flags <=> devFin # NoSeq
    BY <1>7, <1>9
  <2>2. CASE n = 0
    <3>1. p = <<>>
      BY <1>6, <2>2, EmptySeq, Zenon
    <3>2. u = s /\ f = 1
      BY <1>2, <1>3, <1>4, <2>2
    <3> QED BY <1>2, <1>9, <2>1, <3>1, <3>2 DEF Start, Carries, Bit
  <2>3. CASE n # 0
    <3>1. p # <<>> /\ p[1] = u + 1
      BY <1>6, <2>3
    <3> QED BY <1>9, <2>1, <3>1 DEF Start, Carries
  <2> QED BY <2>2, <2>3, Zenon
<1>11. ASSUME Live PROVE Placed(seg, HostExpects, HostRcvd, s, devFin' # NoSeq)
  <2>1. Apart(devSndUna, HostExpects, u - r)
    BY <1>0, <1>2, <1>11, DevApart, ZenonT(30)
  <2>2. u + n = s /\ u + n <= s /\ r - MaxWindow <= u /\ u <= r + MaxWindow
    BY <1>3, <1>4, Spaces
  <2> QED BY <1>1, <1>2, <1>6, <1>9, <1>10, <2>1, <2>2, ZenonT(30) DEF Placed, DevSendSame
<1>12. DevUsed <= Start(seg, s) + MaxWindow
  BY <1>3, <1>10, Spaces
<1>13. DownReceived' /\ DownStream' /\ DownAcks' /\ DownWindow'
  BY <1>1, <1>8, <1>9, DownAfterDevSends, ZenonT(30)
<1>14. /\ devSent' = s /\ devSent <= s /\ s <= Len(taken) + ReceiveWindow
       /\ UNCHANGED <<devSndUna, devEdge, devFin, devSent, DevAcked, DevFlight>> /\ DevFlight' <= MaxWindow
  BY <1>0, <1>1, <1>2, <1>3, Kept DEF DevSendSame, UpReceived
<1>15. UpReceived' /\ UpStream' /\ UpAcks' /\ UpWindow'
  BY <1>0, <1>1, <1>8, <1>9, <1>10, <1>11, <1>12, <1>14, UpAfterDevSends, ZenonT(30)
<1> QED BY <1>1, <1>13, <1>15, HostUntouched, Zenon DEF Met, vars

LEMMA DevResetSegment ==
    ASSUME DevTypes, DevReset
    PROVE  \E s \in Segment : /\ s.flags = {"RST"} /\ ~Carries(s) /\ ~HasAck(s)
                              /\ s.win = 0 /\ s.payload = <<>> /\ toHost' = Append(toHost, s)
<1>1. PICK old : old = DevSegment(devSndNxt, {"RST"}, <<>>)
  BY Zenon
<1>2. old \in Segment /\ old.flags = {"RST"} /\ old.payload = <<>>
  BY <1>1, KnownFlags, DevEmptyIs, Zenon
<1>3. PICK s : s = [old EXCEPT !.win = 0] /\ toHost' = Append(toHost, s)
  BY <1>1, Zenon DEF DevReset, ToHost
<1>4. s \in Segment /\ s.flags = {"RST"} /\ s.payload = <<>> /\ s.win = 0
  BY <1>2, <1>3, Zenon DEF Segment
<1>5. ~Carries(s) /\ ~HasAck(s)
  BY <1>4, Zenon DEF Carries, HasAck
<1> QED BY <1>3, <1>4, <1>5, Zenon

LEMMA MetDevReset ==
    ASSUME FlightInv, DevTypes, Met, DevReset
    PROVE  Met'
<1>1. Quiet(toHost, toHost')
  BY DevResetSegment, Zenon DEF Quiet
<1>2. /\ DevRecvSame /\ DevSendSame /\ devState' # "Listen" /\ Quiet(toDev, toDev')
      /\ UNCHANGED <<state, oweAck, sendVars, windowVars, recvVars, appVars>>
  BY Zenon DEF DevReset, DevRecvSame, DevSendSame, Quiet, vars
<1> QED BY <1>1, <1>2, MetPacketGone, Zenon

\* Every segment the host sends but the SYN and the reset is an acknowledgement.
LEMMA HostSegments ==
    ASSUME FlightInv, HostNext
    PROVE  ToDevNext
<1>0. TypeOK /\ sndNxt \in SeqSpace /\ sndUna \in SeqSpace
  BY Zenon DEF FlightInv, TypeOK
<1>1. ASSUME NEW s \in Segment, NEW seq, NEW flags \in {{}, {"FIN"}}, NEW p,
             s = AckSegment(seq, flags, p), Emit(s)
      PROVE  ToDevNext
  BY <1>1, Zenon DEF ToDevNext, ToDevOK, AckSegment, HasAck, Emit
<1>2. CASE SendData
  <2>1. PICK p \in Seq(Nat) : p = Front(outbound, Take)
    BY <1>0, <1>2, TakeType, SplitType DEF SendData, MaySendData, TypeOK
  <2>2. PICK s : s = AckSegment(sndNxt, {}, p) /\ Emit(s)
    BY <1>2, <2>1, Zenon DEF SendData
  <2>3. s \in Segment
    <3>1. {} \in SUBSET Flags
      BY Zenon
    <3> QED BY <1>0, <2>1, <2>2, <3>1, AckSegmentType, Zenon
  <2> QED BY <1>1, <2>2, <2>3, ZenonT(30)
<1>3. CASE SendFin \/ SendAck
  <2>1. PICK flags \in {{}, {"FIN"}} : Emit(AckSegment(sndNxt, flags, <<>>))
    BY <1>3, Zenon DEF SendFin, SendAck
  <2>2. PICK s : s = AckSegment(sndNxt, flags, <<>>)
    BY Zenon
  <2>3. s \in Segment
    BY <1>0, <2>1, <2>2, EmptySegmentType, Zenon
  <2> QED BY <1>1, <2>1, <2>2, <2>3, Zenon
<1>4. CASE RetransmitFin
  <2>1. sentFin \in SeqSpace
    BY <1>0, <1>4, ZenonT(30) DEF RetransmitFin, TypeOK
  <2>2. PICK s : s = AckSegment(sentFin, {"FIN"}, <<>>) /\ Emit(s)
    BY <1>4, Zenon DEF RetransmitFin
  <2>3. s \in Segment
    BY <1>0, <2>1, <2>2, EmptySegmentType, Zenon
  <2> QED BY <1>1, <2>2, <2>3, Zenon
<1>5. CASE RetransmitData
  <2>1. PICK n : n = Least(Least(Len(unacknowledged), Mss), Room)
    BY Zenon
  <2>2. PICK s : s = AckSegment(sndUna, {}, Front(unacknowledged, n)) /\ Emit(s)
    BY <1>5, <2>1, Zenon DEF RetransmitData
  <2>3. Front(unacknowledged, n) \in Seq(Nat)
    <3>1. unacknowledged \in Seq(Nat) /\ unacknowledged # <<>> /\ Room > 0 /\ sndWndEdge \in SeqSpace
      BY <1>0, <1>5, ZenonT(30) DEF RetransmitData, TypeOK
    <3>2. Room \in Nat
      BY <1>0, <3>1, SubType, Spaces DEF Room
    <3>3. n \in 0 .. Len(unacknowledged)
      BY <2>1, <3>1, <3>2, LenProperties, SizeAssumption DEF Least
    <3> QED BY <3>1, <3>3, SplitType, ZenonT(30)
  <2>4. s \in Segment
    <3>1. {} \in SUBSET Flags
      BY Zenon
    <3> QED BY <1>0, <2>2, <2>3, <3>1, AckSegmentType, ZenonT(30)
  <2> QED BY <1>1, <2>2, <2>4, Zenon
<1>6. CASE Close \/ Forget
  <2>1. ASSUME NEW s \in Segment, s.flags = {"RST"}, ~Carries(s) PROVE ToDevOK(s)
    BY <2>1, Zenon DEF ToDevOK
  <2> QED BY <1>0, <1>6, <2>1, Leaves, ZenonT(30) DEF ToDevNext
<1>7. CASE toDev' = toDev
  BY <1>7, Zenon DEF ToDevNext
<1>8. \/ toDev' = toDev \/ SendData \/ SendFin \/ SendAck \/ RetransmitFin \/ RetransmitData
      \/ Close \/ Forget
  BY Zenon DEF HostNext, NextSegment, Retransmit, Queue, TakeReceived, ShutdownWrite, ProbeWindow
<1> QED BY <1>2, <1>3, <1>4, <1>5, <1>6, <1>7, <1>8, ZenonT(30)

\* What the device sends: its windows and payloads fit the header.
LEMMA DevSegments ==
    ASSUME FlightInv, DevTypes, Met,
           DevAck \/ DevStray \/ DevSendFin \/ DevRetransmit \/ \E n \in Nat \ {0} : DevSend(n)
    PROVE  ToHostNext
<1>0. TypeOK /\ UpReceived /\ UpStream /\ UpAcks /\ UpWindow
  BY Zenon DEF FlightInv, Met
<1>1. ASSUME NEW s \in Segment, s.win <= MaxWindow, Len(s.payload) <= MaxWindow,
             s.flags \in {{"ACK"}, {"FIN", "ACK"}}, toHost' = Append(toHost, s)
      PROVE  ToHostNext
  BY <1>1, Zenon DEF ToHostNext, ToHostOK
<1>2. CASE DevAck \/ DevSendFin
  <2>1. PICK flags \in {{"ACK"}, {"FIN", "ACK"}} :
          toHost' = Append(toHost, DevSegment(devSndNxt, flags, <<>>))
    BY <1>2, Zenon DEF DevAck, DevSendFin, ToHost
  <2>2. PICK s : s = DevSegment(devSndNxt, flags, <<>>)
    BY Zenon
  <2>3. flags \in SUBSET Flags
    BY <2>1, KnownFlags, Zenon
  <2>4. s \in Segment /\ s.flags = flags /\ s.payload = <<>> /\ s.win <= MaxWindow
    BY <2>2, <2>3, DevEmptyIs, ZenonT(30)
  <2>5. Len(s.payload) <= MaxWindow
    BY <2>4, Spaces
  <2> QED BY <1>1, <2>1, <2>2, <2>4, <2>5, ZenonT(30)
<1>3. CASE DevStray
  <2>1. PICK flags \in {{"ACK"}, {"PSH", "ACK"}}, ack \in SeqSpace :
          toHost' = Append(toHost, [DevSegment(devSndNxt, flags, <<>>) EXCEPT !.ack = ack])
    <3>1. CASE ToHost(DevSegment(devSndNxt, {"PSH", "ACK"}, <<>>))
      <4>1. PICK s : s = DevSegment(devSndNxt, {"PSH", "ACK"}, <<>>)
        BY Zenon
      <4>2. s \in Segment /\ s.ack = devRcvNxt
        BY <4>1, KnownFlags, DevEmptyIs, Zenon
      <4>3. s = [s EXCEPT !.ack = devRcvNxt]
        BY <4>2, Zenon DEF Segment
      <4>4. devRcvNxt \in SeqSpace
        BY Zenon DEF DevTypes
      <4>5. toHost' = Append(toHost, [DevSegment(devSndNxt, {"PSH", "ACK"},
      <<>>) EXCEPT !.ack = devRcvNxt])
        BY <3>1, <4>1, <4>3, Zenon DEF ToHost
      <4> QED BY <4>4, <4>5, Zenon
    <3>2. CASE ToHost([DevSegment(devSndNxt, {"ACK"}, <<>>)
                          EXCEPT !.ack = SeqAdd(devRcvNxt, MaxWindow + 1)])
      <4>1. SeqAdd(devRcvNxt, MaxWindow + 1) \in SeqSpace
        BY AddType, Spaces DEF DevTypes
      <4> QED BY <3>2, <4>1, Zenon DEF ToHost
    <3> QED BY <1>3, <3>1, <3>2, Zenon DEF DevStray
  <2>2. PICK old : old = DevSegment(devSndNxt, flags, <<>>)
    BY Zenon
  <2>3. flags \in SUBSET Flags
    BY <2>1, KnownFlags, Zenon
  <2>4. old \in Segment /\ old.flags = flags /\ old.payload = <<>> /\ old.win <= MaxWindow
    BY <2>2, <2>3, DevEmptyIs, Zenon
  <2>5. PICK s : s = [old EXCEPT !.ack = ack]
    BY Zenon
  <2>6. s \in Segment /\ s.flags = flags /\ s.payload = <<>> /\ s.win <= MaxWindow
    BY <2>4, <2>5, ZenonT(30) DEF Segment
  <2>7. Len(s.payload) <= MaxWindow
    BY <2>6, Spaces
  <2>8. ToHostOK(s)
    BY <2>1, <2>6, <2>7, Zenon DEF ToHostOK, Carries
  <2> QED BY <2>1, <2>2, <2>5, <2>6, <2>8, ZenonT(30) DEF ToHostNext
<1>4. ASSUME NEW n \in Nat \ {0}, DevSend(n) PROVE ToHostNext
  <2>1. devFin = NoSeq /\ n <= DevRoom /\ devSent \in Nat /\ devSndNxt \in SeqSpace
    BY <1>4, Zenon DEF DevSend, DevTypes
  <2>2. n <= MaxWindow
    <3>1. DevFlight + n <= MaxWindow /\ DevFlight \in Nat
      BY <1>0, <2>1, DevFits, DevNumbers, Zenon
    <3> QED BY <3>1, Spaces
  <2>3. PICK p : p = [i \in 1 .. n |-> devSent + i]
    BY Zenon
  <2>4. p \in Seq(Nat) /\ Len(p) = n
    BY <2>1, <2>3, BytesFrom, Zenon
  <2>5. PICK s : s = DevSegment(devSndNxt, {"ACK"}, p) /\ toHost' = Append(toHost, s)
    BY <1>4, <2>3, ZenonT(30) DEF DevSend, ToHost
  <2>6. s \in Segment /\ s.flags = {"ACK"} /\ s.payload = p /\ s.win <= MaxWindow
    BY <2>1, <2>4, <2>5, KnownFlags, DevSegmentIs
  <2> QED BY <1>1, <2>2, <2>4, <2>5, <2>6, ZenonT(30)
<1>5. CASE DevRetransmit
  <2>1. PICK m \in Nat, f \in 0 .. 1, u \in Nat, s \in Nat :
          m = DevFlight /\ f = Bit(devFin # NoSeq) /\ u = DevAcked /\ s = devSent
    <3>1. DevFlight \in Nat /\ DevAcked \in Nat /\ devSent \in Nat
      BY <1>0, DevNumbers, UpNumbers, Zenon
    <3> QED BY <3>1, BitType, Zenon
  <2>2. u = (s + f) - m /\ m <= MaxWindow /\ m # 0 /\ u <= s
    <3>1. u = (s + f) - m
      BY <2>1, Zenon DEF DevAcked, DevUsed
    <3>2. m <= MaxWindow
      BY <1>0, <2>1, Zenon DEF UpWindow
    <3>3. m # 0
      <4>1. devSndUna \in SeqSpace /\ devSndNxt \in SeqSpace /\ devSndUna # devSndNxt
        BY <1>5, Zenon DEF DevTypes, DevRetransmit
      <4> QED BY <2>1, <4>1, Spaces, InSpace DEF DevFlight, SeqSub
    <3> QED BY <3>1, <3>2, <3>3
  <2>3. PICK n \in Nat : n = m - f /\ s - n = u /\ n <= MaxWindow
    <3>1. m - f \in Nat /\ s - (m - f) = u /\ m - f <= MaxWindow
      BY <2>2, Spaces
    <3> QED BY <3>1, Zenon
  <2>4. PICK p : p = [i \in 1 .. n |-> u + i]
    BY Zenon
  <2>5. p \in Seq(Nat) /\ Len(p) = n
    BY <2>4, BytesFrom, ZenonT(30)
  <2>6. PICK flags \in SUBSET Flags : flags = IF devFin # NoSeq THEN {"FIN", "ACK"} ELSE {"ACK"}
    BY KnownFlags, Zenon
  <2>7. PICK g : g = DevSegment(devSndUna, flags, p) /\ toHost' = Append(toHost, g)
    <3>1. n = SeqSub(devSndNxt, devSndUna) - (IF devFin # NoSeq THEN 1 ELSE 0)
      BY <2>1, <2>3, Zenon DEF DevFlight, Bit
    <3>2. p = [i \in 1 .. n |-> devSent - n + i]
      BY <2>1, <2>3, <2>4, ZenonT(30)
    <3> QED BY <1>5, <2>6, <3>1, <3>2, Zenon DEF DevRetransmit, ToHost
  <2>8. g \in Segment /\ g.flags = flags /\ g.payload = p /\ g.win <= MaxWindow
    <3>1. devSndUna \in SeqSpace
      BY Zenon DEF DevTypes
    <3> QED BY <2>5, <2>7, <3>1, DevSegmentIs
  <2>9. flags \in {{"ACK"}, {"FIN", "ACK"}}
    BY <2>6, Zenon
  <2> QED BY <1>1, <2>3, <2>5, <2>7, <2>8, <2>9, ZenonT(30)
<1> QED BY <1>2, <1>3, <1>4, <1>5, ZenonT(30)

LEMMA DevTypesSend ==
    ASSUME FlightInv, DevTypes, Met, ToHostNext, DevSendFin \/ \E n \in Nat \ {0} : DevSend(n)
    PROVE  DevTypes'
<1>0. /\ TypeOK /\ ToDevNext /\ UNCHANGED <<devState, devRcvNxt, devGot, devUnread, devEof, devSndUna>>
      /\ devSndNxt \in SeqSpace /\ devSent \in Nat /\ UpReceived /\ UpAcks /\ UpWindow
  BY Zenon DEF FlightInv, ToDevNext, DevSendFin, DevSend, vars, DevTypes, Met
<1>1. ASSUME NEW n \in Nat, n <= MaxWindow + 1 PROVE SeqAdd(devSndNxt, n) \in SeqSpace
  BY <1>0, <1>1, Spaces, InSpace DEF SeqAdd
<1>2. CASE DevSendFin
  <2>1. devSndNxt' \in SeqSpace
    <3>1. 1 \in Nat /\ 1 <= MaxWindow + 1
      BY Spaces
    <3> QED BY <1>1, <1>2, <3>1, Zenon DEF DevSendFin
  <2>2. devSent' \in Nat /\ devFin' \in SeqSpace \cup {NoSeq}
    BY <1>0, <1>2, Zenon DEF DevSendFin
  <2> QED BY <1>0, <2>1, <2>2, DevTypesKept, ZenonT(30) DEF DevTypes
<1>3. ASSUME NEW n \in Nat \ {0}, DevSend(n) PROVE DevTypes'
  <2>1. devSndNxt' \in SeqSpace
    <3>1. DevFlight + n <= MaxWindow /\ DevFlight \in Nat
      BY <1>0, <1>3, DevFits, DevNumbers, ZenonT(30) DEF DevSend
    <3>2. n <= MaxWindow + 1
      BY <3>1, Spaces
    <3> QED BY <1>1, <1>3, <3>2, Zenon DEF DevSend
  <2>2. devSent' \in Nat /\ devFin' \in SeqSpace \cup {NoSeq}
    BY <1>0, <1>3 DEF DevSend, DevTypes
  <2> QED BY <1>0, <2>1, <2>2, DevTypesKept, Zenon DEF DevTypes
<1> QED BY <1>2, <1>3, Zenon
=============================================================================
