-------------------------- MODULE MuxPairReceives ---------------------------
(***************************************************************************)
(* Every step in which the host or the device takes a segment off its      *)
(* channel, or loses it, keeps Met; so do the steps of the host that send  *)
(* nothing.                                                                *)
(***************************************************************************)
EXTENDS MuxSessionProofs

USE SMTT(30), ZenonT(30)

-----------------------------------------------------------------------------
(* on_segment.                                                             *)

\* Two numbers are no distance apart when they are the same.
LEMMA SubZero ==
    ASSUME NEW x \in SeqSpace
    PROVE  SeqSub(x, x) = 0 /\ Apart(x, x, 0) /\ SeqAdd(x, 0) = x
BY Spaces, InSpace DEF SeqSub, Apart, SeqAdd

\* The SYN-ACK puts the session where the device already takes it to be.
LEMMA MetSynAck ==
    ASSUME FlightInv, DevTypes, Met, toHost # <<>>, NEW h, h = Head(toHost), OnSynAck(h),
           toHost' = Tail(toHost), UNCHANGED devVars
    PROVE  Met'
<1> USE DEF devVars, appVars
<1>0. /\ TypeOK /\ DownReceived /\ DownStream /\ DownAcks /\ DownWindow
      /\ UpReceived /\ UpStream /\ UpAcks /\ UpWindow
  BY Zenon DEF FlightInv, Met
<1>1. toHost \in Seq(Segment) /\ h \in Segment /\ h = toHost[1] /\ 1 \in 1 .. Len(toHost)
  BY TailIs DEF DevTypes
<1>2. /\ h.ack \in SeqSpace /\ h.win \in Nat /\ h.win <= MaxWindow /\ h.seq = DevInitial
      /\ HasAck(h)
  <2>1. ToHostOK(h) /\ h.flags = {"SYN", "ACK"}
    BY <1>1, Zenon DEF DevTypes, OnSynAck, IsSynAck
  <2> QED BY <1>1, <2>1, SegmentType, Zenon DEF ToHostOK, HasAck
<1>3. /\ state = "SynSent" /\ state' = "Established" /\ Live /\ Live'
      /\ h.ack = HostUna /\ HostUna' = HostUna /\ HostExpects' = HostExpects
  BY <1>2, Zenon DEF OnSynAck, Live, HostUna, HostExpects
<1>4. UNCHANGED <<HostBytes, sentFin, HostAcked, toDev, taken, inbound, peerFin>>
  <2>1. UNCHANGED <<written, outbound, sentFin, toDev, taken, inbound, peerFin>>
    BY Zenon DEF OnSynAck
  <2>2. InFlight = 0 /\ InFlight' = 0
    <3>1. sndNxt = sndUna /\ sndUna \in SeqSpace /\ sndNxt' = h.ack /\ sndUna' = h.ack
      BY <1>3, Zenon DEF FlightInv, HandshakeQuiet, TypeOK, OnSynAck
    <3> QED BY <1>2, <3>1, SubZero, Zenon DEF InFlight
  <2>3. UNCHANGED <<HostBytes, HostSent>>
    BY <2>1, Zenon DEF HostBytes, HostSent
  <2> QED BY <2>1, <2>2, <2>3, Zenon DEF HostAcked
<1>5. /\ DevRecvSame /\ DevSendSame
      /\ UNCHANGED <<DevRcvd, DevFree, DevAcked, DevFlight, HostRcvd, HostFree>>
  <2>1. DevRecvSame /\ DevSendSame
    BY Zenon DEF DevRecvSame, DevSendSame
  <2>2. UNCHANGED <<HostRcvd, HostFree>>
    BY <1>4, Zenon DEF HostRcvd, HostFree
  <2> QED BY <2>1, <2>2, Kept, Zenon
<1>6. DownReceived' /\ DownStream'
  BY <1>0, <1>4, <1>5 DEF DownReceived, DownStream, DevRecvSame
<1>7. PICK a \in Nat, f \in Nat : a = DevRcvd - HostAcked /\ f = DevFree
  <2>1. DevRcvd - HostAcked \in 0 .. MaxWindow
    BY <1>0, DownNumbers, Zenon
  <2> QED BY <2>1, DevNumbers, Spaces
<1>8. 0 + h.win <= a + f /\ Acks(Tail(toHost), h.ack, a - 0, a + f - 0)
  <2>1. Acks(toHost, HostUna, a, a + f) /\ HostUna \in SeqSpace
    BY <1>0, <1>3, <1>7, HostNumbers, Zenon DEF DownAcks
  <2>2. SeqSub(h.ack, HostUna) = 0 /\ 0 \in 0 .. MaxWindow
    BY <1>2, <1>3, SubZero, Spaces
  <2>3. a \in Int /\ a + f \in Int
    OBVIOUS
  <2> QED BY <1>1, <1>2, <2>1, <2>2, <2>3, AcksTake
<1>9. DownAcks'
  <2>1. Acks(toHost', HostUna, a, a + f)
    BY <1>3, <1>8
  <2> QED BY <1>0, <1>3, <1>4, <1>5, <1>7, <2>1, Zenon DEF DownAcks, DevRecvSame
<1>10. DownWindow'
  <2>1. sndWndEdge' = SeqAdd(sndUna', peerWindow') /\ peerWindow' = h.win
    BY Zenon DEF OnSynAck, WindowEdge
  <2>2. h.win <= a + f
    BY <1>2, <1>8
  <2> QED BY <1>2, <1>4, <1>5, <1>7, <2>1, <2>2, Zenon DEF DownWindow
<1>11. UpReceived' /\ UpWindow' /\ UpAcks'
  BY <1>0, <1>3, <1>4, <1>5, Zenon DEF UpReceived, UpWindow, UpAcks, DevSendSame
<1>12. UpStream'
  <2>1. Stream(toHost', HostExpects, HostRcvd, devSent, devFin # NoSeq)
    BY <1>0, <1>1, <1>3, StreamTail, Zenon DEF UpStream
  <2> QED BY <1>3, <1>5, <2>1, Zenon DEF UpStream, DevSendSame
<1> QED BY <1>3, <1>6, <1>9, <1>10, <1>11, <1>12, Zenon DEF Met

\* A segment the session accepts acknowledges d numbers in flight, none of them
\* unsent: what on_established makes of a stray acknowledgement is an error.
LEMMA EstablishedAck ==
    ASSUME FlightInv, DevTypes, Met, toHost # <<>>, NEW h, h = Head(toHost), OnEstablished(h)
    PROVE  /\ h \in Segment /\ HasAck(h) /\ h.win <= MaxWindow
           /\ IsFin(h) <=> "FIN" \in h.flags
           /\ \E d \in 0 .. MaxWindow :
                /\ SeqSub(h.ack, sndUna) = d /\ sndUna' = h.ack
                /\ InFlight' = InFlight - d
<1>1. toHost \in Seq(Segment) /\ h \in Segment /\ h = toHost[1] /\ 1 \in 1 .. Len(toHost)
  BY TailIs DEF DevTypes
<1>2. ToHostOK(h) /\ h.win <= MaxWindow /\ state = "Established" /\ ~AcksUnsent(h)
  BY <1>1, Zenon DEF DevTypes, ToHostOK, OnEstablished
<1>3. h.flags \in {{"ACK"}, {"FIN", "ACK"}}
  <2>1. CASE IsBareAck(h)
    BY <2>1, Zenon DEF IsBareAck
  <2>2. CASE IsFin(h)
    BY <1>2, <2>2, Zenon DEF IsFin, ToHostOK, Carries
  <2> QED BY <2>1, <2>2, Zenon DEF OnEstablished
<1>4. HasAck(h) /\ (IsFin(h) <=> "FIN" \in h.flags)
  BY <1>3, Zenon DEF HasAck, IsFin
<1>5. /\ h.ack \in SeqSpace /\ sndUna \in SeqSpace /\ sndNxt \in SeqSpace
      /\ SeqSub(sndNxt, sndUna) <= MaxWindow
  BY <1>1, SegmentType, Zenon DEF FlightInv, TypeOK, FlightFitsWindow, InFlight
<1>6. SeqSub(h.ack, sndUna) <= 2 * MaxWindow + 1 /\ SeqSub(h.ack, sndUna) \in Nat
  <2>1. Acknowledges(h, sndUna, DevRcvd - HostAcked, DevRcvd - HostAcked + DevFree)
    BY <1>1, <1>2, <1>4, Zenon DEF Met, DownAcks, Live, HostUna, Acks
  <2> QED BY <1>5, <2>1, SubType, Spaces DEF Acknowledges
<1>7. sndNxt' = sndNxt
  BY Zenon DEF OnEstablished, ApplyAck
<1>8. CASE SeqSub(h.ack, sndUna) = 0
  <2>1. h.ack = sndUna
    BY <1>5, <1>8, Spaces, InSpace DEF SeqSub
  <2>2. sndUna' = sndUna
    BY <1>8 DEF OnEstablished, ApplyAck, AcksNew, SeqGt
  <2>3. InFlight' = InFlight /\ InFlight \in Nat
    BY <1>7, <2>2, HostNumbers, Zenon DEF InFlight, FlightInv
  <2>4. InFlight' = InFlight - 0 /\ 0 \in 0 .. MaxWindow
    BY <2>3, Spaces
  <2> QED BY <1>1, <1>2, <1>4, <1>8, <2>1, <2>2, <2>4, Zenon
<1>9. CASE SeqSub(h.ack, sndUna) # 0
  <2>1. AcksNew(h) /\ SeqGt(h.ack, sndUna)
    BY <1>4, <1>6, <1>9, Spaces DEF AcksNew, SeqGt
  <2>2. ~SeqGt(h.ack, sndNxt)
    BY <1>2, <2>1, Zenon DEF AcksUnsent
  <2>3. /\ SeqSub(h.ack, sndUna) \in 1 .. SeqSub(sndNxt, sndUna)
        /\ SeqSub(sndNxt, h.ack) = SeqSub(sndNxt, sndUna) - SeqSub(h.ack, sndUna)
    BY <1>5, <2>1, <2>2, AckArithmetic, Zenon
  <2>4. sndUna' = h.ack
    BY <2>1, Zenon DEF OnEstablished, ApplyAck
  <2>5. InFlight' = InFlight - SeqSub(h.ack, sndUna)
    BY <1>7, <2>3, <2>4, Zenon DEF InFlight
  <2>6. SeqSub(h.ack, sndUna) \in 0 .. MaxWindow
    BY <1>5, <1>6, <2>3, SubType, Spaces
  <2> QED BY <1>1, <1>2, <1>4, <2>4, <2>5, <2>6, ZenonT(30)
<1> QED BY <1>8, <1>9, Zenon

\* The sender's end moves on by d: the receiver is that much less ahead of it.
LEMMA ApartAfter ==
    ASSUME NEW x \in SeqSpace, NEW una \in SeqSpace, NEW a \in SeqSpace,
           NEW k \in Nat, NEW d \in 0 .. MaxWindow, k <= MaxWindow, d <= k,
           Apart(x, una, k), SeqSub(a, una) = d
    PROVE  Apart(x, a, k - d)
BY Spaces, InSpace DEF Apart, SeqSub

LEMMA DownAfterHostHears ==
    ASSUME FlightInv, DevTypes, Met, toHost # <<>>, NEW h, h = Head(toHost), OnEstablished(h),
           toHost' = Tail(toHost), UNCHANGED devVars
    PROVE  DownReceived' /\ DownStream' /\ DownAcks' /\ DownWindow'
<1> USE DEF devVars, appVars
<1>0. TypeOK /\ DownReceived /\ DownStream /\ DownAcks /\ DownWindow
  BY Zenon DEF FlightInv, Met
<1>1. PICK d \in 0 .. MaxWindow :
        /\ SeqSub(h.ack, sndUna) = d /\ sndUna' = h.ack /\ InFlight' = InFlight - d
  BY EstablishedAck, Zenon
<1>2. /\ h \in Segment /\ HasAck(h) /\ h.win <= MaxWindow /\ h.ack \in SeqSpace /\ h.win \in Nat
      /\ toHost \in Seq(Segment)
  BY EstablishedAck, SegmentType, Zenon DEF DevTypes
<1>3. /\ UNCHANGED <<state, sentFin, HostBytes, toDev, HostSent>>
      /\ state = "Established" /\ Live /\ Live' /\ HostUna = sndUna /\ HostUna' = h.ack
  BY <1>1, Zenon DEF OnEstablished, ApplyAck, HostBytes, HostSent, Live, HostUna
<1>4. DevRecvSame /\ UNCHANGED <<DevRcvd, DevFree, devRcvNxt>>
  BY Kept, Zenon DEF DevRecvSame
<1>5. DownReceived' /\ DownStream'
  BY <1>0, <1>3, <1>4 DEF DownReceived, DownStream, DevRecvSame
<1>6. PICK a \in Nat, f \in Nat, m \in Nat, s \in Nat, u \in Nat, r \in Nat, w \in Nat :
        /\ a = DevRcvd - HostAcked /\ f = DevFree /\ m = InFlight /\ s = HostSent
        /\ u = HostAcked /\ r = DevRcvd /\ w = h.win
  <2>1. DevRcvd - HostAcked \in 0 .. MaxWindow
    BY <1>0, DownNumbers, Zenon
  <2>2. DevRcvd - HostAcked \in Nat
    BY <2>1, Spaces
  <2>3. /\ DevFree \in Nat /\ InFlight \in Nat /\ HostSent \in Nat /\ HostAcked \in Nat
        /\ DevRcvd \in Nat
    BY <1>0, DownNumbers, HostNumbers, DevNumbers, Zenon
  <2> QED BY <1>2, <2>2, <2>3, Zenon
<1>7. a = r - u /\ s = u + m /\ a <= MaxWindow
  BY <1>0, <1>6, DownNumbers
<1>8. d \in Nat /\ d <= a /\ d + w <= a + f /\ Acks(Tail(toHost), h.ack, a - d, a + f - d)
  <2>1. Acks(toHost, sndUna, a, a + f) /\ sndUna \in SeqSpace
    BY <1>0, <1>3, <1>6, Zenon DEF DownAcks, TypeOK
  <2>2. a \in Int /\ a + f \in Int /\ d \in Nat
    BY Spaces
  <2>3. d <= a /\ d + h.win <= a + f /\ Acks(Tail(toHost), h.ack, a - d, a + f - d)
    BY <1>1, <1>2, <2>1, <2>2, AcksTake
  <2> QED BY <1>6, <2>2, <2>3, Zenon
<1>9. HostAcked' = u + d /\ DevRcvd' = r /\ DevFree' = f
  <2>1. HostAcked' = s - (m - d)
    BY <1>1, <1>3, <1>6, Zenon DEF HostAcked
  <2> QED BY <1>4, <1>6, <1>7, <1>8, <2>1
<1>10. r - (u + d) = a - d /\ r - (u + d) + f = a + f - d /\ 0 <= u + d /\ u + d <= r
  BY <1>7, <1>8
<1>11. DownAcks'
  <2>1. Apart(devRcvNxt, h.ack, a - d)
    <3>1. Apart(devRcvNxt, sndUna, a) /\ devRcvNxt \in SeqSpace /\ sndUna \in SeqSpace
      BY <1>0, <1>3, <1>6, Zenon DEF DownAcks, TypeOK, DevTypes
    <3> QED BY <1>1, <1>2, <1>7, <1>8, <3>1, ApartAfter, ZenonT(30)
  <2> QED BY <1>3, <1>4, <1>8, <1>9, <1>10, <2>1, ZenonT(30) DEF DownAcks
<1>12. DownWindow'
  <2>1. sndWndEdge' = SeqAdd(sndUna', peerWindow') /\ peerWindow' = w
    BY <1>1, <1>2, <1>6, Zenon DEF OnEstablished, ApplyAck, WindowEdge
  <2>2. w <= r - (u + d) + f
    BY <1>7, <1>8
  <2> QED BY <1>2, <1>6, <1>9, <2>1, <2>2, Zenon DEF DownWindow
<1> QED BY <1>5, <1>11, <1>12, Zenon

LEMMA AddTwice ==
    ASSUME NEW x \in SeqSpace, NEW l \in Nat, l <= MaxWindow
    PROVE  SeqAdd(SeqAdd(x, l), 1) = SeqAdd(x, l + 1) /\ SeqAdd(x, l) \in SeqSpace
BY Spaces, InSpace DEF SeqAdd

\* The receiver's end moves on by n.
LEMMA ApartAhead ==
    ASSUME NEW x \in SeqSpace, NEW una \in SeqSpace, NEW k \in Nat, NEW n \in Nat,
           k + n <= MaxWindow, Apart(x, una, k)
    PROVE  Apart(SeqAdd(x, n), una, k + n) /\ SeqAdd(x, n) \in SeqSpace
BY Spaces, InSpace DEF Apart, SeqAdd

\* The receiver takes the segment in order at the head of a stream: its bytes
\* are the next ones, and the rest is a stream from where it ends.
LEMMA StreamTakes ==
    ASSUME NEW q \in Seq(Segment), q # <<>>, Carries(Head(q)),
           NEW rcvd \in Nat, NEW sent \in Nat, NEW shut \in BOOLEAN,
           Stream(q, Head(q).seq, rcvd, sent, shut), sent <= rcvd + MaxWindow
    PROVE  /\ rcvd + Len(Head(q).payload) <= sent
           /\ "FIN" \in Head(q).flags => shut /\ rcvd + Len(Head(q).payload) = sent
           /\ \A k \in 1 .. Len(Head(q).payload) : Head(q).payload[k] = rcvd + k
           /\ \A n \in Nat : n = Len(Head(q).payload) + Bit("FIN" \in Head(q).flags) =>
                Stream(Tail(q), SeqAdd(Head(q).seq, n), rcvd + n, sent, shut)
<1>1. PICK h \in Segment : h = Head(q) /\ h = q[1] /\ 1 \in 1 .. Len(q)
  BY TailIs
<1>2. PICK seq \in SeqSpace, l \in Nat, f \in 0 .. 1 :
        seq = h.seq /\ l = Len(h.payload) /\ f = Bit("FIN" \in h.flags)
  BY <1>1, SegmentType, BitType, Zenon
<1>3. PICK n \in Nat : n = l + f
  BY <1>2
<1>4. Carries(h) /\ Stream(q, seq, rcvd, sent, shut)
  BY <1>1, <1>2, Zenon
<1>5. Placed(h, seq, rcvd, sent, shut)
  BY <1>1, <1>4, Zenon DEF Stream
<1>6. Start(h, sent) = rcvd
  <2>1. PICK a \in Nat : a = Start(h, sent)
    BY <1>5, Zenon DEF Placed
  <2>2. Apart(seq, seq, a - rcvd) /\ rcvd - MaxWindow <= a /\ a <= rcvd + MaxWindow
    BY <1>2, <1>5, <2>1, Zenon DEF Placed
  <2> QED BY <2>1, <2>2, Spaces, ApartZero
<1>7. /\ rcvd + l <= sent
      /\ "FIN" \in h.flags => shut /\ rcvd + l = sent
      /\ \A k \in 1 .. l : h.payload[k] = rcvd + k
  BY <1>2, <1>5, <1>6, Zenon DEF Placed
<1>8. n <= MaxWindow + 1 /\ n <= SeqMod
  <2>1. ASSUME NEW x \in Nat, MaxWindow = x PROVE n <= x + 1
    BY <1>3, <1>7, <2>1
  <2> QED BY <2>1, Spaces
<1>9. PICK t : t = Tail(q)
  BY Zenon
<1>10. /\ Len(q) \in Nat /\ Len(t) \in Nat
       /\ \A i \in 1 .. Len(t) : i + 1 \in 1 .. Len(q) /\ t[i] = q[i + 1] /\ t[i] \in Segment
  BY <1>9, TailIs
<1>11. ASSUME NEW i \in 1 .. Len(t), Carries(t[i])
       PROVE  Placed(t[i], SeqAdd(seq, n), rcvd + n, sent, shut)
  <2>1. PICK g \in Segment : g = t[i] /\ g = q[i + 1]
    BY <1>10, Zenon
  <2>2. Placed(g, seq, rcvd, sent, shut)
    BY <1>4, <1>10, <1>11, <2>1, Zenon DEF Stream
  <2>3. PICK b \in Nat : b = Start(g, sent)
    BY <2>2, Zenon DEF Placed
  <2>4. rcvd + n <= b + MaxWindow
    <3>1. Follows(q[1], q[i + 1], sent)
      <4>1. i + 1 \in 1 .. Len(q) /\ 1 < i + 1
        BY <1>10
      <4> QED BY <1>1, <1>4, <4>1, Zenon DEF Stream
    <3>2. End(h, sent) <= b + MaxWindow
      BY <1>1, <1>4, <1>11, <2>1, <2>3, <3>1, ZenonT(30) DEF Follows
    <3> QED BY <1>2, <1>3, <1>6, <3>2 DEF End
  <2>5. /\ b <= rcvd + MaxWindow /\ Apart(g.seq, seq, b - rcvd) /\ g.seq \in SeqSpace
        /\ b + Len(g.payload) <= sent
    BY <2>2, <2>3, SegmentType, Zenon DEF Placed
  <2>6. /\ Apart(g.seq, SeqAdd(seq, n), b - (rcvd + n))
        /\ rcvd + n - MaxWindow <= b /\ b <= rcvd + n + MaxWindow
    BY <1>8, <2>4, <2>5, ApartShift, Zenon
  <2>7. PICK r \in Nat : r = rcvd + n
    OBVIOUS
  <2>8. PICK e \in SeqSpace : e = SeqAdd(seq, n)
    BY <1>8, AddType
  <2>9. Apart(g.seq, e, b - r)
    BY <2>6, <2>7, <2>8, ZenonT(30)
  <2>10. r - MaxWindow <= b /\ b <= r + MaxWindow
    BY <2>6, <2>7, Spaces
  <2>11. Placed(g, e, r, sent, shut)
    BY <2>2, <2>3, <2>9, <2>10, ZenonT(30) DEF Placed
  <2> QED BY <2>1, <2>7, <2>8, <2>11, Zenon
<1>12. ASSUME NEW i \in 1 .. Len(t), NEW j \in 1 .. Len(t), i < j PROVE Follows(t[i], t[j], sent)
  <2>1. Stream(t, seq, rcvd, sent, shut)
    BY <1>4, <1>9, StreamTail, Zenon
  <2> QED BY <1>12, <2>1, Zenon DEF Stream
<1>13. Stream(t, SeqAdd(seq, n), rcvd + n, sent, shut)
  BY <1>11, <1>12, Zenon DEF Stream
<1>14. \A m \in Nat : m = Len(h.payload) + Bit("FIN" \in h.flags) =>
         Stream(t, SeqAdd(seq, m), rcvd + m, sent, shut)
  <2> SUFFICES ASSUME NEW m \in Nat, m = Len(h.payload) + Bit("FIN" \in h.flags)
               PROVE  m = n
    BY <1>13, Zenon
  <2> QED BY <1>2, <1>3, Zenon
<1> QED BY <1>1, <1>2, <1>7, <1>9, <1>14, Zenon

\* on_established takes the bytes and the FIN of a segment that is in order.
LEMMA UpAfterHostTakes ==
    ASSUME FlightInv, DevTypes, Met, toHost # <<>>, NEW h, h = Head(toHost), OnEstablished(h),
           Carries(h), InOrder(h), toHost' = Tail(toHost), UNCHANGED devVars
    PROVE  UpReceived' /\ UpStream' /\ UpAcks' /\ UpWindow'
<1> USE DEF devVars, appVars
<1>0. TypeOK /\ UpReceived /\ UpStream /\ UpAcks /\ UpWindow
  BY Zenon DEF FlightInv, Met
<1>1. /\ h \in Segment /\ (IsFin(h) <=> "FIN" \in h.flags) /\ toHost \in Seq(Segment)
      /\ h.payload \in Seq(Nat)
  BY EstablishedAck, SegmentType, Zenon DEF DevTypes
<1>2. /\ ApplyPayload(h) /\ UNCHANGED <<taken, toDev, state>> /\ h.seq = rcvNxt /\ peerFin = NoSeq
      /\ Live /\ Live' /\ HostExpects = rcvNxt /\ HostExpects' = rcvNxt' /\ rcvNxt \in SeqSpace
  BY <1>0, <1>1, Zenon DEF OnEstablished, Carries, InOrder, Live, HostExpects, TypeOK
<1>3. /\ DevSendSame /\ UNCHANGED <<DevFlight, DevAcked, devSent, devFin, devSndUna, devEdge>>
  BY Kept, Zenon DEF DevSendSame
<1>4. PICK l \in Nat, e \in 0 .. 1, a \in Nat, b \in Nat, s \in Nat, u \in Nat, rw \in Nat, m \in Nat :
        /\ l = Len(h.payload) /\ e = Bit("FIN" \in h.flags) /\ a = Len(taken)
        /\ b = Len(inbound) /\ s = devSent /\ u = DevAcked /\ rw = ReceiveWindow /\ m = DevFlight
  <2>1. /\ Len(h.payload) \in Nat /\ Len(taken) \in Nat /\ Len(inbound) \in Nat /\ devSent \in Nat
        /\ DevAcked \in Nat /\ ReceiveWindow \in Nat /\ DevFlight \in Nat
    BY <1>0, <1>1, SegmentType, HostNumbers, UpNumbers, DevNumbers, SizeAssumption, ZenonT(30)
       DEF DevTypes
  <2> QED BY <2>1, BitType, Zenon
<1>5. PICK n \in Nat, r \in Nat : n = l + e /\ r = a + b
  OBVIOUS
<1>6. /\ HostRcvd = r /\ HostFree = rw - b /\ a + b <= s /\ s <= a + rw /\ u <= r
      /\ s <= r + MaxWindow /\ m <= MaxWindow
  <2>1. HostRcvd = r
    BY <1>2, <1>4, <1>5 DEF HostRcvd, Bit
  <2>2. a + b <= s /\ s <= a + rw /\ HostFree = rw - b
    BY <1>0, <1>4, Zenon DEF UpReceived, HostFree
  <2>3. u <= r /\ s <= r + MaxWindow /\ m <= MaxWindow
    BY <1>0, <1>4, <2>1, UpNumbers, Zenon DEF UpAcks, UpWindow
  <2> QED BY <2>1, <2>2, <2>3, ZenonT(30)
<1>7. /\ n <= MaxWindow + 1 /\ r + l <= s
      /\ "FIN" \in h.flags => devFin # NoSeq /\ r + l = s
      /\ \A k \in 1 .. l : h.payload[k] = r + k
      /\ Stream(Tail(toHost), SeqAdd(rcvNxt, n), r + n, s, devFin # NoSeq)
  <2>1. PICK shut \in BOOLEAN : shut <=> devFin # NoSeq
    BY Zenon
  <2>2. Stream(toHost, rcvNxt, r, s, shut)
    BY <1>0, <1>2, <1>4, <1>6, <2>1, ZenonT(30) DEF UpStream, Stream, Placed
  <2>3. /\ n <= MaxWindow + 1 /\ r + l <= s
        /\ "FIN" \in h.flags => shut /\ r + l = s
        /\ \A k \in 1 .. l : h.payload[k] = r + k
        /\ Stream(Tail(toHost), SeqAdd(rcvNxt, n), r + n, s, shut)
    <3>1. n = l + Bit("FIN" \in h.flags) /\ s <= r + MaxWindow /\ l = Len(h.payload)
      BY <1>4, <1>5, <1>6, Zenon
    <3>2. h.seq = rcvNxt /\ rcvNxt \in SeqSpace
      BY <1>2, Zenon
    <3>3. shut \in BOOLEAN /\ l \in Nat /\ n \in Nat /\ r \in Nat /\ s \in Nat
      BY <1>4, <1>5, <2>1, Zenon
    <3>4. /\ r + l <= s /\ ("FIN" \in h.flags => shut /\ r + l = s)
          /\ \A k \in 1 .. l : h.payload[k] = r + k
          /\ \A i \in Nat : i = l + Bit("FIN" \in h.flags) =>
               Stream(Tail(toHost), SeqAdd(rcvNxt, i), r + i, s, shut)
      <4>1. PICK q \in Seq(Segment) : q = toHost
        BY <1>1, Zenon
      <4>2. /\ q # <<>> /\ Carries(Head(q)) /\ Head(q) = h
            /\ Stream(q, Head(q).seq, r, s, shut)
        BY <2>2, <3>2, <4>1, Zenon
      <4>3. s <= r + MaxWindow
        BY <3>1, ZenonT(30)
      <4>4. /\ r + Len(Head(q).payload) <= s
            /\ "FIN" \in Head(q).flags => shut /\ r + Len(Head(q).payload) = s
            /\ \A k \in 1 .. Len(Head(q).payload) : Head(q).payload[k] = r + k
            /\ \A i \in Nat : i = Len(Head(q).payload) + Bit("FIN" \in Head(q).flags) =>
                 Stream(Tail(q), SeqAdd(Head(q).seq, i), r + i, s, shut)
        BY <3>3, <4>1, <4>2, <4>3, StreamTakes
      <4> QED BY <3>1, <3>2, <4>1, <4>2, <4>4, ZenonT(30)
    <3>5. n <= MaxWindow + 1
      <4>1. n = l + e /\ r + l <= s /\ s <= r + MaxWindow /\ e \in 0 .. 1 /\ MaxWindow \in Nat
        BY <1>4, <1>5, <3>1, <3>4, Spaces, Zenon
      <4> QED BY <3>3, <4>1
    <3> QED BY <3>1, <3>3, <3>4, <3>5, Zenon
  <2> QED BY <2>1, <2>3, Zenon DEF Stream, Placed
<1>8. l <= MaxWindow /\ r + n <= u + m /\ m = (s + Bit(devFin # NoSeq)) - u
  <2>1. PICK g \in 0 .. 1 : g = Bit(devFin # NoSeq)
    BY BitType, Zenon
  <2>2. u = (s + g) - m /\ (e = 1 => g = 1)
    BY <1>4, <1>7, <2>1, Zenon DEF DevAcked, DevUsed, Bit
  <2>3. l <= MaxWindow /\ r + n <= u + m /\ m = (s + g) - u
    <3>1. r + l <= s /\ s <= r + MaxWindow /\ n = l + e /\ MaxWindow \in Nat
      BY <1>5, <1>6, <1>7, Spaces, Zenon
    <3> QED BY <2>2, <3>1
  <2> QED BY <2>1, <2>3, Zenon
<1>9. rcvNxt' = SeqAdd(rcvNxt, n) /\ (peerFin' # NoSeq <=> "FIN" \in h.flags)
  <2>1. SeqAdd(SeqAdd(rcvNxt, l), 1) = SeqAdd(rcvNxt, l + 1) /\ SeqAdd(rcvNxt, l) \in SeqSpace
    BY <1>2, <1>8, AddTwice, Zenon
  <2>2. CASE "FIN" \in h.flags
    <3>1. n = l + 1
      BY <1>4, <1>5, <2>2, Zenon DEF Bit
    <3>2. /\ rcvNxt' = SeqAdd(SeqAdd(rcvNxt, l), 1) /\ peerFin' = SeqAdd(rcvNxt, l)
      BY <1>1, <1>2, <1>4, <2>2, ZenonT(30) DEF ApplyPayload
    <3> QED BY <2>1, <2>2, <3>1, <3>2, SequenceAssumption, Zenon
  <2>3. CASE "FIN" \notin h.flags
    <3>1. n = l
      BY <1>4, <1>5, <2>3 DEF Bit
    <3>2. rcvNxt' = SeqAdd(rcvNxt, l) /\ peerFin' = peerFin
      BY <1>1, <1>2, <1>4, <2>3, Zenon DEF ApplyPayload
    <3> QED BY <1>2, <2>3, <3>1, <3>2, ZenonT(30)
  <2> QED BY <2>2, <2>3, Zenon
<1>10. Len(inbound') = b + l /\ \A k \in 1 .. b + l : inbound'[k] = a + k
  <2>1. inbound' = inbound \o h.payload /\ inbound \in Seq(Nat)
    BY <1>0, <1>2, Zenon DEF ApplyPayload, TypeOK
  <2>2. \A k \in 1 .. Len(inbound) : inbound[k] = a + k
    BY <1>0, <1>4, Zenon DEF UpReceived
  <2>3. \A k \in 1 .. Len(h.payload) : h.payload[k] = a + Len(inbound) + k
    BY <1>4, <1>5, <1>7, Zenon
  <2>4. /\ Len(inbound \o h.payload) = Len(inbound) + Len(h.payload)
        /\ \A k \in 1 .. Len(inbound) + Len(h.payload) : (inbound \o h.payload)[k] = a + k
    BY <1>1, <2>1, <2>2, <2>3, InOrderAppend, ZenonT(30)
  <2> QED BY <1>4, <2>1, <2>4, Zenon
<1>11. UpReceived'
  <2>1. a + (b + l) <= s /\ ("FIN" \in h.flags => devFin # NoSeq /\ a + (b + l) = s)
    BY <1>5, <1>7
  <2>2. \A k \in 1 .. a : taken[k] = k
    BY <1>0, <1>4, Zenon DEF UpReceived
  <2> QED BY <1>2, <1>3, <1>4, <1>6, <1>9, <1>10, <2>1, <2>2, Zenon DEF UpReceived
<1>12. HostRcvd' = r + n /\ HostFree' = rw - (b + l)
  <2>1. Bit(peerFin' # NoSeq) = e
    BY <1>4, <1>9, Zenon DEF Bit
  <2>2. HostRcvd' = a + (b + l) + e
    BY <1>2, <1>4, <1>10, <2>1, ZenonT(30) DEF HostRcvd
  <2>3. HostFree' = rw - (b + l)
    BY <1>4, <1>10, Zenon DEF HostFree
  <2> QED BY <1>5, <2>2, <2>3
<1>13. UpStream'
  BY <1>2, <1>3, <1>4, <1>7, <1>9, <1>12, ZenonT(30) DEF UpStream
<1>14. PICK k \in Nat, f \in Int, g \in Int :
         k = r - u /\ f = k + (rw - b) /\ g = k + n + (rw - (b + l)) /\ f <= g
  BY <1>5, <1>6
<1>15. r + n - u = k + n /\ r + n - u + (rw - (b + l)) = g /\ k + n <= MaxWindow
  <2>1. k = r - u /\ g = k + n + (rw - (b + l)) /\ r + n <= u + m /\ m <= MaxWindow
    BY <1>6, <1>8, <1>14, Zenon
  <2> QED BY <2>1, Spaces
<1>16. UpAcks'
  <2>1. /\ Acks(toDev, devSndUna, k, f) /\ toDev \in Seq(Segment) /\ devSndUna \in SeqSpace
        /\ Apart(rcvNxt, devSndUna, k)
    BY <1>0, <1>2, <1>4, <1>6, <1>14, ZenonT(30) DEF UpAcks, TypeOK, DevTypes
  <2>2. Acks(toDev, devSndUna, k + n, g)
    <3>1. k \in Int /\ k + n \in Int /\ k <= k + n /\ f <= g
      BY <1>14
    <3> QED BY <2>1, <3>1, AcksGrow, Zenon
  <2>3. Apart(rcvNxt', devSndUna, k + n)
    BY <1>2, <1>9, <1>15, <2>1, ApartAhead, ZenonT(30)
  <2>4. 0 <= u /\ u <= r + n
    BY <1>6
  <2>5. HostRcvd' - DevAcked' = k + n /\ HostRcvd' - DevAcked' + HostFree' = g
    BY <1>3, <1>4, <1>12, <1>15
  <2>6. 0 <= DevAcked' /\ DevAcked' <= HostRcvd'
    BY <1>3, <1>4, <1>12, <2>4, Zenon
  <2>7. \A i \in 1 .. Len(toDev) : HasAck(toDev[i]) => SeqSub(toDev[i].ack, devSndUna) <= MaxWindow
    BY <1>0, Zenon DEF UpAcks
  <2> QED BY <1>2, <2>2, <2>3, <2>5, <2>6, <2>7, ZenonT(30) DEF UpAcks
<1>17. UpWindow'
  <2>1. PICK w \in 0 .. MaxWindow : devEdge = SeqAdd(devSndUna, w) /\ w <= f
    BY <1>0, <1>4, <1>6, <1>14, Zenon DEF UpWindow
  <2>2. w <= g
    <3>1. f <= g /\ w <= f /\ w \in Int
      BY <1>14, <2>1, Spaces
    <3> QED BY <3>1
  <2> QED BY <1>0, <1>3, <1>4, <1>12, <1>15, <2>1, <2>2 DEF UpWindow
<1> QED BY <1>11, <1>13, <1>16, <1>17, Zenon

LEMMA MetEstablished ==
    ASSUME FlightInv, DevTypes, Met, toHost # <<>>, NEW h, h = Head(toHost), OnEstablished(h),
           toHost' = Tail(toHost), UNCHANGED devVars
    PROVE  Met'
<1> USE DEF devVars, appVars, recvVars
<1>1. DownReceived' /\ DownStream' /\ DownAcks' /\ DownWindow'
  BY DownAfterHostHears, Zenon
<1>2. UpReceived' /\ UpStream' /\ UpAcks' /\ UpWindow'
  <2>1. CASE Carries(h) /\ InOrder(h)
    BY <2>1, UpAfterHostTakes, Zenon
  <2>2. CASE ~(Carries(h) /\ InOrder(h))
    <3>1. IsFin(h) <=> "FIN" \in h.flags
      BY EstablishedAck, Zenon
    <3>2. HostRecvSame /\ DevSendSame /\ UNCHANGED <<state, toDev>> /\ state = "Established"
      BY <2>2, <3>1, Zenon DEF OnEstablished, Carries, HostRecvSame, DevSendSame
    <3>3. TypeOK /\ UpReceived /\ UpStream /\ UpAcks /\ UpWindow
      BY Zenon DEF FlightInv, Met
    <3>4. Quiet(toHost, toHost') /\ Quiet(toDev, toDev')
      BY <3>2, Zenon DEF Quiet
    <3>5. UpReceived' /\ UpWindow'
      BY <3>2, <3>3, UpReceivedKept, UpWindowKept, Zenon
    <3>6. UNCHANGED <<Live, HostExpects, HostRcvd, HostFree, devSent, devFin, devSndUna, DevAcked>>
      BY <3>2, Kept, Zenon DEF Live, HostExpects, HostRecvSame, DevSendSame
    <3>7. UpAcks'
      BY <3>2, <3>3, <3>6, Zenon DEF UpAcks
    <3>8. UpStream'
      <4>1. Live => Stream(toHost', HostExpects, HostRcvd, devSent, devFin # NoSeq)
        BY <3>3, <3>4, StreamQuiet, Zenon DEF UpStream, DevTypes
      <4> QED BY <3>6, <4>1, Zenon DEF UpStream
    <3> QED BY <3>5, <3>7, <3>8, Zenon
  <2> QED BY <2>1, <2>2, Zenon
<1>3. state' # "SynSent" /\ devState' # "Listen"
  BY Zenon DEF OnEstablished, Met
<1> QED BY <1>1, <1>2, <1>3, Zenon DEF Met

-----------------------------------------------------------------------------
(* The device receives.                                                    *)

\* A window in the header is at most the widest one.
LEMMA WireFits ==
    ASSUME NEW win \in Nat
    PROVE  OnWire(win) \in 0 .. MaxWindow
<1>1. WindowUnit \in Nat \ {0} /\ MaxWindow \in Nat
  BY DeviceAssumption, WindowAssumption, Zenon
<1>2. PICK a \in Nat, b \in Nat : a = win \div WindowUnit /\ b = MaxWindow \div WindowUnit
  BY <1>1
<1>3. b * WindowUnit <= MaxWindow
  BY <1>1, <1>2
<1>4. PICK c \in Nat : c = Least(a, b) /\ c <= b
  BY DEF Least
<1>5. c * WindowUnit \in Nat /\ c * WindowUnit <= b * WindowUnit
  BY <1>1, <1>4
<1>6. OnWire(win) = c * WindowUnit
  BY <1>2, <1>4, Zenon DEF OnWire
<1> QED BY <1>1, <1>3, <1>5, <1>6

\* The sender's end moves on by d: that much less is in flight.
LEMMA FlightAfter ==
    ASSUME NEW nxt \in SeqSpace, NEW una \in SeqSpace, NEW a \in SeqSpace,
           NEW d \in 0 .. MaxWindow, SeqSub(a, una) = d, NEW m \in Nat, SeqSub(nxt, una) = m,
           d <= m, m <= MaxWindow
    PROVE  SeqSub(nxt, a) = m - d
BY Spaces, InSpace DEF SeqSub

LEMMA NewestAck ==
    ASSUME NEW una \in SeqSpace, NEW a \in SeqSpace, SeqSub(a, una) <= MaxWindow
    PROVE  (IF SeqGt(a, una) THEN a ELSE una) = a /\ SeqSub(a, una) \in 0 .. MaxWindow
BY Spaces, InSpace DEF SeqSub, SeqGt

LEMMA UpAfterDevHears ==
    ASSUME FlightInv, DevTypes, Met, DevReceive, NEW seg, seg = Head(toDev), HasAck(seg)
    PROVE  UpReceived' /\ UpStream' /\ UpAcks' /\ UpWindow'
<1>0. TypeOK /\ UpReceived /\ UpStream /\ UpAcks /\ UpWindow
  BY Zenon DEF FlightInv, Met
<1>1. /\ toDev # <<>> /\ toDev' = Tail(toDev)
      /\ devSndUna' = IF SeqGt(seg.ack, devSndUna) THEN seg.ack ELSE devSndUna
      /\ devEdge' = SeqAdd(seg.ack, OnWire(seg.win))
      /\ UNCHANGED <<state, taken, inbound, peerFin, rcvNxt, devSndNxt, devSent, devFin, toHost>>
  BY Zenon DEF DevReceive, Arrived, Arriving, HasAck, recvVars, appVars
<1>2. /\ toDev \in Seq(Segment) /\ seg \in Segment /\ seg = toDev[1] /\ 1 \in 1 .. Len(toDev)
      /\ seg.ack \in SeqSpace /\ seg.win \in Nat /\ devSndUna \in SeqSpace /\ devSndNxt \in SeqSpace
  <2>1. toDev \in Seq(Segment) /\ devSndUna \in SeqSpace /\ devSndNxt \in SeqSpace
    BY <1>0, Zenon DEF TypeOK, DevTypes
  <2>2. seg \in Segment /\ seg = toDev[1] /\ 1 \in 1 .. Len(toDev)
    BY <1>1, <2>1, TailIs
  <2> QED BY <2>1, <2>2, SegmentType, Zenon
<1>3. HostRecvSame /\ UNCHANGED <<Live, HostExpects, HostRcvd, HostFree, DevUsed>>
  BY <1>1, Kept, Zenon DEF HostRecvSame, Live, HostExpects, DevUsed
<1>4. UpReceived' /\ UpStream'
  BY <1>0, <1>1, <1>3, Zenon DEF UpReceived, UpStream
<1>5. PICK d \in 0 .. MaxWindow : SeqSub(seg.ack, devSndUna) = d /\ devSndUna' = seg.ack
  <2>1. SeqSub(seg.ack, devSndUna) <= MaxWindow
    BY <1>0, <1>2, Zenon DEF UpAcks
  <2> QED BY <1>1, <1>2, <2>1, NewestAck, Zenon
<1>6. PICK k \in Nat, r \in Nat, u \in Nat, s \in Nat, m \in Nat, f \in Nat, w \in Nat :
        /\ k = HostRcvd - DevAcked /\ r = HostRcvd /\ u = DevAcked /\ s = DevUsed
        /\ m = DevFlight /\ f = HostFree /\ w = seg.win
  <2>1. HostRcvd - DevAcked \in 0 .. MaxWindow /\ HostFree \in 0 .. ReceiveWindow
    BY <1>0, UpNumbers, Zenon
  <2>2. HostRcvd - DevAcked \in Nat /\ HostFree \in Nat
    BY <2>1, Spaces, SizeAssumption
  <2>3. /\ DevFlight \in Nat /\ DevUsed \in Nat /\ DevAcked \in Nat /\ HostRcvd \in Nat
    BY <1>0, UpNumbers, HostNumbers, DevNumbers, ZenonT(30)
  <2> QED BY <1>2, <2>2, <2>3, Zenon
<1>7. k = r - u /\ s = u + m /\ k <= MaxWindow /\ r <= s /\ m <= MaxWindow /\ d \in Nat
  <2>1. HostRcvd - DevAcked \in 0 .. MaxWindow /\ HostRcvd <= DevUsed /\ DevFlight <= MaxWindow
    BY <1>0, UpNumbers, Zenon DEF UpWindow
  <2>2. u = s - m
    BY <1>6, Zenon DEF DevAcked
  <2> QED BY <1>6, <2>1, <2>2, Spaces
<1>8. /\ d <= k /\ d + w <= k + f /\ Acks(Tail(toDev), seg.ack, k - d, k + f - d)
      /\ \A i \in 1 .. Len(Tail(toDev)) :
           HasAck(Tail(toDev)[i]) /\ SeqSub(Tail(toDev)[i].ack, devSndUna) <= MaxWindow =>
               SeqSub(Tail(toDev)[i].ack, seg.ack) <= MaxWindow
  <2>1. Acks(toDev, devSndUna, k, k + f)
    BY <1>0, <1>6, Zenon DEF UpAcks
  <2>2. PICK a \in Int, e \in Int : a = k /\ e = k + f
    OBVIOUS
  <2>3. PICK q \in Seq(Segment) : q = toDev
    BY <1>2, Zenon
  <2>4. q # <<>> /\ seg = Head(q) /\ Acks(q, devSndUna, a, e)
    BY <1>1, <2>1, <2>2, <2>3, ZenonT(30)
  <2>5. /\ d <= a /\ d + seg.win <= e /\ Acks(Tail(q), seg.ack, a - d, e - d)
        /\ \A i \in 1 .. Len(Tail(q)) :
             HasAck(Tail(q)[i]) /\ SeqSub(Tail(q)[i].ack, devSndUna) <= MaxWindow =>
                 SeqSub(Tail(q)[i].ack, seg.ack) <= MaxWindow
    BY <1>2, <1>5, <2>3, <2>4, AcksTake, Zenon
  <2> QED BY <1>6, <2>2, <2>3, <2>5
<1>9. DevFlight' = m - d /\ DevAcked' = u + d
  <2>1. SeqSub(devSndNxt, seg.ack) = m - d
    <3>1. d <= m
      BY <1>7, <1>8
    <3>2. SeqSub(devSndNxt, devSndUna) = m
      BY <1>6, Zenon DEF DevFlight
    <3> QED BY <1>2, <1>5, <1>7, <3>1, <3>2, FlightAfter
  <2>2. DevFlight' = m - d /\ DevAcked' = s - (m - d)
    BY <1>1, <1>3, <1>5, <1>6, <2>1, Zenon DEF DevFlight, DevAcked
  <2> QED BY <1>7, <2>2
<1>10. r - (u + d) = k - d /\ r - (u + d) + f = k + f - d /\ 0 <= u + d /\ u + d <= r
  BY <1>7, <1>8
<1>11. UpAcks'
  <2>1. Live => Apart(HostExpects, seg.ack, k - d)
    <3> SUFFICES ASSUME Live PROVE Apart(HostExpects, seg.ack, k - d)
      BY Zenon
    <3>1. Apart(HostExpects, devSndUna, k) /\ HostExpects \in SeqSpace
      BY <1>0, <1>6, HostNumbers, Zenon DEF UpAcks
    <3> QED BY <1>2, <1>5, <1>7, <1>8, <3>1, ApartAfter, Zenon
  <2>2. ASSUME NEW i \in 1 .. Len(Tail(toDev)), HasAck(Tail(toDev)[i])
        PROVE  SeqSub(Tail(toDev)[i].ack, seg.ack) <= MaxWindow
    <3>1. i + 1 \in 1 .. Len(toDev) /\ Tail(toDev)[i] = toDev[i + 1]
      BY <1>1, <1>2, TailIs, Zenon
    <3>2. SeqSub(Tail(toDev)[i].ack, devSndUna) <= MaxWindow
      BY <1>0, <2>2, <3>1, Zenon DEF UpAcks
    <3> QED BY <1>8, <2>2, <3>2, Zenon
  <2>3. HostRcvd' - DevAcked' = k - d /\ HostRcvd' - DevAcked' + HostFree' = k + f - d
    BY <1>3, <1>6, <1>9, <1>10, Zenon
  <2>4. 0 <= DevAcked' /\ DevAcked' <= HostRcvd'
    BY <1>3, <1>6, <1>9, <1>10, Zenon
  <2> QED BY <1>1, <1>3, <1>5, <1>8, <2>1, <2>2, <2>3, <2>4, Zenon DEF UpAcks
<1>12. UpWindow'
  <2>1. PICK v \in 0 .. MaxWindow : v = OnWire(w) /\ v <= w
    BY WireWindow, WireFits
  <2>2. v <= k + f - d /\ m - d <= MaxWindow
    <3>1. v \in Nat /\ v <= w /\ d + w <= k + f /\ m <= MaxWindow /\ MaxWindow \in Nat /\ d \in Nat
      BY <1>7, <1>8, <2>1, Spaces
    <3> QED BY <3>1
  <2>3. devEdge' = SeqAdd(devSndUna', v)
    BY <1>1, <1>5, <1>6, <2>1, Zenon
  <2>4. HostRcvd' - DevAcked' + HostFree' = k + f - d
    BY <1>3, <1>6, <1>9, <1>10, Zenon
  <2> QED BY <1>9, <2>1, <2>2, <2>3, <2>4, Zenon DEF UpWindow
<1> QED BY <1>4, <1>11, <1>12, Zenon

LEMMA InOrderFromStart ==
    ASSUME NEW q \in Seq(Nat), NEW p \in Seq(Nat),
           \A k \in 1 .. Len(q) : q[k] = k,
           \A k \in 1 .. Len(p) : p[k] = Len(q) + k
    PROVE  /\ Len(q \o p) = Len(q) + Len(p)
           /\ \A k \in 1 .. Len(q) + Len(p) : (q \o p)[k] = k
<1>1. PICK a \in Nat, b \in Nat : a = Len(q) /\ b = Len(p)
  BY LenProperties, Zenon
<1>2. ASSUME NEW k \in 1 .. Len(q) PROVE q[k] = 0 + k
  BY <1>1
<1>3. ASSUME NEW k \in 1 .. Len(p) PROVE p[k] = 0 + Len(q) + k
  <2>1. 0 + a = a
    OBVIOUS
  <2>2. p[k] = Len(q) + k
    BY <1>3, Zenon
  <2> QED BY <1>1, <2>1, <2>2, Zenon
<1>4. /\ Len(q \o p) = Len(q) + Len(p)
      /\ \A k \in 1 .. Len(q) + Len(p) : (q \o p)[k] = 0 + k
  <2>1. 0 \in Nat
    BY Zenon
  <2> QED BY <1>2, <1>3, <2>1, InOrderAppend, Zenon
<1>5. ASSUME NEW k \in 1 .. a + b PROVE 0 + k = k
  BY <1>1
<1> QED BY <1>1, <1>4, <1>5, Zenon

\* The device keeps the bytes and the FIN of a segment that is in order and fits.
LEMMA DownAfterDevKeeps ==
    ASSUME FlightInv, DevTypes, Met, DevReceive, NEW seg, seg = Head(toDev), HasAck(seg),
           Carries(seg), seg.seq = devRcvNxt, ~devEof, Len(seg.payload) <= DevCap - devUnread
    PROVE  DownReceived' /\ DownStream' /\ DownAcks' /\ DownWindow' /\ devUnread' \in 0 .. DevCap
<1>0. TypeOK /\ DownReceived /\ DownStream /\ DownAcks /\ DownWindow
  BY Zenon DEF FlightInv, Met
<1>1. /\ toDev # <<>> /\ toDev' = Tail(toDev) /\ devUnread' = devUnread + Len(seg.payload)
      /\ devGot' = devGot \o seg.payload /\ (devEof' <=> "FIN" \in seg.flags)
      /\ devRcvNxt' = SeqAdd(devRcvNxt, IF "FIN" \in seg.flags THEN Len(seg.payload) + 1
                                                             ELSE Len(seg.payload))
      /\ UNCHANGED <<state, sndNxt, sndUna, sentFin, sndWndEdge, peerWindow, written, outbound,
                     rcvNxt, taken, inbound, peerFin, toHost>>
  BY Zenon DEF DevReceive, Arrived, Arriving, HasAck, sendVars, windowVars, recvVars, appVars
<1>2. /\ toDev \in Seq(Segment) /\ seg \in Segment /\ seg.payload \in Seq(Nat)
      /\ devGot \in Seq(Nat) /\ devRcvNxt \in SeqSpace /\ toHost \in Seq(Segment)
  <2>1. toDev \in Seq(Segment) /\ devGot \in Seq(Nat) /\ devRcvNxt \in SeqSpace
        /\ toHost \in Seq(Segment)
    BY <1>0, Zenon DEF TypeOK, DevTypes
  <2>2. seg \in Segment
    BY <1>1, <2>1, TailIs, Zenon
  <2> QED BY <2>1, <2>2, SegmentType, Zenon
<1>3. HostSendSame /\ UNCHANGED <<Live, HostUna, HostBytes, HostSent, HostAcked, InFlight>>
  <2>1. HostSendSame
    BY <1>1, Zenon DEF HostSendSame, HostBytes
  <2> QED BY <1>1, <2>1, Kept, Zenon DEF Live, HostUna, HostBytes
<1>4. PICK l \in Nat, e \in 0 .. 1, g \in Nat, s \in Nat, t \in Nat, u \in Nat, m \in Nat,
           f \in Nat, v \in Nat :
        /\ l = Len(seg.payload) /\ e = Bit("FIN" \in seg.flags) /\ g = Len(devGot)
        /\ s = HostBytes /\ t = HostSent /\ u = HostAcked /\ m = InFlight /\ f = DevFree
        /\ v = devUnread
  <2>1. /\ Len(seg.payload) \in Nat /\ Len(devGot) \in Nat /\ HostBytes \in Nat /\ HostSent \in Nat
        /\ HostAcked \in Nat /\ InFlight \in Nat /\ DevFree \in Nat /\ devUnread \in Nat
    <3>1. Len(seg.payload) \in Nat /\ Len(devGot) \in Nat
      BY <1>2, LenProperties, Zenon
    <3>2. devUnread \in Nat
      BY DevFreeIs, Zenon
    <3>3. HostBytes \in Nat /\ HostSent \in Nat /\ HostAcked \in Nat
      BY <1>0, DownNumbers, Zenon
    <3>4. InFlight \in Nat /\ DevFree \in Nat
      BY <1>0, HostNumbers, DevNumbers, Zenon
    <3> QED BY <3>1, <3>2, <3>3, <3>4, Zenon
  <2> QED BY <2>1, BitType, Zenon
<1>5. PICK n \in Nat, k \in Nat, cap \in Nat :
        n = l + e /\ k = g - u /\ cap = DevCap /\ cap <= MaxWindow /\ f = cap - v /\ v <= cap
  <2>1. u <= g
    BY <1>0, <1>4, DevOpen, Zenon DEF DownAcks
  <2>2. DevCap \in Nat /\ DevCap <= MaxWindow
    BY DeviceAssumption, Spaces
  <2>3. f = DevCap - v /\ v <= DevCap
    BY <1>4, DevFreeIs, Zenon
  <2> QED BY <2>1, <2>2, <2>3
<1>6. DevRcvd = g /\ l <= f /\ g <= s /\ s <= g + f /\ s <= g + MaxWindow /\ f <= MaxWindow
      /\ t = u + m /\ m <= MaxWindow
  <2>1. DevRcvd = g
    BY <1>4, DevOpen, Zenon
  <2>2. g <= s /\ s <= g + f
    BY <1>0, <1>4, Zenon DEF DownReceived
  <2>3. l <= f
    BY <1>4, <1>5, Zenon
  <2>4. t = u + m /\ m <= MaxWindow
    BY <1>0, <1>4, DownNumbers, Spaces
  <2>5. f <= MaxWindow /\ MaxWindow \in Nat
    BY <1>5, Spaces
  <2> QED BY <2>1, <2>2, <2>3, <2>4, <2>5
<1>7. /\ g + l <= s
      /\ "FIN" \in seg.flags => sentFin # NoSeq /\ g + l = s
      /\ \A i \in 1 .. l : seg.payload[i] = g + i
      /\ Stream(Tail(toDev), SeqAdd(devRcvNxt, n), g + n, s, sentFin # NoSeq)
  <2>1. PICK shut \in BOOLEAN : shut <=> sentFin # NoSeq
    BY Zenon
  <2>2. PICK q \in Seq(Segment) : q = toDev
    BY <1>2, Zenon
  <2>3. /\ q # <<>> /\ Carries(Head(q)) /\ Head(q) = seg
        /\ Stream(q, Head(q).seq, g, s, shut)
    BY <1>0, <1>1, <1>4, <1>6, <2>1, <2>2, ZenonT(30) DEF DownStream, Stream, Placed
  <2>4. s <= g + MaxWindow /\ shut \in BOOLEAN
    BY <1>6, <2>1, ZenonT(30)
  <2>5. /\ g + Len(Head(q).payload) <= s
        /\ "FIN" \in Head(q).flags => shut /\ g + Len(Head(q).payload) = s
        /\ \A i \in 1 .. Len(Head(q).payload) : Head(q).payload[i] = g + i
        /\ \A i \in Nat : i = Len(Head(q).payload) + Bit("FIN" \in Head(q).flags) =>
             Stream(Tail(q), SeqAdd(Head(q).seq, i), g + i, s, shut)
    BY <2>2, <2>3, <2>4, StreamTakes
  <2>6. n \in Nat /\ n = Len(seg.payload) + Bit("FIN" \in seg.flags)
    BY <1>4, <1>5, Zenon
  <2>7. Stream(Tail(toDev), SeqAdd(devRcvNxt, n), g + n, s, shut)
    BY <2>2, <2>3, <2>5, <2>6, Zenon
  <2> QED BY <1>4, <2>1, <2>3, <2>5, <2>7, Zenon DEF Stream, Placed
<1>8. devRcvNxt' = SeqAdd(devRcvNxt, n) /\ (devEof' <=> "FIN" \in seg.flags) /\ Bit(devEof') = e
  <2>1. CASE "FIN" \in seg.flags
    <3>1. e = 1 /\ n = l + 1 /\ devEof'
      BY <1>1, <1>4, <1>5, <2>1, Zenon DEF Bit
    <3> QED BY <1>1, <1>4, <2>1, <3>1, Zenon DEF Bit
  <2>2. CASE "FIN" \notin seg.flags
    <3>1. e = 0 /\ n = l /\ ~devEof'
      BY <1>1, <1>4, <1>5, <2>2 DEF Bit
    <3> QED BY <1>1, <1>4, <2>2, <3>1, ZenonT(30) DEF Bit
  <2> QED BY <2>1, <2>2, Zenon
<1>9. Len(devGot') = g + l /\ \A i \in 1 .. g + l : devGot'[i] = i
  <2>1. \A i \in 1 .. Len(devGot) : devGot[i] = i
    BY <1>0, Zenon DEF DownReceived
  <2>2. \A i \in 1 .. Len(seg.payload) : seg.payload[i] = Len(devGot) + i
    BY <1>4, <1>7, Zenon
  <2>3. /\ Len(devGot \o seg.payload) = Len(devGot) + Len(seg.payload)
        /\ \A i \in 1 .. Len(devGot) + Len(seg.payload) : (devGot \o seg.payload)[i] = i
    BY <1>2, <2>1, <2>2, InOrderFromStart, Zenon
  <2> QED BY <1>1, <1>4, <2>3, Zenon
<1>10. DevRcvd' = g + n /\ DevFree' = f - l /\ devUnread' = v + l /\ devUnread' \in 0 .. DevCap
  <2>1. DevRcvd' = g + l + e
    BY <1>8, <1>9, Zenon DEF DevRcvd
  <2>2. devUnread' = v + l
    BY <1>1, <1>4, Zenon
  <2>3. DevFree' = cap - (v + l)
    BY <1>5, <2>2, Zenon DEF DevFree
  <2>4. g + l + e = g + n /\ cap - (v + l) = f - l /\ v + l \in 0 .. cap
    BY <1>5, <1>6
  <2> QED BY <1>5, <2>1, <2>2, <2>3, <2>4, Zenon
<1>11. DownReceived'
  <2>1. s <= (g + l) + (f - l)
    BY <1>6
  <2>2. HostBytes' = s /\ sentFin' = sentFin
    BY <1>1, <1>3, <1>4, Zenon
  <2> QED BY <1>7, <1>8, <1>9, <1>10, <2>1, <2>2, ZenonT(30) DEF DownReceived
<1>12. DownStream'
  BY <1>1, <1>3, <1>4, <1>7, <1>8, <1>10, ZenonT(30) DEF DownStream
<1>13. PICK a \in Int, b \in Int : a = k + f /\ b = (k + n) + (f - l) /\ a <= b
  BY <1>5
<1>14. /\ (g + n) - u = k + n /\ (g + n) - u + (f - l) = b /\ g - u + f = a
       /\ 0 <= u /\ u <= g + n /\ k + n <= MaxWindow
  <2>1. t = s + Bit(sentFin # NoSeq)
    BY <1>4, Zenon DEF HostSent
  <2>2. g + n <= t
    <3>1. CASE e = 1
      <4>1. "FIN" \in seg.flags
        BY <1>4, <3>1 DEF Bit
      <4>2. t = s + 1 /\ g + l = s
        BY <1>7, <2>1, <4>1, Zenon DEF Bit
      <4> QED BY <1>5, <3>1, <4>2
    <3>2. CASE e # 1
      <4>1. e = 0 /\ g + l <= s
        BY <1>7, <3>2
      <4>2. PICK c \in 0 .. 1 : t = s + c
        BY <2>1, BitType, Zenon
      <4> QED BY <1>5, <4>1, <4>2
    <3> QED BY <3>1, <3>2, ZenonT(30)
  <2>3. k = g - u /\ t = u + m /\ m <= MaxWindow /\ MaxWindow \in Nat
    BY <1>5, <1>6, Spaces, Zenon
  <2> QED BY <1>5, <1>13, <2>2, <2>3
<1>15. DownAcks'
  <2>1. ASSUME Live PROVE Apart(devRcvNxt', HostUna, k + n) /\ Acks(toHost, HostUna, k + n, b)
    <3>1. Apart(devRcvNxt, HostUna, k) /\ Acks(toHost, HostUna, k, a) /\ HostUna \in SeqSpace
      BY <1>0, <1>4, <1>5, <1>6, <1>14, <2>1, HostNumbers, ZenonT(30) DEF DownAcks
    <3>2. k + n <= MaxWindow
      BY <1>14, Zenon
    <3>3. Apart(devRcvNxt', HostUna, k + n)
      BY <1>2, <1>8, <3>1, <3>2, ApartAhead, ZenonT(30)
    <3>4. k \in Int /\ k + n \in Int /\ k <= k + n /\ a <= b
      BY <1>13
    <3>5. Acks(toHost, HostUna, k + n, b)
      BY <1>2, <3>1, <3>4, AcksGrow, Zenon
    <3> QED BY <3>3, <3>5, Zenon
  <2>2. DevRcvd' - HostAcked' = k + n /\ DevRcvd' - HostAcked' + DevFree' = b
    BY <1>3, <1>4, <1>10, <1>14, Zenon
  <2>3. 0 <= HostAcked' /\ HostAcked' <= DevRcvd'
    BY <1>3, <1>4, <1>10, <1>14, Zenon
  <2> QED BY <1>1, <1>3, <2>1, <2>2, <2>3, ZenonT(30) DEF DownAcks
<1>16. DownWindow'
  <2> SUFFICES ASSUME state = "Established"
               PROVE  /\ sndWndEdge = SeqAdd(sndUna, peerWindow) /\ peerWindow <= MaxWindow
                      /\ peerWindow <= DevRcvd' - HostAcked' + DevFree'
    BY <1>1, Zenon DEF DownWindow
  <2>1. /\ sndWndEdge = SeqAdd(sndUna, peerWindow) /\ peerWindow <= MaxWindow
        /\ peerWindow <= a /\ peerWindow \in Nat
    BY <1>0, <1>4, <1>6, <1>14, ZenonT(30) DEF DownWindow, TypeOK
  <2>2. DevRcvd' - HostAcked' + DevFree' = b
    BY <1>3, <1>4, <1>10, <1>14, ZenonT(30)
  <2>3. peerWindow <= b
    BY <1>13, <2>1
  <2> QED BY <2>1, <2>2, <2>3, Zenon
<1> QED BY <1>10, <1>11, <1>12, <1>15, <1>16, ZenonT(30)

LEMMA DownAfterDevDrops ==
    ASSUME FlightInv, DevTypes, Met, DevReceive, NEW seg, seg = Head(toDev), HasAck(seg),
           ~(/\ Carries(seg) /\ seg.seq = devRcvNxt /\ ~devEof
             /\ Len(seg.payload) <= DevCap - devUnread)
    PROVE  DownReceived' /\ DownStream' /\ DownAcks' /\ DownWindow' /\ devUnread' \in 0 .. DevCap
<1>0. TypeOK /\ DownReceived /\ DownStream /\ DownAcks /\ DownWindow
  BY Zenon DEF FlightInv, Met
<1>1. /\ toDev # <<>> /\ toDev' = Tail(toDev)
      /\ UNCHANGED <<state, sndNxt, sndUna, sentFin, sndWndEdge, peerWindow, written, outbound,
                     rcvNxt, toHost>>
  BY Zenon DEF DevReceive, Arrived, sendVars, windowVars, recvVars, appVars
<1>2. /\ seg \in Segment /\ devGot \in Seq(Nat) /\ devUnread \in 0 .. DevCap /\ DevCap \in Nat
      /\ devEof \in BOOLEAN /\ devRcvNxt \in SeqSpace
  <2>1. toDev \in Seq(Segment)
    BY <1>0, Zenon DEF TypeOK
  <2>2. seg \in Segment
    BY <1>1, <2>1, TailIs, Zenon
  <2> QED BY <2>2, DeviceAssumption DEF DevTypes
<1>3. DevRecvSame
  <2>1. SeqAdd(devRcvNxt, 0) = devRcvNxt
    BY <1>2, Spaces, InSpace DEF SeqAdd
  <2>2. devUnread + 0 = devUnread
    BY <1>2
  <2>3. CASE seg.seq = devRcvNxt /\ ~devEof /\ Len(seg.payload) <= DevCap - devUnread
    <3>1. seg.payload = <<>> /\ "FIN" \notin seg.flags
      BY <2>3, Zenon DEF Carries
    <3>2. Len(seg.payload) = 0 /\ devGot \o seg.payload = devGot
      BY <1>2, <3>1
    <3> QED BY <1>2, <2>1, <2>2, <2>3, <3>1, <3>2, ZenonT(30)
               DEF DevReceive, Arriving, HasAck, DevRecvSame
  <2>4. CASE ~(seg.seq = devRcvNxt /\ ~devEof /\ Len(seg.payload) <= DevCap - devUnread)
    BY <1>2, <2>1, <2>2, <2>4, Zenon DEF DevReceive, Arriving, HasAck, DevRecvSame
  <2> QED BY <2>3, <2>4, Zenon
<1>4. HostSendSame /\ Anchored /\ Quiet(toDev, toDev') /\ Quiet(toHost, toHost')
  BY <1>1, Zenon DEF HostSendSame, Anchored, Quiet, HostBytes, Live, HostUna, HostExpects
<1> QED BY <1>0, <1>1, <1>2, <1>3, <1>4, DownReceivedKept, DownStreamKept, DownAcksKept,
           DownWindowKept, ZenonT(30) DEF DevRecvSame

LEMMA MetDevReceive ==
    ASSUME FlightInv, DevTypes, Met, DevReceive, HasAck(Head(toDev))
    PROVE  Met' /\ devUnread' \in 0 .. DevCap
<1>1. PICK seg : seg = Head(toDev) /\ HasAck(seg)
  BY Zenon
<1>2. UpReceived' /\ UpStream' /\ UpAcks' /\ UpWindow'
  BY <1>1, UpAfterDevHears, Zenon
<1>3. DownReceived' /\ DownStream' /\ DownAcks' /\ DownWindow' /\ devUnread' \in 0 .. DevCap
  BY <1>1, DownAfterDevKeeps, DownAfterDevDrops, Zenon
<1>4. /\ devState' # "Listen" /\ (state' = "SynSent" => FreshHost')
  <2>1. devState' = devState
    BY <1>1, Zenon DEF DevReceive, Arriving, HasAck
  <2>2. UNCHANGED <<state, FreshHost>>
    BY Zenon DEF DevReceive, Arrived, FreshHost, sendVars, recvVars, appVars
  <2> QED BY <2>1, <2>2, Zenon DEF Met
<1> QED BY <1>2, <1>3, <1>4, Zenon DEF Met

\* A sequence with one element.
LEMMA AppendFirst ==
    ASSUME NEW e
    PROVE  Len(Append(<<>>, e)) = 1 /\ Append(<<>>, e)[1] = e
OBVIOUS

\* The device takes the SYN: both streams start, one number after the initial ones.
LEMMA MetDevAcceptSyn ==
    ASSUME FlightInv, DevTypes, Unmet, DevAcceptSyn
    PROVE  Met'
<1>1. PICK x \in SeqSpace, y \in SeqSpace :
        x = SeqAdd(InitialSequence, 1) /\ y = SeqAdd(DevInitial, 1)
  <2>1. SeqAdd(InitialSequence, 1) \in SeqSpace /\ SeqAdd(DevInitial, 1) \in SeqSpace
    BY AddType, Spaces, SequenceAssumption, DeviceAssumption
  <2> QED BY <2>1, Zenon
<1>2. toDev \in Seq(Segment) /\ toDev # <<>> /\ Head(toDev).seq = InitialSequence
  <2>1. toDev \in Seq(Segment) /\ toDev # <<>>
    BY Zenon DEF FlightInv, TypeOK, DevAcceptSyn
  <2>2. Head(toDev) = toDev[1] /\ 1 \in 1 .. Len(toDev)
    BY <2>1, TailIs
  <2>3. ToDevOK(Head(toDev))
    BY <2>2, Zenon DEF DevTypes
  <2> QED BY <2>1, <2>3, Zenon DEF ToDevOK, DevAcceptSyn, Arriving
<1>3. /\ devState = "Listen" /\ devState' = "Open" /\ toHost = <<>> /\ toDev' = Tail(toDev)
      /\ devRcvNxt' = x /\ devSndNxt' = y /\ devSndUna' = y /\ devEdge' = y
      /\ devGot' = <<>> /\ devUnread' = 0 /\ ~devEof' /\ devSent' = 0 /\ devFin' = NoSeq
      /\ UNCHANGED <<state, sndNxt, sndUna, sentFin, unacknowledged, outbound, sndWndEdge,
                     peerWindow, written, writeShutdown, rcvNxt, inbound, taken, peerFin>>
  BY <1>1, <1>2, Zenon DEF DevAcceptSyn, Arriving, Arrived, Unmet,
     appVars, recvVars, sendVars, windowVars
<1>4. PICK seg : /\ seg = [flags |-> {"SYN", "ACK"}, seq |-> DevInitial, ack |-> x,
                           win |-> OnWire(DevCap), payload |-> <<>>]
                 /\ toHost' = Append(toHost, seg)
  BY <1>1, <1>2, Zenon DEF DevAcceptSyn, Arriving, ToHost
<1>5. PICK w \in Nat, cap \in Nat : w = OnWire(DevCap) /\ cap = DevCap /\ w <= cap /\ cap <= MaxWindow
  <2>1. DevCap \in Nat /\ DevCap <= MaxWindow
    BY DeviceAssumption, Spaces
  <2>2. OnWire(DevCap) \in 0 .. DevCap
    BY <2>1, WireWindow, ZenonT(30)
  <2> QED BY <2>1, <2>2
<1>6. /\ Len(toHost') = 1 /\ toHost'[1] = seg /\ ~Carries(seg) /\ seg.ack = x /\ seg.win = w
  <2>1. toHost' = Append(<<>>, seg)
    BY <1>3, <1>4, Zenon
  <2>2. Len(toHost') = 1 /\ toHost'[1] = seg
    BY <2>1, AppendFirst, Zenon
  <2>3. seg.payload = <<>> /\ seg.flags = {"SYN", "ACK"} /\ seg.ack = x /\ seg.win = w
    BY <1>4, <1>5, Zenon
  <2> QED BY <2>2, <2>3, Zenon DEF Carries
<1>7. /\ written' = 0 /\ outbound' = <<>> /\ sentFin' = NoSeq /\ unacknowledged' = <<>>
      /\ inbound' = <<>> /\ taken' = <<>> /\ peerFin' = NoSeq /\ FreshHost'
      /\ unacknowledged = <<>> /\ sentFin = NoSeq
  BY <1>3, Zenon DEF Unmet, FreshHost
<1>8. HostBytes' = 0 /\ HostSent' = 0 /\ HostAcked' = 0
  <2>1. InFlight = 0
    BY <1>7 DEF FlightInv, FlightAccounting, FinOutstanding
  <2>2. InFlight' = 0
    BY <1>3, <2>1, Zenon DEF InFlight
  <2>3. HostBytes' = 0 /\ HostSent' = 0
    <3>1. HostBytes' = 0 - 0
      BY <1>7, Zenon DEF HostBytes
    <3>2. HostSent' = HostBytes' + Bit(FALSE)
      BY <1>7, ZenonT(30) DEF HostSent
    <3> QED BY <3>1, <3>2 DEF Bit
  <2> QED BY <2>2, <2>3 DEF HostAcked
<1>9. DevRcvd' = 0 /\ DevFree' = cap /\ HostRcvd' = 0 /\ HostFree' = ReceiveWindow
      /\ DevUsed' = 0 /\ DevFlight' = 0 /\ DevAcked' = 0 /\ ReceiveWindow \in Nat
  <2>1. DevFlight' = 0
    BY <1>3, SubZero, ZenonT(30) DEF DevFlight
  <2>2. DevUsed' = 0 /\ DevAcked' = 0
    BY <1>3, <2>1 DEF DevUsed, DevAcked, Bit
  <2> QED BY <1>3, <1>5, <1>7, <2>1, <2>2, SizeAssumption
             DEF DevRcvd, DevFree, HostRcvd, HostFree, Bit
<1>10. ASSUME NEW i \in 1 .. Len(toDev') PROVE ~HasAck(toDev'[i]) /\ ~Carries(toDev'[i])
  <2>1. i + 1 \in 1 .. Len(toDev) /\ toDev'[i] = toDev[i + 1]
    BY <1>2, <1>3, TailIs, ZenonT(30)
  <2>2. ~HasAck(toDev[i + 1]) /\ ToDevOK(toDev[i + 1])
    BY <2>1, Zenon DEF Unmet, DevTypes
  <2> QED BY <2>1, <2>2, Zenon DEF ToDevOK
<1>11. DownReceived'
  BY <1>3, <1>5, <1>8, <1>9 DEF DownReceived
<1>12. DownStream'
  BY <1>10, Zenon DEF DownStream, Stream, Follows
<1>13. DownAcks'
  <2>1. Live' => HostUna' = x
    BY <1>1, <1>3, Zenon DEF Live, HostUna, Unmet
  <2>2. Apart(x, x, 0) /\ SeqSub(x, x) = 0
    BY SubZero, ZenonT(30)
  <2>3. Acknowledges(seg, x, 0, cap)
    BY <1>5, <1>6, <2>2, Spaces DEF Acknowledges, Point
  <2>4. Acks(toHost', x, 0, cap)
    <3>1. ASSUME NEW i \in 1 .. Len(toHost') PROVE i = 1
      BY <1>6
    <3>2. ~(1 < 1)
      OBVIOUS
    <3> QED BY <1>6, <2>3, <3>1, <3>2, Zenon DEF Acks
  <2>5. 0 - 0 = 0 /\ 0 + cap = cap
    OBVIOUS
  <2> QED BY <1>3, <1>8, <1>9, <2>1, <2>2, <2>4, <2>5 DEF DownAcks
<1>14. DownWindow' /\ state' # "Established"
  BY <1>3, ZenonT(30) DEF DownWindow, Unmet
<1>15. UpReceived'
  BY <1>3, <1>7, <1>9 DEF UpReceived
<1>16. UpStream'
  <2>1. ASSUME NEW i \in 1 .. Len(toHost') PROVE ~Carries(toHost'[i])
    <3>1. i = 1
      BY <1>6
    <3> QED BY <1>6, <3>1, Zenon
  <2> QED BY <2>1, Zenon DEF UpStream, Stream, Follows
<1>17. UpAcks'
  <2>1. Live' => HostExpects' = y
    BY <1>1, <1>3, Zenon DEF Live, HostExpects, Unmet
  <2>2. Apart(y, y, 0)
    BY SubZero, Zenon
  <2>3. Acks(toDev', y, 0, 0 + ReceiveWindow)
    BY <1>10, Zenon DEF Acks, Later
  <2>4. 0 - 0 = 0
    OBVIOUS
  <2> QED BY <1>3, <1>9, <1>10, <2>1, <2>2, <2>3, <2>4 DEF UpAcks
<1>18. UpWindow'
  <2>1. SeqAdd(y, 0) = y /\ 0 \in 0 .. MaxWindow
    BY SubZero, Spaces
  <2> QED BY <1>3, <1>9, <2>1 DEF UpWindow
<1> QED BY <1>3, <1>7, <1>11, <1>12, <1>13, <1>14, <1>15, <1>16, <1>17, <1>18, ZenonT(30) DEF Met

LEMMA MetQueue ==
    ASSUME FlightInv, DevTypes, Met, NEW n \in 1 .. MaxWritten, Queue(n),
           UNCHANGED <<devVars, toHost>>
    PROVE  Met'
<1> USE DEF sendVars, windowVars, recvVars, appVars, devVars
<1>1. PICK w \in Nat, o \in Nat : w = written /\ o = Len(outbound) /\ n \in Nat
  <2>1. written \in Nat /\ Len(outbound) \in Nat /\ n \in Nat
    BY HostNumbers, SizeAssumption DEF FlightInv, TypeOK
  <2> QED BY <2>1, ZenonT(30)
<1>2. PICK p : p = [i \in 1 .. n |-> written + i]
  BY Zenon
<1>3. p \in Seq(Nat) /\ Len(p) = n
  BY <1>1, <1>2, BytesFrom
<1>4. outbound' = outbound \o p /\ written' = w + n /\ outbound \in Seq(Nat)
  <2>1. outbound' = outbound \o p /\ written' = written + n
    BY <1>2, Zenon DEF Queue
  <2> QED BY <1>1, <2>1, Zenon DEF FlightInv, TypeOK
<1>5. Len(outbound') = o + n
  BY <1>1, <1>3, <1>4, ConcatProperties, ZenonT(30)
<1>6. HostBytes' = HostBytes
  BY <1>1, <1>4, <1>5 DEF HostBytes
<1>7. /\ HostSendSame /\ HostRecvSame /\ DevRecvSame /\ DevSendSame /\ state = "Established"
      /\ UNCHANGED <<state, toDev, toHost, devState>>
  BY <1>6, Zenon DEF Queue, CanWrite, HostSendSame, HostRecvSame, DevRecvSame, DevSendSame
<1>8. Quiet(toDev, toDev') /\ Quiet(toHost, toHost') /\ TypeOK /\ devState # "Listen"
  BY <1>7, Zenon DEF Quiet, FlightInv, Met
<1> QED BY <1>7, <1>8, MetStill, Zenon

LEMMA MetLeaves ==
    ASSUME FlightInv, DevTypes, Met, Close \/ Forget, UNCHANGED <<devVars, toHost>>
    PROVE  Met'
<1>1. TypeOK /\ devState # "Listen"
  BY Zenon DEF FlightInv, Met
<1>2. /\ UNCHANGED <<oweAck, sendVars, windowVars, recvVars, appVars>> /\ state' = "Removed"
      /\ Quiet(toDev, toDev')
  BY <1>1, Leaves, Zenon DEF Quiet
<1>3. /\ HostSendSame /\ HostRecvSame /\ DevRecvSame /\ DevSendSame /\ devState' = devState
      /\ Quiet(toHost, toHost')
  BY <1>2, Zenon DEF HostSendSame, HostRecvSame, DevRecvSame, DevSendSame, HostBytes, Quiet,
              sendVars, windowVars, recvVars, appVars, devVars
<1> QED BY <1>1, <1>2, <1>3, MetStill, ZenonT(30)

LEMMA MetSetFlag ==
    ASSUME FlightInv, DevTypes, Met, ShutdownWrite \/ ProbeWindow, UNCHANGED <<devVars, toHost>>
    PROVE  Met'
<1>1. TypeOK /\ devState # "Listen"
  BY Zenon DEF FlightInv, Met
<1>2. /\ HostSendSame /\ HostRecvSame /\ DevRecvSame /\ DevSendSame /\ devState' = devState
      /\ Quiet(toHost, toHost') /\ Quiet(toDev, toDev') /\ state' = state /\ state = "Established"
  BY Zenon DEF ShutdownWrite, ProbeWindow, HostSendSame, HostRecvSame, DevRecvSame, DevSendSame,
         HostBytes, Quiet, sendVars, windowVars, recvVars, appVars, devVars
<1> QED BY <1>1, <1>2, MetStill, ZenonT(30)

\* on_segment closes the session, or changes nothing.
LEMMA MetRefuses ==
    ASSUME FlightInv, DevTypes, Met, toHost # <<>>, toHost' = Tail(toHost), UNCHANGED devVars,
           NEW h, OnReset(h) \/ OnOddFlags(h) \/ UNCHANGED vars
    PROVE  Met'
<1>1. TypeOK /\ devState # "Listen"
  BY ZenonT(30) DEF FlightInv, Met
<1>2. /\ HostSendSame /\ HostRecvSame /\ DevRecvSame /\ DevSendSame /\ devState' = devState
      /\ Quiet(toHost, toHost') /\ Quiet(toDev, toDev') /\ state' \in {state, "Closed"}
      /\ UNCHANGED FreshHost
  BY DEF OnReset, OnOddFlags, HostSendSame, HostRecvSame, DevRecvSame, DevSendSame, FreshHost,
         HostBytes, Quiet, vars, sendVars, windowVars, recvVars, appVars, devVars
<1> QED BY <1>1, <1>2, MetStill, Zenon

LEMMA MetDropped ==
    ASSUME FlightInv, DevTypes, Met, DevIgnore \/ LoseToDev \/ LoseToHost
    PROVE  Met'
<1>1. /\ DevRecvSame /\ DevSendSame /\ devState' = devState
      /\ UNCHANGED <<state, oweAck, sendVars, windowVars, recvVars, appVars>>
  BY Zenon DEF DevIgnore, LoseToDev, LoseToHost, DevRecvSame, DevSendSame, vars, devVars, Arrived
<1>2. Quiet(toDev, toDev') /\ Quiet(toHost, toHost') /\ devState # "Listen"
  BY Zenon DEF DevIgnore, LoseToDev, LoseToHost, vars, Arrived, Quiet, Met
<1> QED BY <1>1, <1>2, MetPacketGone, Zenon

LEMMA MetDevHearsNoAck ==
    ASSUME FlightInv, DevTypes, Met, DevReceive, ~HasAck(Head(toDev))
    PROVE  Met' /\ devUnread' = devUnread
<1>1. /\ DevRecvSame /\ DevSendSame /\ devState' # "Listen"
      /\ UNCHANGED <<state, oweAck, sendVars, windowVars, recvVars, appVars>>
      /\ Quiet(toDev, toDev') /\ Quiet(toHost, toHost')
  BY Zenon DEF DevReceive, Arriving, HasAck, DevRecvSame, DevSendSame, Arrived, Quiet, Met
<1> QED BY <1>1, MetPacketGone, Zenon DEF DevRecvSame

\* What the device is left with when it receives.
LEMMA DevTypesReceive ==
    ASSUME FlightInv, DevTypes, Met, DevReceive
    PROVE  DevTypes'
<1>0. TypeOK /\ toDev # <<>> /\ toDev' = Tail(toDev) /\ toHost' = toHost
  BY Zenon DEF FlightInv, DevReceive, Arrived
<1>1. PICK seg \in Segment : seg = Head(toDev)
  BY <1>0, TailIs, Zenon DEF TypeOK
<1>2. ToHostNext /\ ToDevNext
  BY <1>0, Zenon DEF ToHostNext, ToDevNext
<1>3. devUnread' \in 0 .. DevCap
  BY MetDevReceive, MetDevHearsNoAck, Zenon DEF DevTypes
<1>4. /\ devState' \in {"Listen", "Open", "Closed"} /\ devSndNxt' \in SeqSpace
      /\ devSent' \in Nat /\ devFin' \in SeqSpace \cup {NoSeq} /\ devEof' \in BOOLEAN
  BY Zenon DEF DevTypes, DevReceive
<1>5. devSndUna' \in SeqSpace
  <2>1. seg.ack \in SeqSpace /\ devSndUna \in SeqSpace
    BY SegmentType, Zenon DEF DevTypes
  <2> QED BY <1>1, <2>1, Zenon DEF DevReceive, Arriving
<1>6. devGot' \in Seq(Nat)
  <2>1. devGot \in Seq(Nat) /\ seg.payload \in Seq(Nat)
    BY SegmentType, Zenon DEF DevTypes
  <2>2. devGot \o seg.payload \in Seq(Nat)
    BY <2>1, ConcatProperties, Zenon
  <2>3. devGot' = devGot \/ devGot' = devGot \o seg.payload
    BY <1>1, Zenon DEF DevReceive, Arriving
  <2> QED BY <2>1, <2>2, <2>3, ZenonT(30)
<1>7. devRcvNxt' \in SeqSpace
  <2>1. devRcvNxt \in SeqSpace /\ Len(seg.payload) \in Nat
    BY SegmentType, Zenon DEF DevTypes
  <2>2. DevCap - devUnread <= MaxWindow
    <3>1. DevFree \in 0 .. DevCap /\ DevCap \in 0 .. MaxWindow
      BY DevNumbers, Zenon
    <3> QED BY <3>1, Spaces DEF DevFree
  <2>3. \/ devRcvNxt' = devRcvNxt
        \/ devRcvNxt' = SeqAdd(devRcvNxt, 0) \/ devRcvNxt' = SeqAdd(devRcvNxt, 0 + 1)
        \/ /\ Len(seg.payload) <= DevCap - devUnread
           /\ \/ devRcvNxt' = SeqAdd(devRcvNxt, Len(seg.payload))
              \/ devRcvNxt' = SeqAdd(devRcvNxt, Len(seg.payload) + 1)
    BY <1>1, Zenon DEF DevReceive, Arriving
  <2>4. ASSUME NEW n \in Nat, n <= MaxWindow + 1 PROVE SeqAdd(devRcvNxt, n) \in SeqSpace
    BY <2>1, <2>4, Spaces, InSpace DEF SeqAdd
  <2>5. PICK l \in Nat : l = Len(seg.payload)
    BY <2>1, Zenon
  <2>6. l <= DevCap - devUnread => l <= MaxWindow + 1 /\ l + 1 <= MaxWindow + 1
    <3>1. DevCap - devUnread \in Int
      BY DevNumbers, DeviceAssumption DEF DevTypes
    <3> QED BY <2>2, <3>1, Spaces
  <2>7. 0 <= MaxWindow + 1 /\ 0 + 1 <= MaxWindow + 1 /\ 0 \in Nat /\ 0 + 1 \in Nat /\ l + 1 \in Nat
    BY Spaces
  <2> QED BY <2>1, <2>3, <2>4, <2>5, <2>6, <2>7, ZenonT(30)
<1> QED BY <1>0, <1>2, <1>3, <1>4, <1>5, <1>6, <1>7, DevTypesKept, ZenonT(30)

LEMMA DevTypesAcceptSyn ==
    ASSUME FlightInv, DevTypes, DevAcceptSyn
    PROVE  DevTypes'
<1>0. TypeOK /\ toDev # <<>> /\ toDev \in Seq(Segment) /\ toDev' = Tail(toDev)
  BY Zenon DEF FlightInv, TypeOK, DevAcceptSyn, Arrived
<1>1. PICK seg \in Segment : seg = Head(toDev)
  BY <1>0, TailIs, Zenon
<1>2. PICK ack \in SeqSpace : ack = SeqAdd(seg.seq, 1) /\ devRcvNxt' = ack
  <2>1. SeqAdd(seg.seq, 1) \in SeqSpace
    BY SegmentType, AddType, Spaces
  <2> QED BY <1>1, <2>1, ZenonT(30) DEF DevAcceptSyn, Arriving
<1>3. PICK w \in Nat : w = OnWire(DevCap) /\ w <= MaxWindow
  <2>1. DevCap \in Nat
    BY DeviceAssumption
  <2> QED BY <2>1, WireFits, Spaces
<1>4. PICK s : s = [flags |-> {"SYN", "ACK"}, seq |-> DevInitial, ack |-> ack, win |-> w,
                    payload |-> <<>>]
  BY Zenon
<1>5. toHost' = Append(toHost, s)
  BY <1>1, <1>2, <1>3, <1>4, ZenonT(30) DEF DevAcceptSyn, Arriving, ToHost
<1>6. s \in Segment /\ ToHostOK(s)
  BY <1>3, <1>4, KnownFlags, DeviceAssumption, Spaces DEF Segment, ToHostOK, Carries
<1>7. ToHostNext /\ ToDevNext
  BY <1>0, <1>5, <1>6, Zenon DEF ToHostNext, ToDevNext
<1>8. devState' \in {"Listen", "Open", "Closed"} /\ devRcvNxt' \in SeqSpace
  BY <1>2, Zenon DEF DevAcceptSyn
<1> QED BY <1>0, <1>7, <1>8, DevTypesKept, ZenonT(30) DEF DevAcceptSyn, DevTypes
=============================================================================
