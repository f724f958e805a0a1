---------------------------- MODULE MuxPairProofs ----------------------------
(***************************************************************************)
(* Proofs about MuxPair and MuxDelivery.                                   *)
(*                                                                         *)
(* The inductive invariant, PairInv, adds to the session's own FlightInv   *)
(* what ties the two ends together.  Before the device has seen the SYN    *)
(* (Unmet) both are in their first state.  Afterwards (Met) each direction *)
(* is described by four facts: what the receiver has (...Received), where  *)
(* every segment on the channel stands relative to it (...Stream), how old *)
(* the acknowledgements under way may be (...Acks), and that the window    *)
(* the sender goes by is room the receiver still has (...Window).          *)
(***************************************************************************)
EXTENDS MuxDelivery, MuxPairSends, MuxPairReceives

USE SMTT(30), ZenonT(30)

LEMMA SeqEqual ==
    ASSUME NEW S, NEW s \in Seq(S), NEW t \in Seq(S),
           Len(s) = Len(t), \A i \in 1 .. Len(s) : s[i] = t[i]
    PROVE  s = t
OBVIOUS

LEMMA ApartAdd ==
    ASSUME NEW x \in SeqSpace, NEW n \in 0 .. SeqMod
    PROVE  SeqAdd(x, n) \in SeqSpace /\ Apart(SeqAdd(x, n), x, n)
BY Spaces, InSpace DEF Apart, SeqAdd

LEMMA DevTypesSame ==
    ASSUME TypeOK, DevTypes, ToHostNext, ToDevNext, UNCHANGED devVars
    PROVE  DevTypes'
BY DevTypesKept, Zenon DEF DevTypes, devVars

-----------------------------------------------------------------------------
(* Before the device has the SYN.                                          *)

LEMMA NoAckQuiet ==
    ASSUME NEW q \in Seq(Segment), NEW r, Quiet(q, r), \A i \in 1 .. Len(q) : ~HasAck(q[i]),
           NEW i \in 1 .. Len(r)
    PROVE  ~HasAck(r[i])
<1>1. CASE r = q
  BY <1>1, Zenon
<1>2. CASE q # <<>> /\ r = Tail(q)
  BY <1>2, TailIs, Zenon
<1>3. ASSUME NEW s \in Segment, ~HasAck(s), r = Append(q, s) PROVE ~HasAck(r[i])
  <2>1. i \in 1 .. Len(Append(q, s))
    BY <1>3, Zenon
  <2>2. (i \in 1 .. Len(q) /\ Append(q, s)[i] = q[i]) \/ Append(q, s)[i] = s
    BY <2>1, AppendAny, Zenon
  <2> QED BY <1>3, <2>2, Zenon
<1> QED BY <1>1, <1>2, <1>3, Zenon DEF Quiet

LEMMA UnmetStill ==
    ASSUME TypeOK, DevTypes, Unmet, Quiet(toDev, toDev'), Quiet(toHost, toHost'), UNCHANGED FreshHost,
           state' # "Established", devState' # "Open", devState' = "Listen" => toHost' = <<>>,
           UNCHANGED <<devGot, devUnread, devEof, devSndNxt, devSndUna, devEdge, devSent, devFin>>
    PROVE  Unmet'
<1>1. \A i \in 1 .. Len(toDev') : ~HasAck(toDev'[i])
  BY NoAckQuiet, Zenon DEF TypeOK, Unmet
<1>2. \A i \in 1 .. Len(toHost') : ~HasAck(toHost'[i])
  BY NoAckQuiet, Zenon DEF DevTypes, Unmet
<1> QED BY <1>1, <1>2, Zenon DEF Unmet

LEMMA UnmetHost ==
    ASSUME FlightInv, DevTypes, Unmet, HostNext, UNCHANGED <<devVars, toHost>>
    PROVE  Unmet'
<1>0. TypeOK /\ state # "Established" /\ inbound = <<>>
  BY Zenon DEF FlightInv, Unmet, FreshHost
<1>1. Close \/ Forget
  <2>1. 1 .. Len(inbound) = {}
    BY <1>0
  <2> QED BY <1>0, <2>1, Zenon
             DEF HostNext, Queue, CanWrite, ShutdownWrite, ProbeWindow, NextSegment,
            SendData, SendFin, SendAck, Retransmit, RetransmitFin, RetransmitData
<1>2. /\ UNCHANGED <<oweAck, sendVars, windowVars, recvVars, appVars>> /\ state' = "Removed"
      /\ Quiet(toDev, toDev')
  BY <1>0, <1>1, Leaves, Zenon DEF Quiet
<1>3. Quiet(toHost, toHost') /\ UNCHANGED FreshHost
  BY <1>2, Zenon DEF Quiet, FreshHost, sendVars, recvVars, appVars
<1>4. /\ devState' # "Open" /\ (devState' = "Listen" => toHost' = <<>>)
      /\ UNCHANGED <<devGot, devUnread, devEof, devSndNxt, devSndUna, devEdge, devSent, devFin>>
  BY Zenon DEF Unmet, devVars
<1> QED BY <1>0, <1>2, <1>3, <1>4, UnmetStill, ZenonT(30)

\* The pump hands the session the packet at the front; a session that is gone
\* ignores it.
HostHears ==
    /\ toHost # <<>> /\ toHost' = Tail(toHost) /\ UNCHANGED devVars
    /\ OnSegment(Head(toHost)) \/ UNCHANGED vars

LEMMA UnmetHears ==
    ASSUME FlightInv, DevTypes, Unmet, HostHears
    PROVE  Unmet'
<1>0. TypeOK /\ state # "Established" /\ devState # "Listen" /\ toHost \in Seq(Segment)
  BY Zenon DEF FlightInv, Unmet, DevTypes, HostHears
<1>1. PICK h : h = Head(toHost) /\ ~HasAck(h) /\ (OnSegment(h) \/ UNCHANGED vars)
  BY <1>0, TailIs DEF Unmet, HostHears
<1>2. OnReset(h) \/ UNCHANGED vars
  BY <1>0, <1>1, Zenon
     DEF OnSegment, OnSynAck, IsSynAck, HasAck, OnOddFlags, OnRejected, OnEstablished
<1>3. Quiet(toHost, toHost') /\ Quiet(toDev, toDev') /\ UNCHANGED FreshHost /\ state' # "Established"
  BY <1>0, <1>2 DEF Quiet, HostHears, OnReset, FreshHost, vars, sendVars, recvVars, appVars
<1>4. /\ devState' # "Open" /\ (devState' = "Listen" => toHost' = <<>>)
      /\ UNCHANGED <<devGot, devUnread, devEof, devSndNxt, devSndUna, devEdge, devSent, devFin>>
  BY <1>0, Zenon DEF Unmet, devVars, HostHears
<1> QED BY <1>0, <1>3, <1>4, UnmetStill, Zenon

DevNext ==
    \/ DevAcceptSyn \/ DevReset \/ DevStray \/ DevReceive \/ DevIgnore
    \/ DevConsume \/ DevAck \/ DevSendFin \/ DevRetransmit
    \/ \E n \in Nat \ {0} : DevSend(n)
    \/ LoseToDev \/ LoseToHost

LEMMA UnmetDev ==
    ASSUME FlightInv, DevTypes, Unmet, DevNext
    PROVE  Unmet' \/ Met'
<1>0. TypeOK /\ devState # "Open" /\ devUnread = 0 /\ state # "Established"
  BY Zenon DEF FlightInv, Unmet
<1>1. DevAcceptSyn \/ DevReset \/ DevIgnore \/ LoseToDev \/ LoseToHost
  <2>1. ~DevStray /\ ~DevAck /\ ~DevSendFin
    BY <1>0, Zenon DEF DevStray, DevAck, DevSendFin
  <2>2. ~DevReceive /\ ~DevRetransmit
    BY <1>0, Zenon DEF DevReceive, DevRetransmit
  <2>3. ~DevConsume
    BY <1>0 DEF DevConsume
  <2>4. ASSUME NEW n \in Nat \ {0}, DevSend(n) PROVE FALSE
    BY <1>0, <2>4, Zenon DEF DevSend
  <2> QED BY <2>1, <2>2, <2>3, <2>4, ZenonT(30) DEF DevNext
<1>2. CASE DevAcceptSyn
  BY <1>2, MetDevAcceptSyn, Zenon
<1>3. CASE DevReset
  <2>1. Quiet(toHost, toHost')
    BY <1>3, DevResetSegment, Zenon DEF Quiet
  <2>2. /\ Quiet(toDev, toDev') /\ UNCHANGED FreshHost /\ state' = state /\ devState' = "Closed"
        /\ UNCHANGED <<devGot, devUnread, devEof, devSndNxt, devSndUna, devEdge, devSent, devFin>>
    BY <1>3, Zenon DEF DevReset, Quiet, FreshHost, vars, sendVars, recvVars, appVars
  <2> QED BY <1>0, <2>1, <2>2, UnmetStill, ZenonT(30)
<1>4. CASE DevIgnore \/ LoseToDev \/ LoseToHost
  <2>1. Quiet(toHost, toHost') /\ Quiet(toDev, toDev')
    BY <1>4, Zenon DEF DevIgnore, LoseToDev, LoseToHost, Arrived, Quiet, vars
  <2>2. UNCHANGED FreshHost /\ state' = state /\ UNCHANGED devVars
    BY <1>4
       DEF DevIgnore, LoseToDev, LoseToHost, Arrived, FreshHost, vars, sendVars, recvVars, appVars
  <2>3. devState = "Listen" => toHost' = <<>>
    BY <1>4, Zenon DEF DevIgnore, LoseToDev, LoseToHost, Unmet
  <2>4. /\ devState' # "Open" /\ (devState' = "Listen" => toHost' = <<>>)
        /\ UNCHANGED <<devGot, devUnread, devEof, devSndNxt, devSndUna, devEdge, devSent, devFin>>
    BY <1>0, <2>2, <2>3, Zenon DEF devVars
  <2> QED BY <1>0, <2>1, <2>2, <2>4, UnmetStill, ZenonT(30)
<1> QED BY <1>1, <1>2, <1>3, <1>4, Zenon

-----------------------------------------------------------------------------
(* Every step keeps the invariant.                                         *)

LEMMA EndsHost ==
    ASSUME FlightInv, StreamContiguous, DevTypes, Unmet \/ Met, HostNext, UNCHANGED <<devVars, toHost>>
    PROVE  DevTypes' /\ (Unmet' \/ Met')
<1>1. DevTypes'
  <2>1. TypeOK /\ ToHostNext /\ ToDevNext /\ UNCHANGED devVars
    BY HostSegments, Zenon DEF FlightInv, ToHostNext
  <2> QED BY <2>1, DevTypesSame, Zenon
<1>2. CASE Unmet
  BY <1>1, <1>2, UnmetHost, ZenonT(30)
<1>3. CASE Met
  <2>1. ASSUME NEW n \in 1 .. MaxWritten, Queue(n) PROVE Met'
    BY <1>1, <1>3, <2>1, MetQueue, ZenonT(30)
  <2>2. ASSUME NEW n \in 1 .. Len(inbound), TakeReceived(n) PROVE Met'
    BY <1>1, <1>3, <2>2, MetTakeReceived, ZenonT(30)
  <2>3. CASE ShutdownWrite \/ ProbeWindow
    BY <1>1, <1>3, <2>3, MetSetFlag, ZenonT(30)
  <2>4. CASE Close \/ Forget
    BY <1>1, <1>3, <2>4, MetLeaves, ZenonT(30)
  <2>5. CASE SendData
    BY <1>1, <1>3, <2>5, MetSendData, ZenonT(30)
  <2>6. CASE SendFin
    BY <1>1, <1>3, <2>6, MetSendFin, ZenonT(30)
  <2>7. CASE SendAck
    BY <1>1, <1>3, <2>7, MetSendAck, Zenon
  <2>8. CASE RetransmitFin
    BY <1>1, <1>3, <2>8, MetRetransmitFin, Zenon
  <2>9. CASE RetransmitData
    BY <1>1, <1>3, <2>9, MetRetransmitData, Zenon
  <2> QED BY <1>1, <2>1, <2>2, <2>3, <2>4, <2>5, <2>6, <2>7, <2>8, <2>9, ZenonT(30)
             DEF HostNext, NextSegment, Retransmit
<1> QED BY <1>1, <1>2, <1>3, Zenon

LEMMA EndsHears ==
    ASSUME FlightInv, DevTypes, Unmet \/ Met, HostHears
    PROVE  DevTypes' /\ (Unmet' \/ Met')
<1>1. DevTypes'
  <2>1. TypeOK /\ ToHostNext /\ UNCHANGED devVars
    BY Zenon DEF FlightInv, ToHostNext, HostHears
  <2>2. ToDevNext
    BY Zenon
       DEF ToDevNext, HostHears, OnSegment, OnReset, OnSynAck, OnOddFlags, OnRejected,
       OnEstablished, vars
  <2> QED BY <2>1, <2>2, DevTypesSame, ZenonT(30)
<1>2. CASE Unmet
  BY <1>1, <1>2, UnmetHears, ZenonT(30)
<1>3. CASE Met
  <2>1. PICK h : h = Head(toHost) /\ (OnSegment(h) \/ UNCHANGED vars)
    BY Zenon DEF HostHears
  <2>2. toHost # <<>> /\ toHost' = Tail(toHost) /\ UNCHANGED devVars
    BY Zenon DEF HostHears
  <2>3. CASE OnReset(h) \/ OnOddFlags(h) \/ UNCHANGED vars
    BY <1>1, <1>3, <2>2, <2>3, MetRefuses, ZenonT(30)
  <2>4. CASE OnSynAck(h)
    BY <1>1, <1>3, <2>1, <2>2, <2>4, MetSynAck, ZenonT(30)
  <2>5. CASE OnEstablished(h)
    BY <1>1, <1>3, <2>1, <2>2, <2>5, MetEstablished, Zenon
  <2> QED BY <2>1, <2>3, <2>4, <2>5, ZenonT(30) DEF OnSegment, OnRejected
<1> QED BY <1>1, <1>2, <1>3, ZenonT(30)

LEMMA EndsDev ==
    ASSUME FlightInv, DevTypes, Unmet \/ Met, DevNext
    PROVE  DevTypes' /\ (Unmet' \/ Met')
<1>0. TypeOK
  BY Zenon DEF FlightInv
<1>1. CASE DevAcceptSyn
  <2>1. Unmet
    BY <1>1, Zenon DEF DevAcceptSyn, Met
  <2> QED BY <1>1, <2>1, MetDevAcceptSyn, DevTypesAcceptSyn, ZenonT(30)
<1>2. CASE DevReset
  <2>1. ToHostNext
    <3>1. ASSUME NEW s \in Segment, s.flags = {"RST"}, ~Carries(s), s.win = 0, s.payload = <<>>
          PROVE  ToHostOK(s)
      BY <3>1, Spaces DEF ToHostOK
    <3> QED BY <1>2, <3>1, DevResetSegment, ZenonT(30) DEF ToHostNext
  <2>2. ToDevNext
    BY <1>2, Zenon DEF DevReset, ToDevNext, vars
  <2>3. DevTypes'
    BY <1>0, <1>2, <2>1, <2>2, DevTypesKept, ZenonT(30) DEF DevReset, DevTypes
  <2> QED BY <1>2, <2>3, UnmetDev, MetDevReset, ZenonT(30) DEF DevNext
<1>3. CASE DevIgnore \/ LoseToDev \/ LoseToHost
  <2>1. ToHostNext /\ ToDevNext /\ UNCHANGED devVars
    BY <1>3, Zenon DEF DevIgnore, LoseToDev, LoseToHost, Arrived, ToHostNext, ToDevNext, vars
  <2>2. DevTypes'
    BY <1>0, <2>1, DevTypesSame, ZenonT(30)
  <2> QED BY <1>3, <2>2, UnmetDev, MetDropped, ZenonT(30) DEF DevNext
<1>4. CASE DevReceive
  <2>1. Met
    BY <1>4, Zenon DEF DevReceive, Unmet
  <2> QED BY <1>4, <2>1, MetDevReceive, MetDevHearsNoAck, DevTypesReceive, ZenonT(30)
<1>5. CASE DevConsume
  <2>1. Met
    BY <1>5 DEF DevConsume, Unmet
  <2>2. Met' /\ devUnread' \in 0 .. DevCap
    BY <1>5, <2>1, MetDevConsume, ZenonT(30)
  <2>3. ToHostNext /\ ToDevNext
    BY <1>5, Zenon DEF DevConsume, ToHostNext, ToDevNext, vars
  <2>4. DevTypes'
    BY <1>0, <1>5, <2>2, <2>3, DevTypesKept, ZenonT(30) DEF DevConsume, DevTypes
  <2> QED BY <2>2, <2>4, Zenon
<1>6. CASE DevAck \/ DevStray \/ DevRetransmit
  <2>1. Met
    BY <1>6, Zenon DEF DevAck, DevStray, DevRetransmit, Unmet
  <2>2. ToHostNext
    BY <1>6, <2>1, DevSegments, ZenonT(30)
  <2>3. ToDevNext /\ UNCHANGED <<devState, devRcvNxt, devGot, devUnread, devEof, devSndNxt,
                                 devSndUna, devSent, devFin>>
    BY <1>6, Zenon DEF DevAck, DevStray, DevRetransmit, ToDevNext, vars, devVars
  <2>4. DevTypes'
    BY <1>0, <2>2, <2>3, DevTypesKept, ZenonT(30) DEF DevTypes
  <2> QED BY <1>6, <2>1, <2>4, MetDevAck, MetDevStray, MetDevRetransmit, ZenonT(30)
<1>7. CASE DevSendFin
  <2>1. Met
    BY <1>7, Zenon DEF DevSendFin, Unmet
  <2>2. DevTypes'
    BY <1>7, <2>1, DevSegments, DevTypesSend, ZenonT(30)
  <2> QED BY <1>7, <2>1, <2>2, MetDevSendFin, ZenonT(30)
<1>8. ASSUME NEW n \in Nat \ {0}, DevSend(n) PROVE DevTypes' /\ Met'
  <2>1. Met
    BY <1>8, Zenon DEF DevSend, Unmet
  <2>2. ToHostNext
    BY <1>8, <2>1, DevSegments, Zenon
  <2>3. DevTypes'
    BY <1>8, <2>1, <2>2, DevTypesSend, ZenonT(30)
  <2> QED BY <1>8, <2>1, <2>3, MetDevSend, ZenonT(30)
<1> QED BY <1>1, <1>2, <1>3, <1>4, <1>5, <1>6, <1>7, <1>8, ZenonT(30) DEF DevNext

-----------------------------------------------------------------------------
(* The steps of the two ends, whoever makes the session's calls.           *)

LEMMA ContractHolds ==
    ASSUME FlightInv, DevTypes, Unmet \/ Met
    PROVE  ContractMet
<1> SUFFICES ASSUME toHost # <<>> PROVE Head(toHost) \in Segment /\ DeviceContract(Head(toHost))
  BY Zenon DEF ContractMet
<1>1. /\ toHost \in Seq(Segment) /\ Head(toHost) \in Segment /\ Head(toHost) = toHost[1]
      /\ 1 \in 1 .. Len(toHost)
  BY TailIs DEF DevTypes
<1>2. PICK h \in Segment : h = Head(toHost) /\ h = toHost[1]
  BY <1>1, Zenon
<1>3. h.win <= MaxWindow /\ Len(h.payload) < SeqHalf
  <2>1. ToHostOK(h) /\ Len(h.payload) \in Nat
    BY <1>1, <1>2, SegmentType, ZenonT(30) DEF DevTypes
  <2> QED BY <2>1, Spaces DEF ToHostOK
<1>4. ASSUME state = "Established", HasAck(h)
      PROVE  SeqGt(h.ack, sndUna) \/ SeqSub(sndUna, h.ack) + MaxWindow <= SeqHalf
  <2>1. Met /\ Live /\ HostUna = sndUna
    BY <1>4, Zenon DEF Unmet, Live, HostUna
  <2>2. Acknowledges(h, sndUna, DevRcvd - HostAcked, DevRcvd - HostAcked + DevFree)
    BY <1>1, <1>2, <1>4, <2>1, ZenonT(30) DEF Met, DownAcks, Acks
  <2>3. SeqSub(h.ack, sndUna) <= 2 * MaxWindow + 1 /\ h.ack \in SeqSpace /\ sndUna \in SeqSpace
    BY <2>2, SegmentType, ZenonT(30) DEF Acknowledges, FlightInv, TypeOK
  <2> QED BY <2>3, Spaces, InSpace DEF SeqGt, SeqSub
<1> QED BY <1>2, <1>3, <1>4, Zenon DEF DeviceContract

EndsNext ==
    \/ HostNext /\ UNCHANGED <<devVars, toHost>>
    \/ HostHears
    \/ DevNext
    \/ UNCHANGED <<vars, devVars, toHost>>

\* Each is a step of MuxSession's own specification: the device meets its contract.
LEMMA EndsSession ==
    ASSUME FlightInv, DevTypes, Unmet \/ Met, EndsNext
    PROVE  [Next]_vars
<1>1. CASE HostNext /\ UNCHANGED <<devVars, toHost>>
  BY <1>1, Zenon DEF Next
<1>2. CASE HostHears
  <2>1. PICK h \in Segment : h = Head(toHost) /\ DeviceContract(h)
    BY <1>2, ContractHolds, Zenon DEF ContractMet, HostHears
  <2>2. OnSegment(h) \/ UNCHANGED vars
    BY <1>2, <2>1, Zenon DEF HostHears
  <2> QED BY <2>1, <2>2, Zenon DEF Next
<1>3. CASE DevNext
  <2>1. CASE DevAcceptSyn \/ DevReceive \/ DevIgnore \/ LoseToDev
    <3>1. Carry
      BY <2>1, Zenon DEF DevAcceptSyn, DevReceive, DevIgnore, LoseToDev, Arrived, Carry
    <3> QED BY <3>1, Zenon DEF Next
  <2>2. CASE DevReset \/ DevStray \/ DevConsume \/ DevAck \/ DevSendFin \/ DevRetransmit \/ LoseToHost
    BY <2>2, Zenon DEF DevReset, DevStray, DevConsume, DevAck, DevSendFin, DevRetransmit, LoseToHost
  <2>3. ASSUME NEW n \in Nat \ {0}, DevSend(n) PROVE UNCHANGED vars
    BY <2>3, Zenon DEF DevSend
  <2> QED BY <1>3, <2>1, <2>2, <2>3, ZenonT(30) DEF DevNext
<1>4. CASE UNCHANGED <<vars, devVars, toHost>>
  BY <1>4, Zenon
<1> QED BY <1>1, <1>2, <1>3, <1>4, ZenonT(30) DEF EndsNext

LEMMA EndsKeep ==
    ASSUME PairInv, EndsNext, load' = load
    PROVE  PairInv'
<1>0. FlightInv /\ StreamContiguous /\ DevTypes /\ (Unmet \/ Met) /\ load \in Workloads /\ TypeOK
  BY Zenon DEF PairInv, FlightInv
<1>1. [Next]_vars
  BY <1>0, EndsSession, Zenon
<1>2. FlightInv' /\ StreamContiguous'
  BY <1>0, <1>1, FlightNext, StreamNext, ZenonT(30)
<1>3. DevTypes' /\ (Unmet' \/ Met')
  <2>1. CASE HostNext /\ UNCHANGED <<devVars, toHost>>
    BY <1>0, <2>1, EndsHost, ZenonT(30)
  <2>2. CASE HostHears
    BY <1>0, <2>2, EndsHears, ZenonT(30)
  <2>3. CASE DevNext
    BY <1>0, <2>3, EndsDev, ZenonT(30)
  <2>4. CASE UNCHANGED <<vars, devVars, toHost>>
    <3>1. DevTypes'
      BY <1>0, <2>4, DevTypesSame, ZenonT(30) DEF ToHostNext, ToDevNext, vars
    <3>2. Unmet => Unmet'
      BY <2>4, Zenon DEF Unmet, FreshHost, vars, devVars, sendVars, recvVars, appVars
    <3>3. Met => Met'
      <4>1. /\ DevRecvSame /\ DevSendSame /\ Quiet(toDev, toDev') /\ Quiet(toHost, toHost')
            /\ UNCHANGED <<state, oweAck, sendVars, windowVars, recvVars, appVars>> /\ devState' = devState
        BY <2>4, Zenon DEF DevRecvSame, DevSendSame, Quiet, vars, devVars
      <4>2. Met => devState' # "Listen"
        BY <4>1, Zenon DEF Met
      <4> QED BY <1>0, <4>1, <4>2, MetPacketGone, ZenonT(30)
    <3> QED BY <1>0, <3>1, <3>2, <3>3, ZenonT(30)
  <2> QED BY <2>1, <2>2, <2>3, <2>4, ZenonT(30) DEF EndsNext
<1> QED BY <1>0, <1>2, <1>3, ZenonT(30) DEF PairInv

\* A call of the link, with or without a flush after it.
LEMMA QueueRange ==
    ASSUME TypeOK, load \in Workloads, NEW n, Queue(n),
           n \in 1 .. load.written - written \/ n \in 1 .. load.written
    PROVE  n \in 1 .. MaxWritten
<1>1. load.written \in Nat /\ written \in Nat /\ MaxWritten \in Nat
  BY DeviceAssumption, SizeAssumption DEF TypeOK
<1>2. written + n <= MaxWritten
  BY Zenon DEF Queue
<1> QED BY <1>1, <1>2

LEMMA PairEnds ==
    ASSUME TypeOK, load \in Workloads, [PairNext]_pairVars
    PROVE  EndsNext /\ load' = load
<1>1. CASE UNCHANGED pairVars
  BY <1>1, Zenon DEF pairVars, EndsNext
<1>2. CASE DeviceStep
  <2>1. DevBytes \in Nat
    BY DeviceAssumption, Zenon
  <2> QED BY <1>2, <2>1 DEF DeviceStep, EndsNext, DevNext
<1>3. CASE HostReceive
  BY <1>3, Zenon DEF HostReceive, EndsNext, HostHears, OnSegment
<1>4. CASE LinkCallThenFlush(\E n \in 1 .. load.written - written : Queue(n))
  <2>1. PICK n \in 1 .. load.written - written : Queue(n)
    BY <1>4, Zenon DEF LinkCallThenFlush, HostDo
  <2>2. n \in 1 .. MaxWritten
    BY <2>1, QueueRange, Zenon
  <2>3. UNCHANGED <<devVars, toHost, load>>
    BY <1>4, Zenon DEF LinkCallThenFlush, HostDo
  <2> QED BY <2>1, <2>2, <2>3, ZenonT(30) DEF EndsNext, HostNext
<1>5. CASE LinkCallThenFlush(\E n \in 1 .. Len(inbound) : TakeReceived(n))
  BY <1>5, Zenon DEF LinkCallThenFlush, HostDo, EndsNext, HostNext
<1>6. CASE LinkCallThenFlush(ShutdownWrite) \/ LinkCallThenFlush(ProbeWindow)
  BY <1>6, Zenon DEF LinkCallThenFlush, HostDo, EndsNext, HostNext
<1>7. CASE LinkCall(Close) \/ LinkCall(Forget)
  BY <1>7, Zenon DEF LinkCall, HostDo, EndsNext, HostNext
<1>8. CASE Flush
  BY <1>8, Zenon DEF Flush, HostDo, EndsNext, HostNext
<1>9. CASE Resend
  BY <1>9, Zenon DEF Resend, LinkCall, LinkCallThenFlush, HostDo, EndsNext, HostNext
<1> QED BY <1>1, <1>2, <1>3, <1>4, <1>5, <1>6, <1>7, <1>8, <1>9, ZenonT(30) DEF PairNext, HostStep

LEMMA PairStarts == PairInit => PairInv
<1> SUFFICES ASSUME PairInit PROVE PairInv
  BY Zenon
<1>1. Init /\ load \in Workloads
  BY Zenon DEF PairInit
<1>2. FlightInv /\ TypeOK /\ toDev = <<Syn>>
  BY <1>1, FlightInit, TypeInit, ZenonT(30) DEF Init
<1>3. StreamContiguous
  BY <1>1 DEF Init, StreamContiguous
<1>4. \A i \in 1 .. Len(toDev) : ToDevOK(toDev[i]) /\ ~HasAck(toDev[i])
  BY <1>2 DEF ToDevOK, Syn, HasAck, Carries
<1>5. DevTypes
  <2>1. SeqAdd(DevInitial, 1) \in SeqSpace /\ 0 \in SeqSpace
    <3>1. DevInitial \in SeqSpace /\ 1 \in 0 .. SeqMod
      BY Spaces, DeviceAssumption
    <3>2. SeqAdd(DevInitial, 1) \in SeqSpace
      BY <3>1, ApartAdd, ZenonT(30)
    <3>3. 0 \in SeqSpace
      BY Spaces DEF SeqSpace
    <3> QED BY <3>2, <3>3, Zenon
  <2>2. 0 \in 0 .. DevCap
    BY DeviceAssumption
  <2>3. PICK g : g = <<>>
    BY Zenon
  <2>4. g \in Seq(Nat) /\ g \in Seq(Segment) /\ Len(g) = 0
    BY <2>3
  <2>5. devGot = g /\ toHost = g
    BY <2>3, Zenon DEF PairInit
  <2>6. \A i \in 1 .. Len(toHost) : ToHostOK(toHost[i])
    BY <2>4, <2>5
  <2>7. /\ devRcvNxt \in SeqSpace /\ devSndNxt \in SeqSpace /\ devSndUna \in SeqSpace
        /\ devState \in {"Listen", "Open", "Closed"} /\ devUnread \in 0 .. DevCap
        /\ devEof \in BOOLEAN /\ devSent \in Nat /\ devFin \in SeqSpace \cup {NoSeq}
    BY <2>1, <2>2, Zenon DEF PairInit
  <2> QED BY <1>4, <2>4, <2>5, <2>6, <2>7, ZenonT(30) DEF DevTypes
<1>6. Unmet
  BY <1>1, <1>4 DEF PairInit, Init, Unmet, FreshHost
<1> QED BY <1>1, <1>2, <1>3, <1>5, <1>6, ZenonT(30) DEF PairInv

LEMMA PairKeeps == PairInv /\ [PairNext]_pairVars => PairInv'
BY PairEnds, EndsKeep, Zenon DEF PairInv, FlightInv

LEMMA PairInvariant == PairSpec => []PairInv
BY PairStarts, PairKeeps, PTL DEF PairSpec

-----------------------------------------------------------------------------
(* What the invariant says of the two ends.                                *)

\* on_segment is only ever given what its own theorems ask for: no segment of the
\* device acknowledges from half the sequence space behind, or overflows its window.
THEOREM DeviceMeetsContract == PairSpec => []ContractMet
<1>1. PairInv => ContractMet
  BY ContractHolds, Zenon DEF PairInv
<1> QED BY <1>1, PairInvariant, PTL

\* The session between these channels and this device behaves as MuxSession says
\* a session does, so all that MuxSessionProofs shows of one holds of it.
THEOREM PairImplementsSession == PairSpec => Spec
<1>1. PairInit => Init
  BY Zenon DEF PairInit
<1>2. PairInv /\ [PairNext]_pairVars => [Next]_vars
  BY PairEnds, EndsSession, ZenonT(30) DEF PairInv, FlightInv
<1> QED BY <1>1, <1>2, PairInvariant, PTL DEF PairSpec, Spec

LEMMA BuffersHold == PairInv => BuffersSuffice
<1> SUFFICES ASSUME PairInv PROVE BuffersSuffice
  BY Zenon
<1>0. /\ FlightInv /\ TypeOK /\ DevTypes /\ (Unmet \/ Met) /\ toDev \in Seq(Segment)
      /\ DOMAIN toDev = 1 .. Len(toDev)
  BY DEF PairInv, FlightInv, TypeOK
<1>1. ASSUME NEW i \in 1 .. Len(toDev), toDev[i].payload # <<>>
      PROVE  toDev[i].payload[Len(toDev[i].payload)] <= Len(devGot) - devUnread + DevCap
  <2>1. PICK s \in Segment : s = toDev[i]
    BY <1>0
  <2>2. Carries(s) /\ HasAck(s) /\ s.payload # <<>>
    BY <1>0, <1>1, <2>1, ZenonT(30) DEF Carries, ToDevOK, DevTypes
  <2>3. Met
    BY <1>0, <2>1, <2>2, ZenonT(30) DEF Unmet
  <2>4. Placed(s, devRcvNxt, DevRcvd, HostBytes, sentFin # NoSeq)
    BY <2>1, <2>2, <2>3, ZenonT(30) DEF Met, DownStream, Stream
  <2>5. PICK l \in Nat \ {0} : l = Len(s.payload)
    BY <2>2, SegmentType, ZenonT(30)
  <2>6. PICK a \in Nat : a = Start(s, HostBytes)
    BY <2>4, ZenonT(30) DEF Placed
  <2>7. s.payload[l] = a + l
    <3>1. \A k \in 1 .. Len(s.payload) : s.payload[k] = Start(s, HostBytes) + k
      BY <2>4, Zenon DEF Placed
    <3>2. l \in 1 .. Len(s.payload)
      BY <2>5
    <3> QED BY <2>5, <2>6, <3>1, <3>2, Zenon
  <2>8. PICK b \in Int, g \in Nat : b = HostBytes /\ g = Len(devGot)
    BY <1>0, HostNumbers, DevNumbers, Zenon
  <2>9. a + l <= b /\ b <= g + (DevCap - devUnread)
    BY <2>3, <2>4, <2>5, <2>6, <2>8, Zenon DEF Placed, Met, DownReceived, DevFree
  <2>10. DevCap \in Nat /\ devUnread \in Nat
    BY <1>0, DevNumbers DEF DevTypes
  <2> QED BY <2>1, <2>5, <2>7, <2>8, <2>9, <2>10
<1>2. Len(inbound) <= ReceiveWindow
  <2>1. PICK n \in Nat, t \in Nat : n = Len(inbound) /\ t = Len(taken)
    BY <1>0, HostNumbers, Zenon
  <2>2. ReceiveWindow \in Nat /\ devSent \in Nat
    BY <1>0, SizeAssumption, Zenon DEF DevTypes
  <2>3. CASE Unmet
    BY <2>1, <2>2, <2>3 DEF Unmet, FreshHost
  <2>4. CASE Met
    <3>1. t + n <= devSent /\ devSent <= t + ReceiveWindow
      BY <2>1, <2>4, Zenon DEF Met, UpReceived
    <3> QED BY <2>1, <2>2, <3>1
  <2> QED BY <1>0, <2>3, <2>4, Zenon
<1> QED BY <1>0, <1>1, <1>2, ZenonT(30) DEF BuffersSuffice

\* usable_window and the windows on_established advertises: neither end is ever
\* sent more than it has room for, however old the edge the sender goes by.
THEOREM BuffersAlwaysSuffice == PairSpec => []BuffersSuffice
BY BuffersHold, PairInvariant, PTL

\* A FIN sent and everything acknowledged: the device has it all.
LEMMA AllDelivered ==
    ASSUME PairInv, state = "Established", sentFin # NoSeq, sndUna = sndNxt
    PROVE  Len(devGot) = written /\ devEof
<1>0. FlightInv /\ TypeOK /\ DevTypes /\ Met
  BY Zenon DEF PairInv, FlightInv, Unmet
<1>1. PICK w \in Nat, b \in Int, m \in Nat, g \in Nat :
        w = written /\ b = HostBytes /\ m = InFlight /\ g = Len(devGot)
  BY <1>0, HostNumbers, DevNumbers, Zenon DEF TypeOK
<1>2. m = 0
  BY <1>0, <1>1, InSpace DEF InFlight, SeqSub, TypeOK
<1>3. b = w
  <2>1. outbound = <<>>
    BY <1>0, Zenon DEF FlightInv, FinIsLast
  <2>2. Len(outbound) = 0
    BY <2>1, Zenon
  <2> QED BY <1>1, <2>2 DEF HostBytes
<1>4. HostAcked = b + 1
  BY <1>1, <1>2 DEF HostAcked, HostSent, Bit
<1>5. b + 1 <= g + Bit(devEof) /\ g <= b
  BY <1>0, <1>1, <1>4, ZenonT(30) DEF Met, DownAcks, DownReceived, DevRcvd
<1> QED BY <1>1, <1>3, <1>5 DEF Bit

LEMMA OrderlyIsComplete == PairInv => OrderlyCloseIsComplete
<1> SUFFICES ASSUME PairInv, OrderlyClosed PROVE OrderlyCloseIsComplete
  BY Zenon DEF OrderlyCloseIsComplete
<1>0. FlightInv /\ TypeOK /\ DevTypes /\ Met
  BY Zenon DEF PairInv, FlightInv, Unmet, OrderlyClosed
<1>1. Len(devGot) = written /\ devEof
  BY AllDelivered, Zenon DEF OrderlyClosed
<1>2. Len(taken) = devSent /\ devFin # NoSeq
  <2>1. peerFin # NoSeq /\ inbound = <<>>
    BY Zenon DEF OrderlyClosed, ReceivedEof
  <2>2. Len(taken) \in Nat /\ Len(inbound) = 0
    BY <1>0, <2>1, HostNumbers, ZenonT(30)
  <2>3. devFin # NoSeq /\ Len(taken) + Len(inbound) = devSent
    BY <1>0, <2>1, ZenonT(30) DEF Met, UpReceived
  <2> QED BY <2>2, <2>3
<1> QED BY <1>1, <1>2, Zenon DEF OrderlyCloseIsComplete

\* MuxLink::close may drop an orderly_closed session in silence: nothing is then
\* still under way, in either direction, whatever was lost before.
THEOREM OrderlyCloseLosesNothing == PairSpec => []OrderlyCloseIsComplete
BY OrderlyIsComplete, PairInvariant, PTL

-----------------------------------------------------------------------------
(* Each direction is a byte pipe: the refinement of BytePipe.              *)

\* The bytes 1 .. n, and the same with more behind them.
LEMMA Longer ==
    ASSUME NEW g \in Seq(Nat), NEW h \in Seq(Nat), NEW n \in Nat, Len(h) = Len(g) + n,
           \A k \in 1 .. Len(g) : g[k] = k, \A k \in 1 .. Len(h) : h[k] = k
    PROVE  h = g \o [i \in 1 .. n |-> Len(g) + i]
<1>1. PICK l \in Nat : l = Len(g)
  BY LenProperties, Zenon
<1>2. PICK p : p = [i \in 1 .. n |-> l + i]
  BY Zenon
<1>3. p \in Seq(Nat) /\ Len(p) = n /\ \A k \in 1 .. n : p[k] = l + k
  BY <1>2, BytesFrom
<1>4. PICK c : c = g \o p
  BY Zenon
<1>5. /\ c \in Seq(Nat) /\ Len(c) = l + n
      /\ \A k \in 1 .. l + n : c[k] = IF k <= l THEN g[k] ELSE p[k - l]
  BY <1>1, <1>3, <1>4, ConcatProperties
<1>6. \A k \in 1 .. l + n : c[k] = k
  <2> SUFFICES ASSUME NEW k \in 1 .. l + n PROVE c[k] = k
    BY Zenon
  <2>1. CASE k <= l
    <3>1. k \in 1 .. Len(g) /\ c[k] = g[k]
      BY <1>1, <1>5, <2>1
    <3> QED BY <3>1, Zenon
  <2>2. CASE k > l
    <3>1. k - l \in 1 .. n /\ c[k] = p[k - l]
      BY <1>1, <1>5, <2>2
    <3>2. p[k - l] = l + (k - l)
      BY <1>3, <3>1, ZenonT(30)
    <3> QED BY <1>1, <3>1, <3>2
  <2> QED BY <1>1, <2>1, <2>2
<1>7. h = c
  BY <1>1, <1>5, <1>6, SeqEqual, ZenonT(30)
<1> QED BY <1>1, <1>2, <1>4, <1>7, ZenonT(30)

DownSound ==
    /\ devGot \in Seq(Nat) /\ \A k \in 1 .. Len(devGot) : devGot[k] = k
    /\ Len(devGot) <= written
    /\ devEof => writeShutdown /\ Len(devGot) = written

LEMMA DownIsSound == PairInv => DownSound
<1> SUFFICES ASSUME PairInv PROVE DownSound
  BY Zenon
<1>0. FlightInv /\ TypeOK /\ DevTypes /\ (Unmet \/ Met) /\ devGot \in Seq(Nat) /\ written \in Nat
  BY Zenon DEF PairInv, FlightInv, TypeOK, DevTypes
<1>1. CASE Unmet
  <2>1. Len(devGot) = 0 /\ ~devEof
    BY <1>1, Zenon DEF Unmet
  <2> QED BY <1>0, <2>1 DEF DownSound
<1>2. CASE Met
  <2>1. PICK o \in Nat, g \in Nat : o = Len(outbound) /\ g = Len(devGot)
    BY <1>0, HostNumbers, DevNumbers, ZenonT(30)
  <2>2. /\ g <= written - o /\ (devEof => sentFin # NoSeq /\ g = written - o)
        /\ \A k \in 1 .. g : devGot[k] = k
    BY <1>2, <2>1, ZenonT(30) DEF Met, DownReceived, HostBytes
  <2>3. sentFin # NoSeq => writeShutdown /\ o = 0
    <3>1. sentFin # NoSeq => writeShutdown /\ outbound = <<>>
      BY <1>0, Zenon DEF FlightInv, FinIsLast
    <3> QED BY <2>1, <3>1
  <2> QED BY <1>0, <2>1, <2>2, <2>3 DEF DownSound
<1> QED BY <1>0, <1>1, <1>2, ZenonT(30)

UpSound ==
    /\ taken \in Seq(Nat) /\ \A k \in 1 .. Len(taken) : taken[k] = k
    /\ Len(taken) <= devSent
    /\ ReceivedEof => devFin # NoSeq /\ Len(taken) = devSent
    /\ peerFin # NoSeq /\ Len(taken) = devSent => ReceivedEof

LEMMA UpIsSound == PairInv => UpSound
<1> SUFFICES ASSUME PairInv PROVE UpSound
  BY Zenon
<1>0. TypeOK /\ DevTypes /\ (Unmet \/ Met) /\ taken \in Seq(Nat) /\ devSent \in Nat
  BY Zenon DEF PairInv, FlightInv, TypeOK, DevTypes
<1>1. CASE Unmet
  <2>1. Len(taken) = 0 /\ peerFin = NoSeq /\ ~ReceivedEof
    BY <1>1, Zenon DEF Unmet, FreshHost, ReceivedEof
  <2> QED BY <1>0, <2>1 DEF UpSound
<1>2. CASE Met
  <2>1. PICK n \in Nat, t \in Nat : n = Len(inbound) /\ t = Len(taken)
    BY <1>0, HostNumbers, ZenonT(30)
  <2>2. /\ t + n <= devSent /\ (peerFin # NoSeq => devFin # NoSeq /\ t + n = devSent)
        /\ \A k \in 1 .. t : taken[k] = k
    BY <1>2, <2>1, ZenonT(30) DEF Met, UpReceived
  <2>3. inbound = <<>> <=> n = 0
    BY <1>0, <2>1, EmptySeq, ZenonT(30) DEF TypeOK
  <2> QED BY <1>0, <2>1, <2>2, <2>3 DEF UpSound, ReceivedEof
<1> QED BY <1>0, <1>1, <1>2, ZenonT(30)

\* The bytes that arrive, and with the last of them perhaps the end of file.
LEMMA DownDelivers ==
    ASSUME PairInv, PairInv', UNCHANGED <<written, writeShutdown>>,
           Len(devGot) <= Len(devGot'), devEof => devEof'
    PROVE  Down!Deliver
<1>a. DownSound /\ DownSound'
  BY DownIsSound, PTL
<1>b. written \in Nat /\ devEof \in BOOLEAN /\ devEof' \in BOOLEAN
  BY Zenon DEF PairInv, FlightInv, TypeOK, DevTypes
<1>0. DownSound /\ DownSound' /\ written \in Nat /\ devEof \in BOOLEAN /\ devEof' \in BOOLEAN
  BY <1>a, <1>b, Zenon
<1>1. PICK g \in Nat, h \in Nat : g = Len(devGot) /\ h = Len(devGot')
  BY <1>0, LenProperties, ZenonT(30) DEF DownSound
<1>2. g <= h /\ h <= written
  BY <1>0, <1>1, ZenonT(30) DEF DownSound
<1>3. PICK n \in 0 .. written - g : h = g + n
  <2>1. h - g \in 0 .. written - g /\ h = g + (h - g)
    BY <1>0, <1>1, <1>2
  <2> QED BY <2>1, Zenon
<1>4. devGot' = devGot \o [i \in 1 .. n |-> Len(devGot) + i]
  <2>1. PICK x \in Seq(Nat), y \in Seq(Nat) : x = devGot /\ y = devGot'
    BY <1>0, Zenon DEF DownSound
  <2>2. /\ Len(y) = Len(x) + n /\ n \in Nat
        /\ \A k \in 1 .. Len(x) : x[k] = k
        /\ \A k \in 1 .. Len(y) : y[k] = k
    <3>1. /\ \A k \in 1 .. Len(x) : x[k] = k
          /\ \A k \in 1 .. Len(y) : y[k] = k
      BY <1>0, <2>1, ZenonT(30) DEF DownSound
    <3>2. Len(x) = g /\ Len(y) = h
      BY <1>1, <2>1, ZenonT(30)
    <3>3. n \in Nat
      BY <1>0, <1>1, <1>2
    <3> QED BY <1>3, <3>1, <3>2, <3>3, ZenonT(30)
  <2>3. y = x \o [i \in 1 .. n |-> Len(x) + i]
    BY <2>2, Longer, ZenonT(30)
  <2> QED BY <2>1, <2>3, ZenonT(30)
<1>5. devEof' \in {devEof} \cup {writeShutdown /\ Len(devGot) + n = written}
  <2>1. CASE devEof' = devEof
    BY <2>1, Zenon
  <2>2. CASE devEof' # devEof
    <3>1. devEof'
      BY <1>0, <2>2, ZenonT(30)
    <3>2. writeShutdown /\ Len(devGot) + n = written
      BY <1>0, <1>1, <1>3, <3>1, ZenonT(30) DEF DownSound
    <3> QED BY <1>0, <3>1, <3>2, ZenonT(30)
  <2> QED BY <2>1, <2>2, ZenonT(30)
<1> QED BY <1>1, <1>3, <1>4, <1>5, ZenonT(30) DEF Down!Deliver

LEMMA UpDelivers ==
    ASSUME PairInv, PairInv', UNCHANGED <<devSent, devFin>>,
           Len(taken) <= Len(taken'), peerFin # NoSeq => peerFin' # NoSeq
    PROVE  Up!Deliver
<1>a. UpSound /\ UpSound'
  BY UpIsSound, PTL
<1>0. UpSound /\ UpSound' /\ devSent \in Nat
  BY <1>a, Zenon DEF PairInv, DevTypes
<1>1. PICK g \in Nat, h \in Nat : g = Len(taken) /\ h = Len(taken')
  BY <1>0, LenProperties, ZenonT(30) DEF UpSound
<1>2. g <= h /\ h <= devSent
  BY <1>0, <1>1, ZenonT(30) DEF UpSound
<1>3. PICK n \in 0 .. devSent - g : h = g + n
  <2>1. h - g \in 0 .. devSent - g /\ h = g + (h - g)
    BY <1>0, <1>1, <1>2
  <2> QED BY <2>1, Zenon
<1>4. taken' = taken \o [i \in 1 .. n |-> Len(taken) + i]
  <2>1. PICK x \in Seq(Nat), y \in Seq(Nat) : x = taken /\ y = taken'
    BY <1>0, Zenon DEF UpSound
  <2>2. /\ Len(y) = Len(x) + n /\ n \in Nat
        /\ \A k \in 1 .. Len(x) : x[k] = k
        /\ \A k \in 1 .. Len(y) : y[k] = k
    <3>1. /\ \A k \in 1 .. Len(x) : x[k] = k
          /\ \A k \in 1 .. Len(y) : y[k] = k
      BY <1>0, <2>1, ZenonT(30) DEF UpSound
    <3>2. Len(x) = g /\ Len(y) = h
      BY <1>1, <2>1, ZenonT(30)
    <3>3. n \in Nat
      BY <1>0, <1>1, <1>2
    <3> QED BY <1>3, <3>1, <3>2, <3>3, ZenonT(30)
  <2>3. y = x \o [i \in 1 .. n |-> Len(x) + i]
    BY <2>2, Longer, ZenonT(30)
  <2> QED BY <2>1, <2>3, ZenonT(30)
<1>5. ReceivedEof' \in {ReceivedEof} \cup {devFin # NoSeq /\ Len(taken) + n = devSent}
  <2>1. ReceivedEof \in BOOLEAN /\ ReceivedEof' \in BOOLEAN
    BY Zenon DEF ReceivedEof
  <2>2. CASE ReceivedEof
    <3>1. peerFin' # NoSeq /\ g = devSent
      BY <1>0, <1>1, <2>2, ZenonT(30) DEF UpSound, ReceivedEof
    <3>2. ReceivedEof'
      BY <1>0, <1>1, <1>2, <3>1 DEF UpSound
    <3> QED BY <2>1, <2>2, <3>2, ZenonT(30)
  <2>3. CASE ~ReceivedEof /\ ReceivedEof'
    <3>1. devFin # NoSeq /\ Len(taken) + n = devSent
      BY <1>0, <1>1, <1>3, <2>3, ZenonT(30) DEF UpSound
    <3> QED BY <2>1, <2>3, <3>1, ZenonT(30)
  <2>4. CASE ~ReceivedEof /\ ~ReceivedEof'
    BY <2>1, <2>4, ZenonT(30)
  <2> QED BY <2>2, <2>3, <2>4, ZenonT(30)
<1> QED BY <1>1, <1>3, <1>4, <1>5, ZenonT(30) DEF Up!Deliver

\* No step takes back a byte or the end of file the device has been given.
LEMMA DevKeeps ==
    ASSUME PairInv, EndsNext
    PROVE  Len(devGot) <= Len(devGot') /\ (devEof => devEof')
<1>0. DevTypes /\ TypeOK /\ devGot \in Seq(Nat) /\ Len(devGot) \in Nat
  BY DevNumbers, ZenonT(30) DEF PairInv, DevTypes, FlightInv
<1>1. CASE UNCHANGED <<devGot, devEof>>
  BY <1>0, <1>1
<1>2. CASE DevReceive
  <2>1. devEof => devEof'
    BY <1>2, ZenonT(30) DEF DevReceive
  <2>2. PICK p \in Seq(Nat) : p = Arriving.payload /\ (devGot' = devGot \o p \/ devGot' = devGot)
    <3>1. Arriving \in Segment
      BY <1>0, <1>2, TailIs, ZenonT(30) DEF DevReceive, Arriving, TypeOK
    <3>2. Arriving.payload \in Seq(Nat)
      BY <3>1, SegmentType, ZenonT(30)
    <3> QED BY <1>2, <3>2, ZenonT(30) DEF DevReceive
  <2>3. Len(devGot \o p) = Len(devGot) + Len(p) /\ Len(p) \in Nat
    BY <1>0, ConcatProperties, LenProperties, ZenonT(30)
  <2> QED BY <1>0, <2>1, <2>2, <2>3
<1>3. UNCHANGED <<devGot, devEof>> \/ DevReceive
  <2>1. CASE UNCHANGED devVars
    BY <2>1, Zenon DEF devVars
  <2>2. CASE DevNext
    <3>1. DevAcceptSyn \/ DevReset \/ DevConsume \/ DevAck \/ DevSendFin => UNCHANGED <<devGot,
    devEof>>
      BY Zenon DEF DevAcceptSyn, DevReset, DevConsume, DevAck, DevSendFin
    <3>2. DevStray \/ DevIgnore \/ DevRetransmit \/ LoseToDev \/ LoseToHost => UNCHANGED <<devGot,
    devEof>>
      BY Zenon DEF DevStray, DevIgnore, DevRetransmit, LoseToDev, LoseToHost, devVars
    <3>3. \A n : DevSend(n) => UNCHANGED <<devGot, devEof>>
      BY Zenon DEF DevSend
    <3> QED BY <2>2, <3>1, <3>2, <3>3, ZenonT(30) DEF DevNext
  <2> QED BY <2>1, <2>2, ZenonT(30) DEF EndsNext, HostHears
<1> QED BY <1>1, <1>2, <1>3, ZenonT(30)

\* A step of the device, or of a packet, is none of the session's application.
LEMMA DevSpares ==
    ASSUME DevNext
    PROVE  UNCHANGED <<written, writeShutdown, taken, inbound, peerFin>>
<1>1. \/ UNCHANGED vars
      \/ UNCHANGED <<state, oweAck, sendVars, windowVars, recvVars, appVars>>
  <2>1. DevAcceptSyn \/ DevReceive \/ DevIgnore \/ LoseToDev =>
            UNCHANGED <<state, oweAck, sendVars, windowVars, recvVars, appVars>>
    BY Zenon DEF DevAcceptSyn, DevReceive, DevIgnore, LoseToDev, Arrived
  <2>2. DevReset \/ DevStray \/ DevConsume \/ DevAck \/ DevSendFin \/ DevRetransmit \/ LoseToHost =>
            UNCHANGED vars
    BY Zenon DEF DevReset, DevStray, DevConsume, DevAck, DevSendFin, DevRetransmit, LoseToHost
  <2>3. \A n : DevSend(n) => UNCHANGED vars
    BY Zenon DEF DevSend
  <2> QED BY <2>1, <2>2, <2>3, ZenonT(30) DEF DevNext
<1> QED BY <1>1, ZenonT(30) DEF vars, recvVars, appVars

LEMMA HearSpares ==
    ASSUME TypeOK, HostHears
    PROVE  /\ UNCHANGED <<written, writeShutdown, taken, devSent, devFin>>
           /\ peerFin # NoSeq => peerFin' # NoSeq
<1>1. PICK h : OnSegment(h) \/ UNCHANGED vars
  BY Zenon DEF HostHears
<1>2. UNCHANGED <<devSent, devFin>>
  BY Zenon DEF HostHears, devVars
<1>3. CASE OnReset(h) \/ OnSynAck(h) \/ OnOddFlags(h)
  BY <1>2, <1>3, ZenonT(30) DEF OnReset, OnSynAck, OnOddFlags, recvVars, appVars
<1>4. CASE OnEstablished(h)
  BY <1>2, <1>4, ZenonT(30) DEF OnEstablished, InOrder, recvVars, appVars
<1>5. CASE UNCHANGED vars
  BY <1>2, <1>5, ZenonT(30) DEF vars, recvVars, appVars
<1> QED BY <1>1, <1>3, <1>4, <1>5, ZenonT(30) DEF OnSegment, OnRejected

LEMMA DownStep ==
    ASSUME PairInv, PairInv', EndsNext
    PROVE  [Down!PipeNext]_(Down!pipeVars)
<1>0. TypeOK
  BY Zenon DEF PairInv, FlightInv
<1>1. CASE HostNext /\ UNCHANGED <<devVars, toHost>>
  <2>0. UNCHANGED <<devGot, devEof>>
    BY <1>1, Zenon DEF devVars
  <2>1. ASSUME NEW n \in 1 .. MaxWritten, Queue(n) PROVE Down!Accept
    <3>1. written' \in written + 1 .. MaxWritten
      BY <1>0, <2>1, SizeAssumption DEF Queue, TypeOK
    <3> QED BY <2>0, <2>1, <3>1, ZenonT(30) DEF Down!Accept, Queue, CanWrite
  <2>2. CASE ShutdownWrite
    BY <2>0, <2>2, ZenonT(30) DEF Down!PipeNext, Down!Shut, ShutdownWrite
  <2>3. ASSUME NEW n, TakeReceived(n) PROVE UNCHANGED <<written, writeShutdown>>
    BY <2>3, Zenon DEF TakeReceived
  <2>4. ProbeWindow \/ Close \/ Forget => UNCHANGED <<written, writeShutdown>>
    BY Zenon DEF ProbeWindow, Close, Forget, appVars
  <2>5. NextSegment \/ Retransmit => UNCHANGED <<written, writeShutdown>>
    BY Zenon
       DEF NextSegment, SendData, SendFin, SendAck, Retransmit, RetransmitFin, RetransmitData,
       appVars
  <2>6. UNCHANGED <<written, writeShutdown>> => UNCHANGED Down!pipeVars
    BY <2>0, Zenon DEF Down!pipeVars
  <2> QED BY <1>1, <2>1, <2>2, <2>3, <2>4, <2>5, <2>6, ZenonT(30) DEF HostNext, Down!PipeNext
<1>2. CASE HostHears
  BY <1>0, <1>2, HearSpares, ZenonT(30) DEF HostHears, devVars, Down!pipeVars
<1>3. CASE DevNext
  <2>1. UNCHANGED <<written, writeShutdown>>
    BY <1>3, DevSpares, ZenonT(30)
  <2> QED BY <2>1, DevKeeps, DownDelivers, ZenonT(30) DEF Down!PipeNext
<1>4. CASE UNCHANGED <<vars, devVars, toHost>>
  BY <1>4, ZenonT(30) DEF vars, appVars, devVars, Down!pipeVars
<1> QED BY <1>1, <1>2, <1>3, <1>4, ZenonT(30) DEF EndsNext

LEMMA UpStep ==
    ASSUME PairInv, PairInv', EndsNext
    PROVE  [Up!PipeNext]_(Up!pipeVars)
<1>0. TypeOK /\ DevTypes /\ load \in Workloads /\ Len(taken) \in Nat
  BY HostNumbers, ZenonT(30) DEF PairInv, FlightInv
<1>1. CASE HostNext /\ UNCHANGED <<devVars, toHost>>
  <2>0. UNCHANGED <<devSent, devFin>>
    BY <1>1, Zenon DEF devVars
  <2>1. ASSUME NEW n \in 1 .. Len(inbound), TakeReceived(n)
        PROVE  Len(taken) <= Len(taken') /\ peerFin' = peerFin
    <3>1. PICK p \in Seq(Nat) : p = Front(inbound, n) /\ Len(p) \in Nat
      BY <1>0, SplitType, HostNumbers DEF TypeOK
    <3>2. Len(taken \o p) = Len(taken) + Len(p)
      BY <1>0, <3>1, ConcatProperties, ZenonT(30) DEF TypeOK
    <3> QED BY <1>0, <2>1, <3>1, <3>2 DEF TakeReceived
  <2>2. \A n : Queue(n) => UNCHANGED <<taken, peerFin>>
    BY Zenon DEF Queue, recvVars
  <2>3. ShutdownWrite \/ ProbeWindow \/ Close \/ Forget => UNCHANGED <<taken, peerFin>>
    BY Zenon DEF ShutdownWrite, ProbeWindow, Close, Forget, recvVars, appVars
  <2>4. NextSegment \/ Retransmit => UNCHANGED <<taken, peerFin>>
    BY Zenon DEF NextSegment, SendData, SendFin, SendAck, Retransmit, RetransmitFin, RetransmitData,
           recvVars, appVars
  <2>5. Len(taken) <= Len(taken') /\ peerFin' = peerFin
    BY <1>0, <1>1, <2>1, <2>2, <2>3, <2>4 DEF HostNext
  <2> QED BY <2>0, <2>5, UpDelivers, ZenonT(30) DEF Up!PipeNext
<1>2. CASE HostHears
  BY <1>0, <1>2, HearSpares, UpDelivers DEF Up!PipeNext
<1>3. CASE DevNext
  <2>0. UNCHANGED <<taken, ReceivedEof>>
    BY <1>3, DevSpares, ZenonT(30) DEF ReceivedEof
  <2>1. ASSUME NEW n \in Nat \ {0}, DevSend(n) PROVE Up!Accept
    <3>1. load.devBytes \in 0 .. DevBytes /\ DevBytes \in Nat
      BY <1>0, DeviceAssumption, ZenonT(30)
    <3>2. devSent + n <= load.devBytes /\ devSent' = devSent + n /\ devSent \in Nat
      BY <1>0, <2>1, ZenonT(30) DEF DevSend, DevTypes
    <3>3. devSent' \in devSent + 1 .. DevBytes
      BY <3>1, <3>2
    <3> QED BY <2>0, <2>1, <3>3, ZenonT(30) DEF DevSend, Up!Accept
  <2>2. CASE DevSendFin
    <3>1. devFin' # NoSeq /\ devSent' = devSent
      BY <1>0, <2>2, SequenceAssumption, ZenonT(30) DEF DevSendFin, DevTypes
    <3> QED BY <2>0, <3>1, ZenonT(30) DEF Up!PipeNext, Up!Shut
  <2>3. DevAcceptSyn \/ DevReset \/ DevConsume \/ DevAck \/ DevReceive => UNCHANGED <<devSent,
  devFin>>
    BY Zenon DEF DevAcceptSyn, DevReset, DevConsume, DevAck, DevReceive
  <2>4. DevStray \/ DevIgnore \/ DevRetransmit \/ LoseToDev \/ LoseToHost => UNCHANGED <<devSent,
  devFin>>
    BY Zenon DEF DevStray, DevIgnore, DevRetransmit, LoseToDev, LoseToHost, devVars
  <2>5. UNCHANGED <<devSent, devFin>> => UNCHANGED Up!pipeVars
    BY <2>0, Zenon DEF Up!pipeVars
  <2> QED BY <1>3, <2>1, <2>2, <2>3, <2>4, <2>5, ZenonT(30) DEF DevNext, Up!PipeNext
<1>4. CASE UNCHANGED <<vars, devVars, toHost>>
  BY <1>4, Zenon DEF vars, appVars, recvVars, devVars, ReceivedEof, Up!pipeVars
<1> QED BY <1>1, <1>2, <1>3, <1>4, Zenon DEF EndsNext

\* next_segment, retransmit_unacknowledged and on_established, over channels that
\* lose packets: the device reads what was written, in order and once, and the end
\* of file after the last byte.
THEOREM DownIsAPipe == PairSpec => DownIsPipe
<1>1. PairInit => Down!PipeInit
  BY Zenon DEF PairInit, Init, Down!PipeInit
<1>2. PairInv /\ PairInv' /\ [PairNext]_pairVars => [Down!PipeNext]_(Down!pipeVars)
  BY PairEnds, DownStep, ZenonT(30) DEF PairInv, FlightInv
<1> QED BY <1>1, <1>2, PairInvariant, PTL DEF PairSpec, DownIsPipe, Down!PipeSpec

\* on_established and take_received: the reader is given what the device wrote, in
\* order and once, whatever the device repeats, and its end after the last byte.
THEOREM UpIsAPipe == PairSpec => UpIsPipe
<1>1. PairInit => Up!PipeInit
  BY ZenonT(30) DEF PairInit, Init, ReceivedEof, Up!PipeInit
<1>2. PairInv /\ PairInv' /\ [PairNext]_pairVars => [Up!PipeNext]_(Up!pipeVars)
  BY PairEnds, UpStep, Zenon DEF PairInv, FlightInv
<1> QED BY <1>1, <1>2, PairInvariant, PTL DEF PairSpec, UpIsPipe, Up!PipeSpec

-----------------------------------------------------------------------------
(* The stream's writer, MuxDelivery.                                       *)

LEMMA DeliveryEnds ==
    ASSUME TypeOK, load \in Workloads, [DeliveryNext]_deliveryVars
    PROVE  EndsNext /\ load' = load
<1>1. CASE UNCHANGED deliveryVars
  BY <1>1, PairEnds, ZenonT(30) DEF deliveryVars
<1>2. ASSUME NEW n \in 1 .. load.written, Write(n) PROVE EndsNext /\ load' = load
  <2>1. Queue(n) /\ UNCHANGED <<devVars, toHost, load>>
    BY <1>2, Zenon DEF Write, LinkCallThenFlush, HostDo
  <2>2. n \in 1 .. MaxWritten
    BY <2>1, QueueRange, ZenonT(30)
  <2> QED BY <2>1, <2>2, Zenon DEF EndsNext, HostNext
<1>3. CASE Opened \/ StartShutdown \/ SecondDrainReturns \/ WriterSeesClosed \/ WriterGivesUp
  BY <1>3, PairEnds, ZenonT(30)
     DEF Opened, StartShutdown, SecondDrainReturns, WriterSeesClosed, WriterGivesUp
<1>4. CASE DialFails \/ DropStream
  <2>1. LinkCall(Close) \/ LinkCall(Forget)
    BY <1>4, ZenonT(30) DEF DialFails, DropStream
  <2>2. PairNext
    BY <2>1, ZenonT(30) DEF PairNext, HostStep
  <2> QED BY <2>2, PairEnds, ZenonT(30)
<1>5. CASE FirstDrainReturns \/ PollProbe
  <2>1. PairNext
    BY <1>5, ZenonT(30) DEF FirstDrainReturns, PollProbe, PairNext, HostStep
  <2> QED BY <2>1, PairEnds, Zenon
<1>6. CASE PumpAndFlush \/ Route \/ DeliveryProbe \/ DeviceStep
  <2>1. PairNext
    BY <1>6, Zenon DEF PumpAndFlush, Route, DeliveryProbe, PairNext, HostStep
  <2> QED BY <2>1, PairEnds, Zenon
<1> QED BY <1>1, <1>2, <1>3, <1>4, <1>5, <1>6, ZenonT(30) DEF DeliveryNext

DeliveryInv ==
    /\ PairInv
    /\ writer = "finishing" => writeShutdown
    /\ writer = "finished" => devEof

\* A shut session stays shut.
LEMMA ShutStays ==
    ASSUME PairInv, EndsNext, writeShutdown
    PROVE  writeShutdown'
<1>0. TypeOK
  BY Zenon DEF PairInv, FlightInv
<1>1. CASE HostNext
  <2>1. \A n : Queue(n) \/ TakeReceived(n) => writeShutdown' = writeShutdown
    BY Zenon DEF Queue, TakeReceived
  <2>2. ShutdownWrite => writeShutdown' = TRUE
    BY Zenon DEF ShutdownWrite
  <2>3. ProbeWindow \/ Close \/ Forget => writeShutdown' = writeShutdown
    BY Zenon DEF ProbeWindow, Close, Forget, appVars
  <2>4. NextSegment \/ Retransmit => writeShutdown' = writeShutdown
    BY Zenon
       DEF NextSegment, SendData, SendFin, SendAck, Retransmit, RetransmitFin, RetransmitData,
       appVars
  <2> QED BY <1>1, <2>1, <2>2, <2>3, <2>4, ZenonT(30) DEF HostNext
<1>2. CASE HostHears
  BY <1>0, <1>2, HearSpares, ZenonT(30)
<1>3. CASE DevNext
  BY <1>3, DevSpares, ZenonT(30)
<1>4. CASE UNCHANGED vars
  BY <1>4, Zenon DEF vars, appVars
<1> QED BY <1>1, <1>2, <1>3, <1>4, ZenonT(30) DEF EndsNext

LEMMA DeliveryKeeps == DeliveryInv /\ [DeliveryNext]_deliveryVars => DeliveryInv'
<1> SUFFICES ASSUME DeliveryInv, [DeliveryNext]_deliveryVars PROVE DeliveryInv'
  BY Zenon
<1>1. PairInv /\ EndsNext /\ PairInv'
  <2>1. PairInv /\ TypeOK /\ load \in Workloads
    BY Zenon DEF DeliveryInv, PairInv, FlightInv
  <2>2. EndsNext /\ load' = load
    BY <2>1, DeliveryEnds, ZenonT(30)
  <2> QED BY <2>1, <2>2, EndsKeep, ZenonT(30)
<1>2. (writeShutdown => writeShutdown') /\ (devEof => devEof')
  BY <1>1, ShutStays, DevKeeps, ZenonT(30)
<1>3. CASE writer' = writer
  BY <1>1, <1>2, <1>3, ZenonT(30) DEF DeliveryInv
<1>4. CASE FirstDrainReturns
  <2>1. writer' = "finishing" /\ writeShutdown'
    BY <1>4, Zenon DEF FirstDrainReturns, LinkCallThenFlush, HostDo, ShutdownWrite
  <2> QED BY <1>1, <2>1, ZenonT(30) DEF DeliveryInv
<1>5. CASE SecondDrainReturns
  <2>1. writer = "finishing" /\ state = "Established" /\ Drained /\ writer' = "finished"
    BY <1>5, Zenon DEF SecondDrainReturns
  <2>2. sentFin # NoSeq /\ sndUna = sndNxt
    BY <2>1, Zenon DEF DeliveryInv, Drained, Pending
  <2>3. devEof
    BY <1>1, <2>1, <2>2, AllDelivered, ZenonT(30)
  <2> QED BY <1>1, <1>2, <2>1, <2>3, ZenonT(30) DEF DeliveryInv
<1>6. CASE writer' \in {"writing", "draining", "failed"}
  BY <1>1, <1>6, ZenonT(30) DEF DeliveryInv
<1>7. \/ writer' = writer \/ writer' \in {"writing", "draining", "failed"}
      \/ FirstDrainReturns \/ SecondDrainReturns
  BY Zenon
     DEF DeliveryNext, deliveryVars, Opened, DialFails, Write, StartShutdown, WriterSeesClosed,
         WriterGivesUp, DropStream, PumpAndFlush, Route, DeliveryProbe, PollProbe
<1> QED BY <1>3, <1>4, <1>5, <1>6, <1>7, ZenonT(30)

LEMMA DeliveryInvariant == DeliverySpec => []DeliveryInv
<1>1. DeliveryInit => DeliveryInv
  BY PairStarts, Zenon DEF DeliveryInit, DeliveryInv
<1> QED BY <1>1, DeliveryKeeps, PTL DEF DeliverySpec

\* write_shared, drain_delivery_shared and shutdown_write: a shutdown that reports
\* success has delivered every byte and the end of file, whatever was lost.
THEOREM ShutdownDelivers == DeliverySpec => []ShutdownMeansDelivered
<1>1. DeliveryInv /\ DownSound => ShutdownMeansDelivered
  BY Zenon DEF DeliveryInv, DownSound, ShutdownMeansDelivered
<1>2. DeliveryInv => PairInv
  BY Zenon DEF DeliveryInv
<1> QED BY <1>1, <1>2, DownIsSound, DeliveryInvariant, PTL
=============================================================================
