-------------------------- MODULE MuxSessionProofs --------------------------
(***************************************************************************)
(* Proofs about MuxSession, for every sequence space, window, segment size *)
(* and device that keeps DeviceContract; and the invariant of MuxPair,     *)
(* with what its proof needs to know of sequence numbers and channels.     *)
(***************************************************************************)
EXTENDS MuxPair, TLAPS

USE SMTT(30), ZenonT(30)

-----------------------------------------------------------------------------
(* Sequences.  What SequenceTheorems has on these operators, without the   *)
(* rest of it.                                                             *)

LEMMA EmptySeq ==
    ASSUME NEW S
    PROVE  /\ <<>> \in Seq(S) /\ Len(<<>>) = 0
           /\ \A s \in Seq(S) : s = <<>> <=> Len(s) = 0
OBVIOUS

LEMMA LenProperties ==
    ASSUME NEW S, NEW s \in Seq(S)
    PROVE  Len(s) \in Nat /\ s \in [1 .. Len(s) -> S] /\ DOMAIN s = 1 .. Len(s)
OBVIOUS

LEMMA ConcatProperties ==
    ASSUME NEW S, NEW s \in Seq(S), NEW t \in Seq(S)
    PROVE  /\ s \o t \in Seq(S) /\ Len(s \o t) = Len(s) + Len(t)
           /\ \A i \in 1 .. Len(s) + Len(t) :
                 (s \o t)[i] = IF i <= Len(s) THEN s[i] ELSE t[i - Len(s)]
OBVIOUS

LEMMA AppendProperties ==
    ASSUME NEW S, NEW s \in Seq(S), NEW e \in S
    PROVE  /\ Append(s, e) \in Seq(S) /\ Append(s, e) # <<>>
           /\ Len(Append(s, e)) = Len(s) + 1 /\ Append(s, e)[Len(s) + 1] = e
           /\ \A i \in 1 .. Len(s) : Append(s, e)[i] = s[i]
OBVIOUS

LEMMA HeadTailProperties ==
    ASSUME NEW S, NEW s \in Seq(S), s # <<>>
    PROVE  /\ Head(s) \in S /\ Tail(s) \in Seq(S) /\ Len(Tail(s)) = Len(s) - 1
           /\ \A i \in 1 .. Len(Tail(s)) : Tail(s)[i] = s[i + 1]
OBVIOUS

LEMMA SubSeqProperties ==
    ASSUME NEW S, NEW s \in Seq(S), NEW m \in 1 .. Len(s) + 1, NEW n \in m - 1 .. Len(s)
    PROVE  /\ SubSeq(s, m, n) \in Seq(S) /\ Len(SubSeq(s, m, n)) = n - m + 1
           /\ \A i \in 1 .. n - m + 1 : SubSeq(s, m, n)[i] = s[m + i - 1]
OBVIOUS

-----------------------------------------------------------------------------
(* Wrapped arithmetic. *)

\* wrapping_add of at most one turn stays in the sequence space.
LEMMA AddType ==
    ASSUME NEW a \in SeqSpace, NEW n \in 0 .. SeqMod
    PROVE  SeqAdd(a, n) \in SeqSpace
BY SequenceAssumption DEF SeqAdd, SeqSpace, SeqMod

\* wrapping_sub is a natural number below the size of the space.
LEMMA SubType ==
    ASSUME NEW a \in SeqSpace, NEW b \in SeqSpace
    PROVE  SeqSub(a, b) \in 0 .. SeqMod - 1
BY SequenceAssumption DEF SeqSub, SeqSpace, SeqMod

\* The usable window is less than half the space, whatever the edge.
LEMMA UsableType ==
    ASSUME TypeOK
    PROVE  UsableWindow \in Nat /\ UsableWindow < SeqHalf
BY SubType, SequenceAssumption, WindowAssumption
   DEF TypeOK, UsableWindow, SeqGt, SeqSpace, SeqMod

\* The front and the rest of a sequence split at n.
LEMMA SplitType ==
    ASSUME NEW S, NEW s \in Seq(S), NEW n \in 0 .. Len(s)
    PROVE  /\ Front(s, n) \in Seq(S) /\ Len(Front(s, n)) = n
           /\ Drop(s, n) \in Seq(S) /\ Len(Drop(s, n)) = Len(s) - n
           /\ \A i \in 1 .. n : Front(s, n)[i] = s[i]
           /\ \A i \in 1 .. Len(s) - n : Drop(s, n)[i] = s[n + i]
<1>1. Len(s) \in Nat
  BY LenProperties, Zenon
<1>2. \A i \in 1 .. n : s[i] \in S
  BY LenProperties, <1>1
<1>3. \A i \in n + 1 .. Len(s) : s[i] \in S
  BY LenProperties, <1>1
<1>4. /\ Front(s, n) \in Seq(S) /\ Len(Front(s, n)) = n
      /\ \A i \in 1 .. n : Front(s, n)[i] = s[i]
  BY <1>1, <1>2, SubSeqProperties DEF Front
<1>5. /\ Drop(s, n) \in Seq(S) /\ Len(Drop(s, n)) = Len(s) - n
      /\ \A i \in 1 .. Len(s) - n : Drop(s, n)[i] = s[n + i]
  BY <1>1, <1>3, SubSeqProperties DEF Drop
<1> QED
  BY <1>4, <1>5, Zenon

\* next_segment takes no more than is queued, than a segment holds, and than
\* the window allows.
LEMMA TakeType ==
    ASSUME TypeOK, MaySendData
    PROVE  /\ Take \in 1 .. Len(outbound)
           /\ Take <= UsableWindow
           /\ Take < SeqHalf
<1>1. Len(outbound) \in Nat \ {0}
  BY EmptySeq DEF TypeOK, MaySendData
<1> QED
  BY <1>1, UsableType, SizeAssumption, SequenceAssumption DEF Take, Least, MaySendData

-----------------------------------------------------------------------------
(* Type correctness. *)

\* ack_header: every segment the session builds is a segment.
LEMMA AckSegmentType ==
    ASSUME TypeOK, NEW seq \in SeqSpace, NEW flags \in SUBSET Flags,
           NEW payload \in Seq(Nat)
    PROVE  AckSegment(seq, flags, payload) \in Segment
<1>1. AdvertisedWindow \in Nat
  BY LenProperties, SizeAssumption DEF TypeOK, AdvertisedWindow, Greatest
<1>2. flags \cup {"ACK"} \in SUBSET Flags
  BY Zenon DEF Flags
<1> QED
  BY <1>1, <1>2, Zenon DEF AckSegment, Segment, TypeOK

\* A segment accepted by the transport joins a sequence of segments.
LEMMA EmitType ==
    ASSUME TypeOK, NEW seg \in Segment, Emit(seg)
    PROVE  toDev' \in Seq(Segment)
BY AppendProperties, Zenon DEF TypeOK, Emit

LEMMA TypeInit == Init => TypeOK
<1> SUFFICES ASSUME Init PROVE TypeOK
  BY Zenon
<1>1. 0 \in SeqSpace
  BY SequenceAssumption, WindowAssumption DEF SeqSpace, SeqMod
<1>2. Syn \in Segment
  BY <1>1, SequenceAssumption, SizeAssumption DEF Syn, Segment, Flags
<1> QED
  <2>1. <<>> \in Seq(Nat) /\ <<Syn>> \in Seq(Segment)
    BY <1>2
  <2> QED
    BY <1>1, <2>1, SequenceAssumption, Zenon DEF Init, TypeOK, States

LEMMA TypeHost == TypeOK /\ HostNext => TypeOK'
<1> SUFFICES ASSUME TypeOK, HostNext PROVE TypeOK'
  BY Zenon
<1>1. ASSUME NEW n \in 1 .. MaxWritten, Queue(n) PROVE TypeOK'
  <2>1. [i \in 1 .. n |-> written + i] \in Seq(Nat)
    BY SizeAssumption DEF TypeOK
  <2>2. outbound' \in Seq(Nat) /\ written' \in Nat
    BY <1>1, <2>1, ConcatProperties, SizeAssumption DEF TypeOK, Queue
  <2> QED
    BY <1>1, <2>2, Zenon DEF TypeOK, Queue, windowVars, recvVars
<1>2. ASSUME NEW n \in 1 .. Len(inbound), TakeReceived(n) PROVE TypeOK'
  <2>1. Len(inbound) \in Nat
    BY LenProperties, Zenon DEF TypeOK
  <2>2. taken' \in Seq(Nat) /\ inbound' \in Seq(Nat)
    BY <1>2, <2>1, SplitType, ConcatProperties DEF TypeOK, TakeReceived
  <2> QED
    BY <1>2, <2>2, Zenon DEF TypeOK, TakeReceived, sendVars, windowVars
<1>3. CASE ShutdownWrite
  BY <1>3, Zenon DEF TypeOK, ShutdownWrite, sendVars, windowVars, recvVars
<1>4. CASE ProbeWindow
  BY <1>4, Zenon DEF TypeOK, ProbeWindow, sendVars, windowVars, recvVars, appVars
<1>5. CASE Close
  <2>1. [flags |-> {"RST"}, seq |-> sndNxt, ack |-> rcvNxt, win |-> 0,
         payload |-> <<>>] \in Segment
    BY DEF TypeOK, Segment, Flags
  <2>2. toDev' \in Seq(Segment)
    BY <1>5, <2>1, EmitType, Zenon DEF Close, TypeOK
  <2> QED
    BY <1>5, <2>2, Zenon DEF TypeOK, Close, States, sendVars, windowVars, recvVars, appVars
<1>6. CASE Forget
  BY <1>6, Zenon DEF TypeOK, Forget, States, sendVars, windowVars, recvVars, appVars
<1>7. CASE SendData
  <2>1. /\ Take \in 1 .. Len(outbound) /\ Take < SeqHalf
        /\ Len(outbound) \in Nat
    BY <1>7, TakeType, LenProperties, Zenon DEF SendData, TypeOK
  <2>2. /\ Front(outbound, Take) \in Seq(Nat)
        /\ outbound' \in Seq(Nat)
    <3>1. outbound \in Seq(Nat) /\ Take \in 0 .. Len(outbound)
      BY <2>1 DEF TypeOK
    <3>2. Front(outbound, Take) \in Seq(Nat) /\ Drop(outbound, Take) \in Seq(Nat)
      BY <3>1, SplitType, Zenon
    <3> QED BY <1>7, <3>2, Zenon DEF SendData
  <2>3. unacknowledged' \in Seq(Nat)
    BY <1>7, <2>2, ConcatProperties, Zenon DEF SendData, TypeOK
  <2>4. sndNxt' \in SeqSpace
    BY <1>7, <2>1, AddType, SequenceAssumption DEF SendData, TypeOK, SeqMod
  <2>5. toDev' \in Seq(Segment)
    BY <1>7, <2>2, AckSegmentType, EmitType, Zenon DEF SendData, TypeOK
  <2>6. sendEpoch' \in Nat
    BY <1>7 DEF SendData, EpochOfData, TypeOK
  <2> QED
    BY <1>7, <2>2, <2>3, <2>4, <2>5, <2>6, Zenon
       DEF TypeOK, SendData, windowVars, recvVars, appVars
<1>8. CASE SendFin
  <2>1. sndNxt' \in SeqSpace
    BY <1>8, AddType, SequenceAssumption, WindowAssumption DEF SendFin, TypeOK, SeqMod
  <2>2. toDev' \in Seq(Segment)
    BY <1>8, AckSegmentType, EmitType, EmptySeq, Zenon DEF SendFin, TypeOK, Flags
  <2>3. sendEpoch' \in Nat /\ sentFin' \in SeqSpace
    BY <1>8 DEF SendFin, TypeOK
  <2> QED
    BY <1>8, <2>1, <2>2, <2>3, Zenon DEF TypeOK, SendFin, windowVars, recvVars, appVars
<1>9. CASE SendAck
  <2>1. toDev' \in Seq(Segment)
    BY <1>9, AckSegmentType, EmitType, EmptySeq, Zenon DEF SendAck, TypeOK
  <2> QED
    BY <1>9, <2>1, Zenon DEF TypeOK, SendAck, sendVars, windowVars, recvVars, appVars
<1>10. CASE RetransmitFin
  <2>1. toDev' \in Seq(Segment)
    BY <1>10, AckSegmentType, EmitType, EmptySeq, Zenon DEF RetransmitFin, TypeOK, Flags
  <2> QED
    BY <1>10, <2>1, Zenon DEF TypeOK, RetransmitFin, sendVars, windowVars, recvVars, appVars
<1>11. CASE RetransmitData
  <2> DEFINE take == Least(Least(Len(unacknowledged), Mss), Room)
  <2>1. take \in 0 .. Len(unacknowledged)
    <3>1. Len(unacknowledged) \in Nat
      BY LenProperties, Zenon DEF TypeOK
    <3>2. Room \in Nat
      BY SubType, SequenceAssumption DEF TypeOK, Room, SeqMod
    <3> QED
      BY <3>1, <3>2, SizeAssumption DEF Least
  <2>2. Front(unacknowledged, take) \in Seq(Nat)
    BY <2>1, SplitType, Zenon DEF TypeOK
  <2>3. toDev' \in Seq(Segment)
    BY <1>11, <2>2, AckSegmentType, EmitType, Zenon DEF RetransmitData, TypeOK
  <2> QED
    BY <1>11, <2>3, Zenon DEF TypeOK, RetransmitData, sendVars, windowVars, recvVars, appVars
<1> QED
  BY <1>1, <1>2, <1>3, <1>4, <1>5, <1>6, <1>7, <1>8, <1>9, <1>10, <1>11, Zenon
     DEF HostNext, NextSegment, Retransmit

LEMMA TypeSegment ==
    ASSUME TypeOK, NEW h \in Segment, DeviceContract(h), OnSegment(h)
    PROVE  TypeOK'
<1>1. /\ h.seq \in SeqSpace /\ h.ack \in SeqSpace /\ h.win \in Nat
      /\ h.payload \in Seq(Nat) /\ h.win <= MaxWindow
      /\ Len(h.payload) \in Nat /\ Len(h.payload) < SeqHalf
  BY LenProperties, Zenon DEF Segment, DeviceContract
<1>2. WindowEdge(h) \in SeqSpace
  BY <1>1, AddType, SequenceAssumption, WindowAssumption DEF WindowEdge, SeqMod
<1>3. Greatest(maxPeerWindow, h.win) \in Nat
  BY <1>1, Zenon DEF TypeOK, Greatest
<1>4. CASE OnReset(h)
  BY <1>4, Zenon DEF TypeOK, OnReset, States, sendVars, windowVars, recvVars, appVars
<1>5. CASE OnSynAck(h)
  <2>1. rcvNxt' \in SeqSpace
    BY <1>1, <1>5, AddType, SequenceAssumption, WindowAssumption DEF OnSynAck, SeqMod
  <2> QED
    BY <1>1, <1>2, <1>3, <1>5, <2>1, Zenon DEF TypeOK, OnSynAck, States, appVars
<1>6. CASE OnOddFlags(h)
  BY <1>6, Zenon DEF TypeOK, OnOddFlags, States, sendVars, windowVars, recvVars, appVars
<1>7. CASE OnRejected(h)
  BY <1>7, Zenon DEF TypeOK, OnRejected, vars, sendVars, windowVars, recvVars, appVars
<1>8. CASE OnEstablished(h)
  <2>1. unacknowledged' \in Seq(Nat)
    <3>1. Least(SeqSub(h.ack, sndUna), Len(unacknowledged)) \in 0 .. Len(unacknowledged)
      <4>1. Len(unacknowledged) \in Nat
        BY LenProperties, Zenon DEF TypeOK
      <4>2. h.ack \in SeqSpace /\ sndUna \in SeqSpace
        BY <1>1, Zenon DEF TypeOK
      <4>3. SeqSub(h.ack, sndUna) \in 0 .. SeqMod - 1
        BY <4>2, SubType, Zenon
      <4> QED
        BY <4>1, <4>3, SequenceAssumption DEF Least, SeqMod
    <3> QED
      BY <1>8, <3>1, SplitType DEF OnEstablished, ApplyAck, Unacked, TypeOK
  <2>2. sndUna' \in SeqSpace /\ sendEpoch' \in Nat
    BY <1>1, <1>8 DEF OnEstablished, ApplyAck, TypeOK
  <2>3. sndWndEdge' \in SeqSpace /\ peerWindow' \in Nat /\ maxPeerWindow' \in Nat
    BY <1>1, <1>2, <1>3, <1>8, Zenon DEF OnEstablished, ApplyAck, TypeOK, windowVars
  <2>4. /\ inbound' \in Seq(Nat) /\ rcvNxt' \in SeqSpace
        /\ peerFin' \in SeqSpace \cup {NoSeq}
    <3>1. SeqAdd(rcvNxt, Len(h.payload)) \in SeqSpace
      BY <1>1, AddType, SequenceAssumption DEF TypeOK, SeqMod
    <3>2. SeqAdd(SeqAdd(rcvNxt, Len(h.payload)), 1) \in SeqSpace
      BY <3>1, AddType, SequenceAssumption, WindowAssumption DEF SeqMod
    <3>3. inbound \o h.payload \in Seq(Nat)
      BY <1>1, ConcatProperties, Zenon DEF TypeOK
    <3> QED
      BY <1>8, <3>1, <3>2, <3>3, Zenon DEF OnEstablished, ApplyPayload, TypeOK, recvVars
  <2>5. oweAck' \in BOOLEAN
    BY <1>8, Zenon DEF OnEstablished, TypeOK
  <2> QED
    BY <1>8, <2>1, <2>2, <2>3, <2>4, <2>5, Zenon DEF TypeOK, OnEstablished, ApplyAck, appVars
<1> QED
  BY <1>4, <1>5, <1>6, <1>7, <1>8, Zenon DEF OnSegment

LEMMA TypeNext == TypeOK /\ [Next]_vars => TypeOK'
<1> SUFFICES ASSUME TypeOK, [Next]_vars PROVE TypeOK'
  BY Zenon
<1>1. CASE HostNext
  BY <1>1, TypeHost, Zenon
<1>2. CASE Carry
  <2>1. toDev' \in Seq(Segment)
    BY <1>2, HeadTailProperties, Zenon DEF Carry, TypeOK
  <2> QED
    BY <1>2, <2>1, Zenon DEF TypeOK, Carry, sendVars, windowVars, recvVars, appVars
<1>3. ASSUME NEW h \in Segment, DeviceContract(h), OnSegment(h) PROVE TypeOK'
  BY <1>3, TypeSegment, Zenon
<1>4. CASE UNCHANGED vars
  BY <1>4, Zenon DEF TypeOK, vars, sendVars, windowVars, recvVars, appVars
<1> QED
  BY <1>1, <1>2, <1>3, <1>4, Zenon DEF Next

\* Every field of a session keeps its declared type, in particular every
\* sequence number stays in the 32-bit space, whatever the device sends.
THEOREM TypeCorrect == Spec => []TypeOK
<1> QED
  BY TypeInit, TypeNext, PTL DEF Spec

-----------------------------------------------------------------------------
(* The accounting of what is in flight.  FlightAccounting is not inductive *)
(* by itself: that the queue drains by the same amount as the numbers in   *)
(* flight needs the flight to be shorter than half the space, which needs  *)
(* the window edge to be close to snd_una, ahead of it or behind it.       *)

\* The edge is at most a window ahead, or not so far behind as to look ahead.
InReach(edge, una) ==
    \/ SeqSub(edge, una) <= MaxWindow
    \/ SeqSub(una, edge) + MaxWindow <= SeqHalf

EdgeInReach == InReach(sndWndEdge, sndUna)

HandshakeQuiet ==
    state = "SynSent" => sndNxt = sndUna /\ unacknowledged = <<>> /\ sentFin = NoSeq

FlightInv ==
    /\ TypeOK
    /\ FlightAccounting
    /\ FlightFitsWindow
    /\ FinIsLast
    /\ EdgeInReach
    /\ HandshakeQuiet

\* Sending n numbers inside the usable window lengthens the flight by n and
\* keeps it within a window.
LEMMA SendArithmetic ==
    ASSUME NEW nxt \in SeqSpace, NEW una \in SeqSpace, NEW edge \in SeqSpace,
           NEW n \in Nat,
           SeqSub(nxt, una) <= MaxWindow, InReach(edge, una),
           SeqGt(edge, nxt), n <= SeqSub(edge, nxt)
    PROVE  /\ SeqSub(SeqAdd(nxt, n), una) = SeqSub(nxt, una) + n
           /\ SeqSub(nxt, una) + n <= MaxWindow
BY SequenceAssumption, WindowAssumption
   DEF SeqSub, SeqAdd, SeqGt, InReach, SeqSpace, SeqMod

\* An acknowledgement that is new and not of unsent bytes shortens the flight
\* by as much as it moves snd_una.
LEMMA AckArithmetic ==
    ASSUME NEW nxt \in SeqSpace, NEW una \in SeqSpace, NEW ack \in SeqSpace,
           SeqSub(nxt, una) <= MaxWindow, SeqGt(ack, una), ~SeqGt(ack, nxt)
    PROVE  /\ SeqSub(ack, una) \in 1 .. SeqSub(nxt, una)
           /\ SeqSub(nxt, ack) = SeqSub(nxt, una) - SeqSub(ack, una)
BY SequenceAssumption, WindowAssumption DEF SeqSub, SeqGt, SeqSpace, SeqMod

\* The edge of an acknowledgement is in reach of it, and of an snd_una that
\* is ahead of it by less than the contract allows.
LEMMA EdgeArithmetic ==
    ASSUME NEW una \in SeqSpace, NEW ack \in SeqSpace, NEW win \in 0 .. MaxWindow
    PROVE  /\ InReach(SeqAdd(ack, win), ack)
           /\ SeqSub(una, ack) + MaxWindow <= SeqHalf => InReach(SeqAdd(ack, win), una)
BY SequenceAssumption, WindowAssumption
   DEF SeqSub, SeqAdd, InReach, SeqSpace, SeqMod

LEMMA FlightInit == Init => FlightInv
<1> SUFFICES ASSUME Init PROVE FlightInv
  BY Zenon
<1>1. TypeOK
  BY TypeInit, Zenon
<1>2. SeqSub(InitialSequence, InitialSequence) = 0
  BY SequenceAssumption DEF SeqSub, SeqSpace, SeqMod
<1> QED
  BY <1>1, <1>2, WindowAssumption
     DEF Init, FlightInv, FlightAccounting, FlightFitsWindow, FinIsLast, EdgeInReach,
         InReach, HandshakeQuiet, InFlight, FinOutstanding

\* A step that leaves the sending side and the window edge alone, except that
\* it may queue bytes before the FIN or shut the writer.
QuietStep ==
    /\ sndNxt' = sndNxt /\ sndUna' = sndUna /\ sndWndEdge' = sndWndEdge
    /\ unacknowledged' = unacknowledged /\ sentFin' = sentFin
    /\ sentFin # NoSeq => outbound' = outbound /\ (writeShutdown => writeShutdown')
    /\ state' = "SynSent" => state = "SynSent"

LEMMA FlightQuiet ==
    ASSUME FlightInv, TypeOK', QuietStep
    PROVE  FlightInv'
BY Zenon DEF QuietStep, FlightInv, FlightAccounting, FlightFitsWindow, FinIsLast, EdgeInReach,
       InReach, HandshakeQuiet, InFlight, FinOutstanding

LEMMA FlightSendData ==
    ASSUME FlightInv, TypeOK', SendData
    PROVE  FlightInv'
<1> USE DEF FlightInv
<1>1. /\ Take \in 1 .. Len(outbound) /\ Take \in Nat /\ Take <= UsableWindow
      /\ UsableWindow > 0
  <2>1. Len(outbound) \in Nat
    BY LenProperties, Zenon DEF TypeOK
  <2> QED
    BY <2>1, TakeType DEF SendData, MaySendData
<1>2. sentFin = NoSeq /\ sentFin' = NoSeq
  BY Zenon DEF SendData, MaySendData, FinIsLast
<1>3. /\ SeqGt(sndWndEdge, sndNxt) /\ Take <= SeqSub(sndWndEdge, sndNxt)
  BY <1>1 DEF UsableWindow
<1>4. InFlight' = InFlight + Take /\ InFlight + Take <= MaxWindow
  <2>1. /\ sndNxt \in SeqSpace /\ sndUna \in SeqSpace /\ sndWndEdge \in SeqSpace
        /\ SeqSub(sndNxt, sndUna) <= MaxWindow /\ InReach(sndWndEdge, sndUna)
    BY Zenon DEF TypeOK, FlightFitsWindow, InFlight, EdgeInReach
  <2>2. /\ SeqSub(SeqAdd(sndNxt, Take), sndUna) = SeqSub(sndNxt, sndUna) + Take
        /\ SeqSub(sndNxt, sndUna) + Take <= MaxWindow
    BY <1>1, <1>3, <2>1, SendArithmetic, Zenon
  <2> QED
    BY <2>2, Zenon DEF SendData, InFlight
<1>5. Len(unacknowledged') = Len(unacknowledged) + Take
  <2>1. Take \in 0 .. Len(outbound)
    BY <1>1
  <2>2. Front(outbound, Take) \in Seq(Nat) /\ Len(Front(outbound, Take)) = Take
    BY <2>1, SplitType, Zenon DEF TypeOK
  <2> QED
    BY <2>2, ConcatProperties, Zenon DEF SendData, TypeOK
<1>6. FlightAccounting'
  <2>1. Len(unacknowledged) \in Nat
    BY LenProperties, Zenon DEF TypeOK
  <2> QED
    BY <1>1, <1>2, <1>4, <1>5, <2>1 DEF FlightAccounting, FinOutstanding
<1>7. FlightFitsWindow'
  BY <1>4, Zenon DEF FlightFitsWindow
<1>8. FinIsLast'
  BY <1>2, Zenon DEF FinIsLast
<1>9. EdgeInReach' /\ HandshakeQuiet'
  BY Zenon DEF SendData, EdgeInReach, HandshakeQuiet, windowVars
<1> QED
  BY <1>6, <1>7, <1>8, <1>9, Zenon

LEMMA FlightSendFin ==
    ASSUME FlightInv, TypeOK', SendFin
    PROVE  FlightInv'
<1> USE DEF FlightInv
<1>1. SeqGt(sndWndEdge, sndNxt) /\ 1 <= SeqSub(sndWndEdge, sndNxt)
  <2>1. SeqGt(sndWndEdge, sndNxt)
    BY DEF SendFin, MaySendFin, UsableWindow
  <2>2. SeqSub(sndWndEdge, sndNxt) \in 0 .. SeqMod - 1
    BY SubType, Zenon DEF TypeOK
  <2> QED
    BY <2>1, <2>2, SequenceAssumption DEF SeqGt, SeqMod
<1>2. InFlight' = InFlight + 1 /\ InFlight + 1 <= MaxWindow
  BY <1>1, SendArithmetic DEF SendFin, InFlight, FlightFitsWindow, EdgeInReach, TypeOK
<1>3. InFlight \in Nat
  BY SubType, SequenceAssumption DEF InFlight, TypeOK, SeqMod
<1>4. sndUna' # sndNxt'
  <2>1. sndNxt' \in Int
    BY SequenceAssumption DEF TypeOK, SeqSpace, SeqMod
  <2> QED
    BY <1>2, <1>3, <2>1 DEF InFlight, SeqSub
<1>5. sentFin = NoSeq /\ sentFin' # NoSeq
  BY SequenceAssumption, Zenon DEF SendFin, MaySendFin, TypeOK
<1>6. FlightAccounting'
  <2>1. Len(unacknowledged) \in Nat
    BY LenProperties, Zenon DEF TypeOK
  <2> QED
    BY <1>2, <1>4, <1>5, <2>1 DEF SendFin, FlightAccounting, FinOutstanding
<1>7. FlightFitsWindow'
  BY <1>2, Zenon DEF FlightFitsWindow
<1>8. FinIsLast'
  BY Zenon DEF SendFin, MaySendFin, FinIsLast, appVars
<1>9. EdgeInReach' /\ HandshakeQuiet'
  BY Zenon DEF SendFin, EdgeInReach, HandshakeQuiet, windowVars
<1> QED
  BY <1>6, <1>7, <1>8, <1>9, Zenon

LEMMA FlightSynAck ==
    ASSUME FlightInv, TypeOK', NEW h \in Segment, DeviceContract(h), OnSynAck(h)
    PROVE  FlightInv'
<1> USE DEF FlightInv
<1>1. /\ h.ack \in SeqSpace /\ h.win \in 0 .. MaxWindow
      /\ sentFin' = NoSeq /\ unacknowledged' = <<>>
  BY WindowAssumption DEF Segment, DeviceContract, OnSynAck, HandshakeQuiet
<1>2. InFlight' = 0
  <2>1. h.ack \in Int /\ sndNxt' = h.ack /\ sndUna' = h.ack
    BY <1>1, SequenceAssumption DEF OnSynAck, SeqSpace, SeqMod
  <2> QED
    BY <2>1 DEF InFlight, SeqSub
<1>3. FlightAccounting' /\ FlightFitsWindow' /\ FinIsLast'
  BY <1>1, <1>2, WindowAssumption
     DEF FlightAccounting, FlightFitsWindow, FinIsLast, FinOutstanding
<1>4. EdgeInReach'
  BY <1>1, EdgeArithmetic, Zenon DEF OnSynAck, WindowEdge, EdgeInReach
<1>5. HandshakeQuiet'
  BY Zenon DEF OnSynAck, HandshakeQuiet
<1> QED
  BY <1>3, <1>4, <1>5, Zenon

LEMMA FlightEstablished ==
    ASSUME FlightInv, TypeOK', NEW h \in Segment, DeviceContract(h), OnEstablished(h)
    PROVE  FlightInv'
<1> USE DEF FlightInv
<1>1. /\ h.ack \in SeqSpace /\ h.win \in 0 .. MaxWindow
      /\ sndNxt \in SeqSpace /\ sndUna \in SeqSpace
      /\ SeqSub(sndNxt, sndUna) <= MaxWindow
  BY WindowAssumption DEF Segment, DeviceContract, TypeOK, FlightFitsWindow, InFlight
<1>2. UNCHANGED <<state, sndNxt, outbound, sentFin, writeShutdown>>
  BY Zenon DEF OnEstablished, ApplyAck, appVars
<1>3. FinIsLast' /\ HandshakeQuiet'
  BY <1>2, Zenon DEF FinIsLast, HandshakeQuiet, OnEstablished
<1>4. EdgeInReach'
  <2>1. CASE ~HasAck(h)
    BY <2>1, Zenon DEF OnEstablished, ApplyAck, AcksNew, EdgeInReach, InReach, windowVars
  <2>2. CASE AcksNew(h)
    BY <1>1, <2>2, EdgeArithmetic, Zenon
       DEF OnEstablished, ApplyAck, AcksNew, WindowEdge, EdgeInReach
  <2>3. CASE HasAck(h) /\ ~AcksNew(h)
    <3>1. SeqSub(sndUna, h.ack) + MaxWindow <= SeqHalf
      BY <2>3, Zenon DEF DeviceContract, OnEstablished, AcksNew
    <3>2. InReach(SeqAdd(h.ack, h.win), sndUna)
      BY <1>1, <3>1, EdgeArithmetic, Zenon
    <3> QED
      BY <2>3, <3>2, Zenon DEF OnEstablished, ApplyAck, WindowEdge, EdgeInReach
  <2> QED
    BY <2>1, <2>2, <2>3, Zenon DEF AcksNew
<1>5. FlightAccounting' /\ FlightFitsWindow'
  <2>1. CASE ~AcksNew(h)
    BY <1>2, <2>1, Zenon
       DEF OnEstablished, ApplyAck, FlightAccounting, FlightFitsWindow, InFlight,
           FinOutstanding
  <2>2. CASE AcksNew(h)
    <3> DEFINE acked == SeqSub(h.ack, sndUna)
               kept  == Len(unacknowledged)
    <3>1. acked \in 1 .. InFlight /\ SeqSub(sndNxt, h.ack) = InFlight - acked
      BY <1>1, <2>2, AckArithmetic, Zenon DEF OnEstablished, AcksUnsent, AcksNew, InFlight
    <3>2. sndUna' = h.ack /\ unacknowledged' = Drop(unacknowledged, Least(acked, kept))
      BY <2>2, Zenon DEF OnEstablished, ApplyAck, Unacked
    <3>3. InFlight' = InFlight - acked
      BY <1>2, <3>1, <3>2, Zenon DEF InFlight
    <3>4. kept \in Nat /\ InFlight \in Nat
      BY <1>1, LenProperties, SubType, SequenceAssumption DEF TypeOK, InFlight, SeqMod
    <3>5. Len(unacknowledged') = kept - Least(acked, kept)
      <4>1. Least(acked, kept) \in 0 .. kept
        BY <3>1, <3>4 DEF Least
      <4> QED
        BY <3>2, <4>1, SplitType, ZenonT(30) DEF TypeOK
    <3>6. /\ InFlight = 0 <=> sndUna = sndNxt
          /\ InFlight' = 0 <=> sndUna' = sndNxt'
      <4>1. ASSUME NEW a \in SeqSpace, NEW b \in SeqSpace
            PROVE  SeqSub(a, b) = 0 <=> b = a
        BY SequenceAssumption DEF SeqSub, SeqSpace, SeqMod
      <4> QED
        BY <1>1, <1>2, <3>2, <4>1, Zenon DEF InFlight
    <3>7. FlightAccounting'
      BY <1>2, <3>1, <3>3, <3>4, <3>5, <3>6
         DEF FlightAccounting, FinOutstanding, Least
    <3>8. FlightFitsWindow'
      BY <3>1, <3>3, <3>4, WindowAssumption DEF FlightFitsWindow
    <3> QED
      BY <3>7, <3>8, Zenon
  <2> QED
    BY <2>1, <2>2, Zenon
<1> QED
  BY <1>3, <1>4, <1>5, Zenon

LEMMA FlightNext == FlightInv /\ [Next]_vars => FlightInv'
<1> SUFFICES ASSUME FlightInv, [Next]_vars PROVE FlightInv'
  BY Zenon
<1>0. TypeOK'
  BY TypeNext, Zenon DEF FlightInv
<1> USE DEF sendVars, windowVars, recvVars, appVars, QuietStep
<1>1. ASSUME NEW n \in 1 .. MaxWritten, Queue(n) PROVE FlightInv'
  <2>1. sentFin = NoSeq
    BY <1>1, Zenon DEF Queue, CanWrite, FlightInv, FinIsLast
  <2> QED
    <3>1. QuietStep
      BY <1>1, <2>1, Zenon DEF Queue
    <3> QED
      BY <1>0, <3>1, FlightQuiet, Zenon
<1>2. ASSUME NEW n \in 1 .. Len(inbound), TakeReceived(n) PROVE FlightInv'
  <2>1. QuietStep
    BY <1>2, Zenon DEF TakeReceived
  <2> QED
    BY <1>0, <2>1, FlightQuiet, Zenon
<1>3. CASE ShutdownWrite
  <2>1. QuietStep
    BY <1>3, Zenon DEF ShutdownWrite
  <2> QED
    BY <1>0, <2>1, FlightQuiet, Zenon
<1>4. CASE ProbeWindow
  <2>1. QuietStep
    BY <1>4, Zenon DEF ProbeWindow
  <2> QED
    BY <1>0, <2>1, FlightQuiet, Zenon
<1>5. CASE Close
  <2>1. QuietStep
    BY <1>5, Zenon DEF Close
  <2> QED
    BY <1>0, <2>1, FlightQuiet, Zenon
<1>6. CASE Forget
  <2>1. QuietStep
    BY <1>6, Zenon DEF Forget
  <2> QED
    BY <1>0, <2>1, FlightQuiet, Zenon
<1>7. CASE SendData
  BY <1>0, <1>7, FlightSendData, Zenon
<1>8. CASE SendFin
  BY <1>0, <1>8, FlightSendFin, Zenon
<1>9. CASE SendAck
  <2>1. QuietStep
    BY <1>9, Zenon DEF SendAck
  <2> QED
    BY <1>0, <2>1, FlightQuiet, Zenon
<1>10. CASE Retransmit
  <2>1. QuietStep
    BY <1>10 DEF Retransmit, RetransmitFin, RetransmitData
  <2> QED
    BY <1>0, <2>1, FlightQuiet, Zenon
<1>11. CASE Carry
  <2>1. QuietStep
    BY <1>11, Zenon DEF Carry
  <2> QED
    BY <1>0, <2>1, FlightQuiet, Zenon
<1>12. ASSUME NEW h \in Segment, DeviceContract(h), OnSegment(h) PROVE FlightInv'
  <2>1. CASE OnReset(h)
    <3>1. QuietStep
      BY <2>1, Zenon DEF OnReset
    <3> QED
      BY <1>0, <3>1, FlightQuiet, Zenon
  <2>2. CASE OnOddFlags(h)
    <3>1. QuietStep
      BY <2>2, Zenon DEF OnOddFlags
    <3> QED
      BY <1>0, <3>1, FlightQuiet, Zenon
  <2>3. CASE OnRejected(h)
    <3>1. QuietStep
      BY <2>3, Zenon DEF OnRejected, vars
    <3> QED
      BY <1>0, <3>1, FlightQuiet, Zenon
  <2>4. CASE OnSynAck(h)
    BY <1>0, <1>12, <2>4, FlightSynAck, Zenon
  <2>5. CASE OnEstablished(h)
    BY <1>0, <1>12, <2>5, FlightEstablished, Zenon
  <2> QED
    BY <1>12, <2>1, <2>2, <2>3, <2>4, <2>5, Zenon DEF OnSegment
<1>13. CASE UNCHANGED vars
  <2>1. QuietStep
    BY <1>13, Zenon DEF vars
  <2> QED
    BY <1>0, <2>1, FlightQuiet, Zenon
<1> QED
  BY <1>1, <1>2, <1>3, <1>4, <1>5, <1>6, <1>7, <1>8, <1>9, <1>10, <1>11, <1>12, <1>13, Zenon
     DEF Next, HostNext, NextSegment

LEMMA FlightInvariant == Spec => []FlightInv
BY FlightInit, FlightNext, PTL DEF Spec

\* on_established and next_segment keep the retransmission queue equal to what
\* is in flight, across wraps, stale acknowledgements and retracted windows.
THEOREM FlightIsAccounted == Spec => []FlightAccounting
<1>1. FlightInv => FlightAccounting
  BY Zenon DEF FlightInv
<1> QED
  BY <1>1, FlightInvariant, PTL

\* usable_window never mistakes a shut window for a wide one: next_segment
\* keeps the flight within the widest window a header can carry.
THEOREM FlightFits == Spec => []FlightFitsWindow
<1>1. FlightInv => FlightFitsWindow
  BY Zenon DEF FlightInv
<1> QED
  BY <1>1, FlightInvariant, PTL

\* No byte is queued or sent after the FIN, and the FIN is sent once.
THEOREM FinStaysLast == Spec => []FinIsLast
<1>1. FlightInv => FinIsLast
  BY Zenon DEF FlightInv
<1> QED
  BY <1>1, FlightInvariant, PTL

-----------------------------------------------------------------------------
(* The bytes of the two queues.  StreamContiguous is inductive given the   *)
(* types: bytes enter at the back of outbound, move from its front to the  *)
(* back of unacknowledged, and leave at the front of that.                 *)

\* A step that leaves both queues and the count of written bytes alone.
KeepsQueues ==
    /\ outbound' = outbound /\ unacknowledged' = unacknowledged
    /\ written' = written

LEMMA StreamKept ==
    ASSUME StreamContiguous, KeepsQueues
    PROVE  StreamContiguous'
BY Zenon DEF StreamContiguous, KeepsQueues

LEMMA StreamQueue ==
    ASSUME TypeOK, StreamContiguous, NEW n \in 1 .. MaxWritten, Queue(n)
    PROVE  StreamContiguous'
<1> DEFINE more == [i \in 1 .. n |-> written + i]
           o == Len(outbound)
           u == Len(unacknowledged)
<1>1. n \in Nat /\ o \in Nat /\ u \in Nat /\ written \in Nat
  BY LenProperties, SizeAssumption DEF TypeOK
<1>2. more \in Seq(Nat) /\ Len(more) = n /\ \A i \in 1 .. n : more[i] = written + i
  BY <1>1
<1>3. /\ outbound' = outbound \o more /\ written' = written + n
      /\ unacknowledged' = unacknowledged
  BY Zenon DEF Queue
<1>4. /\ outbound' \in Seq(Nat) /\ Len(outbound') = o + n
      /\ \A i \in 1 .. o + n :
             outbound'[i] = IF i <= o THEN outbound[i] ELSE more[i - o]
  <2> HIDE DEF more
  <2> QED
    BY <1>2, <1>3, ConcatProperties, Zenon DEF TypeOK
<1>5. /\ DOMAIN outbound = 1 .. o /\ DOMAIN outbound' = 1 .. o + n
      /\ DOMAIN unacknowledged = 1 .. u
  BY <1>4, LenProperties, Zenon DEF TypeOK
<1>6. ASSUME NEW i \in 1 .. o + n
      PROVE  outbound'[i] = written' - Len(outbound') + i
  <2>1. i <= o => outbound[i] = written - o + i
    BY <1>1, <1>5 DEF StreamContiguous
  <2>2. i > o => more[i - o] = written + (i - o)
    BY <1>1, <1>2
  <2> HIDE DEF more
  <2> QED
    BY <1>1, <1>3, <1>4, <2>1, <2>2
<1>7. ASSUME NEW i \in 1 .. u
      PROVE  unacknowledged'[i] = written' - Len(outbound') - Len(unacknowledged') + i
  <2>1. unacknowledged[i] = written - o - u + i
    BY <1>5, Zenon DEF StreamContiguous
  <2> HIDE DEF more
  <2> QED
    BY <1>1, <1>3, <1>4, <2>1
<1> QED
  BY <1>3, <1>5, <1>6, <1>7, Zenon DEF StreamContiguous

LEMMA StreamSendData ==
    ASSUME TypeOK, StreamContiguous, SendData
    PROVE  StreamContiguous'
<1> DEFINE head == Front(outbound, Take)
           o == Len(outbound)
           u == Len(unacknowledged)
<1>1. o \in Nat /\ u \in Nat /\ written \in Nat /\ Take \in 1 .. o /\ Take \in 0 .. o
  <2>1. o \in Nat /\ u \in Nat /\ written \in Nat
    BY LenProperties, Zenon DEF TypeOK
  <2> QED
    BY <2>1, TakeType DEF SendData
<1>2. /\ head \in Seq(Nat) /\ Len(head) = Take
      /\ \A i \in 1 .. Take : head[i] = outbound[i]
      /\ Drop(outbound, Take) \in Seq(Nat) /\ Len(Drop(outbound, Take)) = o - Take
      /\ \A i \in 1 .. o - Take : Drop(outbound, Take)[i] = outbound[Take + i]
  BY <1>1, SplitType, ZenonT(30) DEF TypeOK
<1>3. /\ outbound' = Drop(outbound, Take) /\ unacknowledged' = unacknowledged \o head
      /\ written' = written
  BY Zenon DEF SendData, appVars
<1> HIDE DEF head
<1>4. /\ unacknowledged' \in Seq(Nat) /\ Len(unacknowledged') = u + Take
      /\ \A i \in 1 .. u + Take :
             unacknowledged'[i] = IF i <= u THEN unacknowledged[i] ELSE head[i - u]
  <2>1. unacknowledged \in Seq(Nat) /\ head \in Seq(Nat) /\ Len(head) = Take
    BY <1>2, Zenon DEF TypeOK
  <2> HIDE DEF u
  <2>2. /\ unacknowledged \o head \in Seq(Nat)
        /\ Len(unacknowledged \o head) = Len(unacknowledged) + Take
        /\ \A i \in 1 .. Len(unacknowledged) + Take :
               (unacknowledged \o head)[i] = IF i <= Len(unacknowledged)
                                             THEN unacknowledged[i]
                                             ELSE head[i - Len(unacknowledged)]
    BY <2>1, ConcatProperties, Zenon
  <2> QED
    BY <1>3, <2>2, Zenon DEF u
<1>5. /\ DOMAIN outbound = 1 .. o /\ DOMAIN outbound' = 1 .. o - Take
      /\ DOMAIN unacknowledged = 1 .. u /\ DOMAIN unacknowledged' = 1 .. u + Take
  BY <1>2, <1>3, <1>4, LenProperties, Zenon DEF TypeOK
<1>6. ASSUME NEW i \in 1 .. o - Take
      PROVE  outbound'[i] = written' - Len(outbound') + i
  <2>1. outbound[Take + i] = written - o + (Take + i)
    BY <1>1, <1>5 DEF StreamContiguous
  <2> QED
    BY <1>1, <1>2, <1>3, <2>1
<1>7. ASSUME NEW i \in 1 .. u + Take
      PROVE  unacknowledged'[i] = written' - Len(outbound') - Len(unacknowledged') + i
  <2>1. i <= u => unacknowledged[i] = written - o - u + i
    BY <1>1, <1>5 DEF StreamContiguous
  <2>2. i > u => head[i - u] = written - o + (i - u)
    <3> SUFFICES ASSUME i > u PROVE head[i - u] = written - o + (i - u)
      BY Zenon
    <3>1. i - u \in 1 .. Take /\ i - u \in DOMAIN outbound
      BY <1>1, <1>5
    <3>2. head[i - u] = outbound[i - u]
      BY <1>2, <3>1, Zenon
    <3> QED
      BY <3>1, <3>2, Zenon DEF StreamContiguous
  <2>3. Len(outbound') = o - Take /\ Len(unacknowledged') = u + Take /\ written' = written
    BY <1>2, <1>3, <1>4, Zenon
  <2>4. unacknowledged'[i] = IF i <= u THEN unacknowledged[i] ELSE head[i - u]
    BY <1>4, Zenon
  <2> HIDE DEF o, u
  <2> QED
    BY <1>1, <2>1, <2>2, <2>3, <2>4
<1> QED
  BY <1>5, <1>6, <1>7, Zenon DEF StreamContiguous

LEMMA StreamEstablished ==
    ASSUME TypeOK, StreamContiguous, NEW h \in Segment, OnEstablished(h)
    PROVE  StreamContiguous'
<1>1. outbound' = outbound /\ written' = written
  BY Zenon DEF OnEstablished, ApplyAck, appVars
<1>2. CASE ~AcksNew(h)
  <2>1. KeepsQueues
    BY <1>1, <1>2, Zenon DEF OnEstablished, ApplyAck, KeepsQueues
  <2> QED
    BY <2>1, StreamKept, Zenon
<1>3. CASE AcksNew(h)
  <2> DEFINE o == Len(outbound)
             u == Len(unacknowledged)
             m == Least(SeqSub(h.ack, sndUna), u)
  <2>1. o \in Nat /\ u \in Nat /\ written \in Nat
    BY LenProperties, Zenon DEF TypeOK
  <2>2. m \in 0 .. u
    <3>1. h.ack \in SeqSpace /\ sndUna \in SeqSpace
      BY Zenon DEF Segment, TypeOK
    <3>2. SeqSub(h.ack, sndUna) \in 0 .. SeqMod - 1
      BY <3>1, SubType, Zenon
    <3> QED
      BY <2>1, <3>2, SequenceAssumption DEF Least, SeqMod
  <2>3. unacknowledged' = Drop(unacknowledged, m)
    BY <1>3, Zenon DEF OnEstablished, ApplyAck, Unacked
  <2> HIDE DEF m
  <2>4. /\ unacknowledged' \in Seq(Nat) /\ Len(unacknowledged') = u - m
        /\ \A i \in 1 .. u - m : unacknowledged'[i] = unacknowledged[m + i]
    BY <2>2, <2>3, SplitType, Zenon DEF TypeOK
  <2>5. /\ DOMAIN unacknowledged = 1 .. u /\ DOMAIN unacknowledged' = 1 .. u - m
    BY <2>4, LenProperties, Zenon DEF TypeOK
  <2>6. ASSUME NEW i \in 1 .. u - m
        PROVE  unacknowledged'[i] = written' - Len(outbound') - Len(unacknowledged') + i
    <3>1. unacknowledged[m + i] = written - o - u + (m + i)
      BY <2>1, <2>2, <2>5 DEF StreamContiguous
    <3> QED
      BY <1>1, <2>1, <2>2, <2>4, <3>1
  <2> QED
    BY <1>1, <2>5, <2>6, Zenon DEF StreamContiguous
<1> QED
  BY <1>2, <1>3, Zenon

LEMMA StreamNext == TypeOK /\ StreamContiguous /\ [Next]_vars => StreamContiguous'
<1> SUFFICES ASSUME TypeOK, StreamContiguous, [Next]_vars PROVE StreamContiguous'
  BY Zenon
<1>1. ASSUME NEW n \in 1 .. MaxWritten, Queue(n) PROVE StreamContiguous'
  BY <1>1, StreamQueue, Zenon
<1>2. CASE SendData
  BY <1>2, StreamSendData, Zenon
<1>3. ASSUME NEW h \in Segment, OnEstablished(h) PROVE StreamContiguous'
  BY <1>3, StreamEstablished, Zenon
<1>4. CASE KeepsQueues
  BY <1>4, StreamKept, Zenon
<1> USE DEF sendVars, appVars, KeepsQueues
<1>5. CASE \E n \in 1 .. Len(inbound) : TakeReceived(n)
  BY <1>4, <1>5, Zenon DEF TakeReceived
<1>6. CASE ShutdownWrite \/ ProbeWindow \/ Close \/ Forget
  BY <1>4, <1>6, Zenon DEF ShutdownWrite, ProbeWindow, Close, Forget
<1>7. CASE SendFin \/ SendAck \/ Retransmit
  BY <1>4, <1>7, Zenon DEF SendFin, SendAck, Retransmit, RetransmitFin, RetransmitData
<1>8. CASE Carry
  BY <1>4, <1>8, Zenon DEF Carry
<1>9. ASSUME NEW h \in Segment, OnReset(h) \/ OnSynAck(h) \/ OnOddFlags(h) \/ OnRejected(h)
      PROVE  StreamContiguous'
  BY <1>4, <1>9, Zenon DEF OnReset, OnSynAck, OnOddFlags, OnRejected, vars
<1>10. CASE UNCHANGED vars
  BY <1>4, <1>10, Zenon DEF vars
<1> QED
  BY <1>1, <1>2, <1>3, <1>5, <1>6, <1>7, <1>8, <1>9, <1>10, Zenon
     DEF Next, HostNext, NextSegment, OnSegment

\* What retransmit_unacknowledged resends as the bytes at snd_una, and what
\* next_segment sends next, are the right bytes of the stream.
THEOREM StreamIsContiguous == Spec => []StreamContiguous
<1>1. Init => StreamContiguous
  BY DEF Init, StreamContiguous
<1> QED
  BY <1>1, StreamNext, TypeCorrect, PTL DEF Spec

\* The session's bookkeeping is right in every instance: what is in flight is
\* what is kept, it fits a window, the queues hold the stream's last bytes, and
\* a FIN comes after them.
THEOREM SessionIsSound == Spec => []SessionSound
<1>1. FlightInv /\ StreamContiguous => SessionSound
  BY Zenon DEF FlightInv, SessionSound
<1> QED
  BY <1>1, FlightInvariant, StreamIsContiguous, PTL

-----------------------------------------------------------------------------
(* The epoch. *)

LEMMA EpochNext == TypeOK /\ [Next]_vars => [EpochStep]_vars
<1> SUFFICES ASSUME TypeOK, Next PROVE EpochStep
  BY Zenon
<1> USE DEF EpochStep, sendVars
<1>1. sendEpoch + 1 # sendEpoch
  BY DEF TypeOK
<1>2. CASE \E n \in 1 .. MaxWritten : Queue(n)
  BY <1>2, Zenon DEF Queue
<1>3. CASE \E n \in 1 .. Len(inbound) : TakeReceived(n)
  BY <1>3, Zenon DEF TakeReceived
<1>4. CASE ShutdownWrite \/ ProbeWindow \/ Close \/ Forget
  BY <1>4, Zenon DEF ShutdownWrite, ProbeWindow, Close, Forget
<1>5. CASE SendData
  BY <1>1, <1>5, Zenon DEF SendData, EpochOfData
<1>6. CASE SendFin
  BY <1>1, <1>6, Zenon DEF SendFin
<1>7. CASE SendAck \/ Retransmit
  BY <1>7, Zenon DEF SendAck, Retransmit, RetransmitFin, RetransmitData
<1>8. CASE Carry
  BY <1>8, Zenon DEF Carry
<1>9. ASSUME NEW h \in Segment, OnSegment(h) PROVE EpochStep
  <2>1. CASE OnReset(h) \/ OnOddFlags(h) \/ OnRejected(h)
    BY <2>1, Zenon DEF OnReset, OnOddFlags, OnRejected, vars
  <2>2. CASE OnSynAck(h)
    BY <2>2, Zenon DEF OnSynAck
  <2>3. CASE OnEstablished(h)
    BY <1>1, <2>3, Zenon DEF OnEstablished, ApplyAck
  <2> QED
    BY <1>9, <2>1, <2>2, <2>3, Zenon DEF OnSegment
<1> QED
  BY <1>2, <1>3, <1>4, <1>5, <1>6, <1>7, <1>8, <1>9, Zenon DEF Next, HostNext, NextSegment

\* No acknowledgement, first byte or FIN goes by under an unchanged send_epoch,
\* so a probe whose timer saw one epoch throughout probes one flight.
THEOREM EpochNames == Spec => EpochNamesFlight
<1>1. TypeOK /\ [Next]_vars => [EpochStep]_vars
  BY EpochNext, Zenon
<1> QED
  BY <1>1, TypeCorrect, PTL DEF Spec, EpochNamesFlight

-----------------------------------------------------------------------------
(* Sequence numbers, and how far apart two of them are.                    *)

\* The sequence number x is k after y (before it, if k is negative).
Apart(x, y, k) == x - y \in {k, k - SeqMod, k + SeqMod}

LEMMA Spaces ==
    /\ SeqHalf \in Nat /\ SeqMod = 2 * SeqHalf /\ SeqMod \in Nat
    /\ MaxWindow \in Nat /\ 2 * MaxWindow + 1 < SeqHalf
BY SequenceAssumption, WindowAssumption, DeviceAssumption DEF SeqMod

LEMMA InSpace == \A x : x \in SeqSpace <=> x \in Nat /\ x < SeqMod
BY SequenceAssumption DEF SeqMod, SeqSpace

\* The window that survives the header is not more than the window.
LEMMA WireWindow ==
    ASSUME NEW win \in Nat
    PROVE  OnWire(win) \in 0 .. win
<1>1. WindowUnit \in Nat \ {0} /\ MaxWindow \in Nat
  BY DeviceAssumption, WindowAssumption, Zenon
<1>2. PICK a \in Nat, b \in Nat : a = win \div WindowUnit /\ b = MaxWindow \div WindowUnit
  BY <1>1
<1>3. a * WindowUnit <= win
  BY <1>1, <1>2
<1>4. PICK c \in Nat : c = Least(a, b) /\ c <= a
  BY DEF Least
<1>5. c * WindowUnit \in Nat /\ c * WindowUnit <= a * WindowUnit
  BY <1>1, <1>4
<1>6. OnWire(win) = c * WindowUnit
  BY <1>2, <1>4, Zenon DEF OnWire
<1>7. a * WindowUnit \in Nat
  BY <1>1
<1> QED BY <1>3, <1>5, <1>6, <1>7

-----------------------------------------------------------------------------
(* The segments on one channel, as the receiver at its other end will see  *)
(* them.  A position counts the numbers of one direction from the first    *)
(* byte on: each byte, and one for the FIN.                                *)

Bit(b) == IF b THEN 1 ELSE 0

Carries(s) == s.payload # <<>> \/ "FIN" \in s.flags
Start(s, sent) == IF s.payload = <<>> THEN sent ELSE s.payload[1] - 1
End(s, sent) == Start(s, sent) + Len(s.payload) + Bit("FIN" \in s.flags)

\* A segment with bytes or the FIN carries what its sequence number says, and
\* starts at most a window from where the receiver is.
Placed(s, seq, rcvd, sent, shut) ==
    /\ \A k \in 1 .. Len(s.payload) : s.payload[k] = Start(s, sent) + k
    /\ Start(s, sent) + Len(s.payload) <= sent
    /\ "FIN" \in s.flags => shut /\ Start(s, sent) + Len(s.payload) = sent
    /\ Start(s, sent) \in Nat
    /\ rcvd - MaxWindow <= Start(s, sent) /\ Start(s, sent) <= rcvd + MaxWindow
    /\ Apart(s.seq, seq, Start(s, sent) - rcvd)

\* No segment starts more than a window behind the end of one before it.
Follows(s, t, sent) == Carries(s) /\ Carries(t) => End(s, sent) <= Start(t, sent) + MaxWindow

Stream(q, seq, rcvd, sent, shut) ==
    /\ \A i \in 1 .. Len(q) : Carries(q[i]) => Placed(q[i], seq, rcvd, sent, shut)
    /\ \A i, j \in 1 .. Len(q) : i < j => Follows(q[i], q[j], sent)

LEMMA SegmentType ==
    ASSUME NEW s \in Segment
    PROVE  /\ s.seq \in SeqSpace /\ s.ack \in SeqSpace /\ s.win \in Nat
           /\ s.payload \in Seq(Nat) /\ Len(s.payload) \in Nat
           /\ s.payload = <<>> <=> Len(s.payload) = 0
BY EmptySeq, LenProperties, Zenon DEF Segment

LEMMA BitType == \A b : Bit(b) \in 0 .. 1
BY DEF Bit

\* What a channel holds after a packet has left it or another has joined it.
LEMMA TailIs ==
    ASSUME NEW S, NEW q \in Seq(S), q # <<>>
    PROVE  /\ Tail(q) \in Seq(S) /\ Len(q) \in Nat /\ Len(Tail(q)) = Len(q) - 1
           /\ Len(q) >= 1 /\ Head(q) = q[1] /\ Head(q) \in S
           /\ \A i \in 1 .. Len(Tail(q)) : i + 1 \in 1 .. Len(q) /\ Tail(q)[i] = q[i + 1]
OBVIOUS

LEMMA AppendIs ==
    ASSUME NEW S, NEW q \in Seq(S), NEW s \in S
    PROVE  /\ Append(q, s) \in Seq(S) /\ Len(q) \in Nat /\ Len(Append(q, s)) = Len(q) + 1
           /\ \A i \in 1 .. Len(q) : Append(q, s)[i] = q[i]
           /\ Append(q, s)[Len(q) + 1] = s
OBVIOUS

LEMMA StreamTail ==
    ASSUME NEW q \in Seq(Segment), q # <<>>, NEW seq, NEW rcvd, NEW sent, NEW shut,
           Stream(q, seq, rcvd, sent, shut)
    PROVE  Stream(Tail(q), seq, rcvd, sent, shut)
<1>1. PICK t : t = Tail(q)
  BY Zenon
<1>2. /\ Len(q) \in Nat /\ Len(t) \in Nat
      /\ \A i \in 1 .. Len(t) : i + 1 \in 1 .. Len(q) /\ t[i] = q[i + 1]
  BY <1>1, TailIs
<1>3. ASSUME NEW i \in 1 .. Len(t), Carries(t[i]) PROVE Placed(t[i], seq, rcvd, sent, shut)
  BY <1>2, <1>3, Zenon DEF Stream
<1>4. ASSUME NEW i \in 1 .. Len(t), NEW j \in 1 .. Len(t), i < j PROVE Follows(t[i], t[j], sent)
  <2>1. i + 1 \in 1 .. Len(q) /\ j + 1 \in 1 .. Len(q) /\ i + 1 < j + 1
    BY <1>2, <1>4
  <2> QED BY <1>2, <2>1, Zenon DEF Stream
<1> QED BY <1>1, <1>3, <1>4, Zenon DEF Stream

LEMMA StreamPass ==
    ASSUME NEW q \in Seq(Segment), NEW s \in Segment, ~Carries(s),
           NEW seq, NEW rcvd, NEW sent, NEW shut, Stream(q, seq, rcvd, sent, shut)
    PROVE  Stream(Append(q, s), seq, rcvd, sent, shut)
<1>1. PICK t : t = Append(q, s)
  BY Zenon
<1>2. /\ Len(q) \in Nat /\ Len(t) = Len(q) + 1 /\ t[Len(q) + 1] = s
      /\ \A i \in 1 .. Len(q) : t[i] = q[i]
  BY <1>1, AppendIs
<1>3. ASSUME NEW i \in 1 .. Len(t), Carries(t[i]) PROVE Placed(t[i], seq, rcvd, sent, shut)
  BY <1>2, <1>3 DEF Stream
<1>4. ASSUME NEW i \in 1 .. Len(t), NEW j \in 1 .. Len(t), i < j PROVE Follows(t[i], t[j], sent)
  <2>1. CASE j = Len(q) + 1
    BY <1>2, <2>1, Zenon DEF Follows
  <2>2. CASE j # Len(q) + 1
    <3>1. i \in 1 .. Len(q) /\ j \in 1 .. Len(q)
      BY <1>2, <1>4, <2>2
    <3> QED BY <1>2, <1>4, <3>1, Zenon DEF Stream
  <2> QED BY <2>1, <2>2, Zenon
<1> QED BY <1>1, <1>3, <1>4, Zenon DEF Stream

-----------------------------------------------------------------------------
(* The acknowledgements on one channel, as the sender at its other end     *)
(* will see them.                                                          *)

\* Where the receiver was when it sent this acknowledgement, counted from una;
\* a stray one is a window and one further.
Point(x, una) ==
    IF SeqSub(x, una) <= MaxWindow THEN SeqSub(x, una) ELSE SeqSub(x, una) - (MaxWindow + 1)

\* It is not further than the receiver is now (ahead), and unless it is stray the
\* window it offers does not reach past the receiver's buffer (edge).
Acknowledges(s, una, ahead, edge) ==
    /\ SeqSub(s.ack, una) <= 2 * MaxWindow + 1
    /\ Point(s.ack, una) <= ahead
    /\ SeqSub(s.ack, una) <= MaxWindow => SeqSub(s.ack, una) + s.win <= edge

Later(s, t, una) == HasAck(s) /\ HasAck(t) => Point(s.ack, una) <= Point(t.ack, una)

Acks(q, una, ahead, edge) ==
    /\ \A i \in 1 .. Len(q) : HasAck(q[i]) => Acknowledges(q[i], una, ahead, edge)
    /\ \A i, j \in 1 .. Len(q) : i < j => Later(q[i], q[j], una)

LEMMA AcksTail ==
    ASSUME NEW q \in Seq(Segment), q # <<>>, NEW una, NEW ahead, NEW edge,
           Acks(q, una, ahead, edge)
    PROVE  Acks(Tail(q), una, ahead, edge)
<1>1. PICK t : t = Tail(q)
  BY Zenon
<1>2. /\ Len(q) \in Nat /\ Len(t) \in Nat
      /\ \A i \in 1 .. Len(t) : i + 1 \in 1 .. Len(q) /\ t[i] = q[i + 1]
  BY <1>1, TailIs
<1>3. ASSUME NEW i \in 1 .. Len(t), HasAck(t[i]) PROVE Acknowledges(t[i], una, ahead, edge)
  BY <1>2, <1>3, Zenon DEF Acks
<1>4. ASSUME NEW i \in 1 .. Len(t), NEW j \in 1 .. Len(t), i < j PROVE Later(t[i], t[j], una)
  <2>1. i + 1 \in 1 .. Len(q) /\ j + 1 \in 1 .. Len(q) /\ i + 1 < j + 1
    BY <1>2, <1>4
  <2> QED BY <1>2, <2>1, Zenon DEF Acks
<1> QED BY <1>1, <1>3, <1>4, Zenon DEF Acks

LEMMA AcksPass ==
    ASSUME NEW q \in Seq(Segment), NEW s \in Segment, ~HasAck(s),
           NEW una, NEW ahead, NEW edge, Acks(q, una, ahead, edge)
    PROVE  Acks(Append(q, s), una, ahead, edge)
<1>1. PICK t : t = Append(q, s)
  BY Zenon
<1>2. /\ Len(q) \in Nat /\ Len(t) = Len(q) + 1 /\ t[Len(q) + 1] = s
      /\ \A i \in 1 .. Len(q) : t[i] = q[i]
  BY <1>1, AppendIs
<1>3. ASSUME NEW i \in 1 .. Len(t), HasAck(t[i]) PROVE Acknowledges(t[i], una, ahead, edge)
  BY <1>2, <1>3 DEF Acks
<1>4. ASSUME NEW i \in 1 .. Len(t), NEW j \in 1 .. Len(t), i < j PROVE Later(t[i], t[j], una)
  <2>1. CASE j = Len(q) + 1
    BY <1>2, <2>1, Zenon DEF Later
  <2>2. CASE j # Len(q) + 1
    <3>1. i \in 1 .. Len(q) /\ j \in 1 .. Len(q)
      BY <1>2, <1>4, <2>2
    <3> QED BY <1>2, <1>4, <3>1, Zenon DEF Acks
  <2> QED BY <2>1, <2>2, Zenon
<1> QED BY <1>1, <1>3, <1>4, Zenon DEF Acks

-----------------------------------------------------------------------------
(* The inductive invariant of MuxPair.                                     *)

\* The host's stream: how many bytes and numbers it has sent, how many of them it
\* knows to be acknowledged, how many the device has received, and its free room.
HostBytes == written - Len(outbound)
HostSent == HostBytes + Bit(sentFin # NoSeq)
HostAcked == HostSent - InFlight
DevRcvd == Len(devGot) + Bit(devEof)
DevFree == DevCap - devUnread

\* The device's stream.
DevFlight == SeqSub(devSndNxt, devSndUna)
DevUsed == devSent + Bit(devFin # NoSeq)
DevAcked == DevUsed - DevFlight
HostRcvd == Len(taken) + Len(inbound) + Bit(peerFin # NoSeq)
HostFree == ReceiveWindow - Len(inbound)

\* on_segment still looks at segments.  Before the handshake the session is taken
\* to be where the SYN-ACK will put it.
Live == state \in {"SynSent", "Established"}
HostUna == IF state = "SynSent" THEN SeqAdd(InitialSequence, 1) ELSE sndUna
HostExpects == IF state = "SynSent" THEN SeqAdd(DevInitial, 1) ELSE rcvNxt

ToHostOK(s) ==
    /\ s.win <= MaxWindow /\ Len(s.payload) <= MaxWindow
    /\ "SYN" \in s.flags => s.seq = DevInitial
    /\ Carries(s) => s.flags \in {{"ACK"}, {"FIN", "ACK"}}

ToDevOK(s) ==
    /\ "SYN" \in s.flags => s.seq = InitialSequence
    /\ Carries(s) => HasAck(s)

DevTypes ==
    /\ devState \in {"Listen", "Open", "Closed"}
    /\ devRcvNxt \in SeqSpace /\ devSndNxt \in SeqSpace /\ devSndUna \in SeqSpace
    /\ devGot \in Seq(Nat) /\ devUnread \in 0 .. DevCap /\ devEof \in BOOLEAN
    /\ devSent \in Nat /\ devFin \in SeqSpace \cup {NoSeq}
    /\ toHost \in Seq(Segment)
    /\ \A i \in 1 .. Len(toHost) : ToHostOK(toHost[i])
    /\ \A i \in 1 .. Len(toDev) : ToDevOK(toDev[i])

FreshHost ==
    /\ written = 0 /\ outbound = <<>> /\ ~writeShutdown
    /\ sentFin = NoSeq /\ unacknowledged = <<>>
    /\ inbound = <<>> /\ taken = <<>> /\ peerFin = NoSeq

\* The device has not seen the SYN.
Unmet ==
    /\ devState # "Open" /\ state # "Established" /\ FreshHost
    /\ \A i \in 1 .. Len(toDev) : ~HasAck(toDev[i])
    /\ \A i \in 1 .. Len(toHost) : ~HasAck(toHost[i])
    /\ devState = "Listen" => toHost = <<>>
    /\ devGot = <<>> /\ devUnread = 0 /\ ~devEof /\ devSent = 0 /\ devFin = NoSeq
    /\ devSndNxt = SeqAdd(DevInitial, 1) /\ devSndUna = devSndNxt /\ devEdge = devSndNxt

\* The device has the first bytes sent, in order, has seen the end only after the
\* last of them, and has room for all that are under way.
DownReceived ==
    /\ \A k \in 1 .. Len(devGot) : devGot[k] = k
    /\ Len(devGot) <= HostBytes
    /\ devEof => sentFin # NoSeq /\ Len(devGot) = HostBytes
    /\ HostBytes <= Len(devGot) + DevFree

DownStream == Stream(toDev, devRcvNxt, DevRcvd, HostBytes, sentFin # NoSeq)

DownAcks ==
    /\ 0 <= HostAcked /\ HostAcked <= DevRcvd
    /\ Live => /\ Apart(devRcvNxt, HostUna, DevRcvd - HostAcked)
               /\ Acks(toHost, HostUna, DevRcvd - HostAcked, DevRcvd - HostAcked + DevFree)

\* The window edge is the last window heard from snd_una on.
DownWindow ==
    state = "Established" =>
        /\ sndWndEdge = SeqAdd(sndUna, peerWindow)
        /\ peerWindow <= MaxWindow
        /\ peerWindow <= DevRcvd - HostAcked + DevFree

UpReceived ==
    /\ \A k \in 1 .. Len(taken) : taken[k] = k
    /\ \A k \in 1 .. Len(inbound) : inbound[k] = Len(taken) + k
    /\ Len(taken) + Len(inbound) <= devSent
    /\ peerFin # NoSeq => devFin # NoSeq /\ Len(taken) + Len(inbound) = devSent
    /\ devSent <= Len(taken) + ReceiveWindow

UpStream == Live => Stream(toHost, HostExpects, HostRcvd, devSent, devFin # NoSeq)

UpAcks ==
    /\ 0 <= DevAcked /\ DevAcked <= HostRcvd
    /\ Live => Apart(HostExpects, devSndUna, HostRcvd - DevAcked)
    /\ Acks(toDev, devSndUna, HostRcvd - DevAcked, HostRcvd - DevAcked + HostFree)
    /\ \A i \in 1 .. Len(toDev) :
        HasAck(toDev[i]) => SeqSub(toDev[i].ack, devSndUna) <= MaxWindow

UpWindow ==
    /\ DevFlight <= MaxWindow
    /\ \E w \in 0 .. MaxWindow :
        devEdge = SeqAdd(devSndUna, w) /\ w <= HostRcvd - DevAcked + HostFree

Met ==
    /\ devState # "Listen"
    /\ state = "SynSent" => FreshHost
    /\ DownReceived /\ DownStream /\ DownAcks /\ DownWindow
    /\ UpReceived /\ UpStream /\ UpAcks /\ UpWindow

PairInv == FlightInv /\ StreamContiguous /\ DevTypes /\ (Unmet \/ Met) /\ load \in Workloads

-----------------------------------------------------------------------------
(* The types of the numbers.                                               *)

LEMMA HostNumbers ==
    ASSUME TypeOK
    PROVE  /\ Len(outbound) \in Nat /\ Len(unacknowledged) \in Nat /\ Len(inbound) \in Nat
           /\ Len(taken) \in Nat /\ Len(toDev) \in Nat
           /\ InFlight \in Nat /\ HostBytes \in Int /\ HostSent \in Int /\ HostAcked \in Int
           /\ HostRcvd \in Nat /\ HostFree \in Int /\ HostUna \in SeqSpace
           /\ HostExpects \in SeqSpace
<1>1. /\ Len(outbound) \in Nat /\ Len(unacknowledged) \in Nat /\ Len(inbound) \in Nat
      /\ Len(taken) \in Nat /\ written \in Nat /\ Len(toDev) \in Nat
  BY LenProperties, Zenon DEF TypeOK
<1>2. InFlight \in Nat
  BY SubType, Spaces DEF InFlight, TypeOK
<1>3. PICK b \in 0 .. 1, c \in 0 .. 1 : b = Bit(sentFin # NoSeq) /\ c = Bit(peerFin # NoSeq)
  BY BitType, Zenon
<1>4. HostUna \in SeqSpace /\ HostExpects \in SeqSpace
  BY AddType, Spaces, SequenceAssumption, DeviceAssumption DEF TypeOK, HostUna, HostExpects
<1> QED
  BY <1>1, <1>2, <1>3, <1>4, SizeAssumption
     DEF HostBytes, HostSent, HostAcked, HostRcvd, HostFree

LEMMA DevNumbers ==
    ASSUME DevTypes
    PROVE  /\ Len(devGot) \in Nat /\ DevRcvd \in Nat /\ DevFree \in 0 .. DevCap /\ DevFree \in Nat
           /\ DevFlight \in Nat /\ DevUsed \in Nat /\ DevAcked \in Int /\ Len(toHost) \in Nat
           /\ DevCap \in 0 .. MaxWindow
<1>1. Len(devGot) \in Nat /\ devSent \in Nat /\ devUnread \in 0 .. DevCap /\ Len(toHost) \in Nat
  BY LenProperties, Zenon DEF DevTypes
<1>2. DevFlight \in Nat
  BY SubType, Spaces DEF DevFlight, DevTypes
<1>3. PICK b \in 0 .. 1, c \in 0 .. 1 : b = Bit(devEof) /\ c = Bit(devFin # NoSeq)
  BY BitType, Zenon
<1>4. DevCap \in 0 .. MaxWindow /\ MaxWindow \in Nat
  BY DeviceAssumption, Spaces, Zenon
<1> QED BY <1>1, <1>2, <1>3, <1>4 DEF DevRcvd, DevFree, DevUsed, DevAcked

\* What the device has received before the FIN, and the room it has left.
LEMMA DevOpen ==
    ASSUME DevTypes, ~devEof
    PROVE  DevRcvd = Len(devGot)
<1>1. Len(devGot) \in Nat
  BY LenProperties, Zenon DEF DevTypes
<1> QED BY <1>1 DEF DevRcvd, Bit

LEMMA DevFreeIs ==
    ASSUME DevTypes
    PROVE  devUnread \in Nat /\ devUnread <= DevCap /\ DevFree = DevCap - devUnread
<1>1. devUnread \in 0 .. DevCap
  BY Zenon DEF DevTypes
<1> QED BY <1>1, DeviceAssumption DEF DevFree

-----------------------------------------------------------------------------
(* Steps that change nothing at the two ends and at most drop a packet, or *)
(* add one that neither carries nor acknowledges anything.                 *)

HostSendSame == UNCHANGED <<sndNxt, sndUna, sentFin, sndWndEdge, peerWindow, HostBytes>>
HostRecvSame == UNCHANGED <<taken, inbound, peerFin, rcvNxt>>
DevRecvSame == UNCHANGED <<devRcvNxt, devGot, devEof, devUnread>>
DevSendSame == UNCHANGED <<devSndNxt, devSndUna, devSent, devFin, devEdge>>
Anchored == Live' => Live /\ HostUna' = HostUna /\ HostExpects' = HostExpects

Quiet(q, r) ==
    \/ r = q
    \/ q # <<>> /\ r = Tail(q)
    \/ \E s \in Segment : ~Carries(s) /\ ~HasAck(s) /\ r = Append(q, s)

LEMMA Kept ==
    /\ HostSendSame => UNCHANGED <<HostSent, InFlight, HostAcked>>
    /\ HostRecvSame => UNCHANGED <<HostRcvd, HostFree>>
    /\ DevRecvSame => UNCHANGED <<DevRcvd, DevFree>>
    /\ DevSendSame => UNCHANGED <<DevFlight, DevUsed, DevAcked>>
BY Zenon DEF HostSendSame, HostRecvSame, DevRecvSame, DevSendSame, HostSent, InFlight, HostAcked,
       HostRcvd, HostFree, DevRcvd, DevFree, DevFlight, DevUsed, DevAcked

LEMMA StreamQuiet ==
    ASSUME NEW q \in Seq(Segment), NEW r, Quiet(q, r),
           NEW seq, NEW rcvd, NEW sent, NEW shut, Stream(q, seq, rcvd, sent, shut)
    PROVE  Stream(r, seq, rcvd, sent, shut)
BY StreamTail, StreamPass, Zenon DEF Quiet

LEMMA AcksQuiet ==
    ASSUME NEW q \in Seq(Segment), NEW r, Quiet(q, r),
           NEW una, NEW ahead, NEW edge, Acks(q, una, ahead, edge)
    PROVE  Acks(r, una, ahead, edge)
BY AcksTail, AcksPass, Zenon DEF Quiet

\* Whatever holds of every acknowledgement on the channel still does.
LEMMA EachQuiet ==
    ASSUME NEW q \in Seq(Segment), NEW r, Quiet(q, r), NEW una,
           \A i \in 1 .. Len(q) : HasAck(q[i]) => SeqSub(q[i].ack, una) <= MaxWindow,
           NEW i \in 1 .. Len(r), HasAck(r[i])
    PROVE  SeqSub(r[i].ack, una) <= MaxWindow
<1>1. CASE r = q
  BY <1>1, Zenon
<1>2. CASE q # <<>> /\ r = Tail(q)
  BY <1>2, TailIs, Zenon
<1>3. ASSUME NEW s \in Segment, ~HasAck(s), r = Append(q, s)
      PROVE  SeqSub(r[i].ack, una) <= MaxWindow
  <2>1. i # Len(q) + 1
    BY <1>3, AppendIs
  <2>2. i \in 1 .. Len(q) /\ r[i] = q[i]
    BY <1>3, <2>1, AppendIs
  <2> QED BY <2>2, Zenon
<1> QED BY <1>1, <1>2, <1>3, Zenon DEF Quiet

LEMMA DownReceivedKept ==
    ASSUME DownReceived, HostSendSame, DevRecvSame
    PROVE  DownReceived'
BY Kept, Zenon DEF DownReceived, HostSendSame, DevRecvSame

LEMMA UpReceivedKept ==
    ASSUME UpReceived, HostRecvSame, DevSendSame
    PROVE  UpReceived'
BY Zenon DEF UpReceived, HostRecvSame, DevSendSame

LEMMA DownStreamKept ==
    ASSUME TypeOK, DownStream, HostSendSame, DevRecvSame, Quiet(toDev, toDev')
    PROVE  DownStream'
<1>1. toDev \in Seq(Segment)
  BY Zenon DEF TypeOK
<1>2. Stream(toDev', devRcvNxt, DevRcvd, HostBytes, sentFin # NoSeq)
  BY <1>1, StreamQuiet, Zenon DEF DownStream
<1>3. UNCHANGED <<devRcvNxt, DevRcvd, HostBytes, sentFin>>
  BY Kept, Zenon DEF HostSendSame, DevRecvSame
<1> QED BY <1>2, <1>3, Zenon DEF DownStream

LEMMA UpStreamKept ==
    ASSUME DevTypes, UpStream, HostRecvSame, DevSendSame, Anchored, Quiet(toHost, toHost')
    PROVE  UpStream'
<1> SUFFICES ASSUME Live' PROVE Stream(toHost', HostExpects', HostRcvd', devSent', devFin' # NoSeq)
  BY Zenon DEF UpStream
<1>1. toHost \in Seq(Segment)
  BY Zenon DEF DevTypes
<1>2. Stream(toHost', HostExpects, HostRcvd, devSent, devFin # NoSeq)
  BY <1>1, StreamQuiet, Zenon DEF UpStream, Anchored
<1>3. UNCHANGED <<HostExpects, HostRcvd, devSent, devFin>>
  BY Kept, Zenon DEF HostRecvSame, DevSendSame, Anchored
<1> QED BY <1>2, <1>3, Zenon

LEMMA DownAcksKept ==
    ASSUME DevTypes, DownAcks, HostSendSame, DevRecvSame, Anchored, Quiet(toHost, toHost')
    PROVE  DownAcks'
<1>1. toHost \in Seq(Segment)
  BY Zenon DEF DevTypes
<1>2. UNCHANGED <<devRcvNxt, DevRcvd, HostAcked, DevFree>>
  BY Kept, Zenon DEF DevRecvSame
<1>3. ASSUME Live' PROVE Live /\ UNCHANGED HostUna
  BY <1>3, Zenon DEF Anchored
<1>4. Live => Acks(toHost', HostUna, DevRcvd - HostAcked, DevRcvd - HostAcked + DevFree)
  BY <1>1, AcksQuiet, Zenon DEF DownAcks
<1> QED BY <1>2, <1>3, <1>4, Zenon DEF DownAcks

LEMMA UpAcksKept ==
    ASSUME TypeOK, UpAcks, HostRecvSame, DevSendSame, Anchored, Quiet(toDev, toDev')
    PROVE  UpAcks'
<1>1. toDev \in Seq(Segment)
  BY Zenon DEF TypeOK
<1>2. UNCHANGED <<devSndUna, DevAcked, HostRcvd, HostFree>>
  BY Kept, Zenon DEF DevSendSame
<1>3. ASSUME Live' PROVE Live /\ UNCHANGED HostExpects
  BY <1>3, Zenon DEF Anchored
<1>4. Acks(toDev', devSndUna, HostRcvd - DevAcked, HostRcvd - DevAcked + HostFree)
  BY <1>1, AcksQuiet, Zenon DEF UpAcks
<1>5. \A i \in 1 .. Len(toDev') : HasAck(toDev'[i]) => SeqSub(toDev'[i].ack, devSndUna) <= MaxWindow
  BY <1>1, EachQuiet, Zenon DEF UpAcks
<1> QED BY <1>2, <1>3, <1>4, <1>5, Zenon DEF UpAcks

LEMMA DownWindowKept ==
    ASSUME DownWindow, HostSendSame, DevRecvSame,
           state' = "Established" => state = "Established"
    PROVE  DownWindow'
BY Kept, Zenon DEF DownWindow, HostSendSame

LEMMA UpWindowKept ==
    ASSUME UpWindow, HostRecvSame, DevSendSame
    PROVE  UpWindow'
BY Kept, Zenon DEF UpWindow, DevSendSame

LEMMA MetQuiet ==
    ASSUME TypeOK, DevTypes, Met, HostSendSame, HostRecvSame, DevRecvSame, DevSendSame,
           Anchored, Quiet(toDev, toDev'), Quiet(toHost, toHost'),
           devState' # "Listen", state' \in {"SynSent", "Established"} => state' = state,
           state' = "SynSent" => FreshHost'
    PROVE  Met'
<1>1. /\ DownReceived /\ DownStream /\ DownAcks /\ DownWindow
      /\ UpReceived /\ UpStream /\ UpAcks /\ UpWindow
  BY Zenon DEF Met
<1>2. DownReceived' /\ DownStream' /\ DownAcks' /\ DownWindow'
  BY <1>1, DownReceivedKept, DownStreamKept, DownAcksKept, DownWindowKept, Zenon
<1>3. UpReceived' /\ UpStream' /\ UpAcks' /\ UpWindow'
  BY <1>1, UpReceivedKept, UpStreamKept, UpAcksKept, UpWindowKept, Zenon
<1> QED BY <1>2, <1>3, Zenon DEF Met

-----------------------------------------------------------------------------
(* How the numbers compare.                                                *)

LEMMA UpNumbers ==
    ASSUME TypeOK, DevTypes, UpReceived, UpAcks, UpWindow
    PROVE  /\ HostRcvd <= DevUsed /\ HostRcvd - DevAcked \in 0 .. MaxWindow
           /\ HostFree \in 0 .. ReceiveWindow /\ ReceiveWindow \in 0 .. MaxWindow
           /\ AdvertisedWindow = HostFree
           /\ DevAcked \in Nat /\ devSent \in Nat /\ devSent <= HostRcvd + MaxWindow
<1>1. PICK a \in Nat, b \in Nat, f \in 0 .. 1, g \in 0 .. 1 :
        /\ a = Len(taken) /\ b = Len(inbound)
        /\ f = Bit(peerFin # NoSeq) /\ g = Bit(devFin # NoSeq)
  BY HostNumbers, BitType, Zenon
<1>2. /\ a + b <= devSent /\ devSent <= a + ReceiveWindow /\ f <= g
      /\ devSent \in Nat
  BY <1>1 DEF UpReceived, Bit, DevTypes
<1>3. ReceiveWindow \in 0 .. MaxWindow /\ MaxWindow \in Nat
  BY DeviceAssumption, Spaces, Zenon
<1>4. /\ HostRcvd = a + b + f /\ DevUsed = devSent + g /\ HostFree = ReceiveWindow - b
      /\ DevAcked = DevUsed - DevFlight /\ DevAcked \in Int /\ DevFlight \in Nat
      /\ DevAcked <= HostRcvd /\ DevFlight <= MaxWindow /\ 0 <= DevAcked
  BY <1>1, DevNumbers, Zenon DEF HostRcvd, DevUsed, HostFree, DevAcked, UpAcks, UpWindow
<1>5. AdvertisedWindow = HostFree
  BY <1>1, <1>2, <1>3, <1>4 DEF AdvertisedWindow, Greatest
<1> QED BY <1>2, <1>3, <1>4, <1>5

LEMMA DownNumbers ==
    ASSUME FlightInv, DevTypes, DownReceived, DownAcks
    PROVE  /\ HostBytes \in Nat /\ HostSent \in Nat /\ HostAcked \in Nat /\ DevRcvd \in Nat
           /\ InFlight \in 0 .. MaxWindow /\ HostSent = HostAcked + InFlight
           /\ DevRcvd <= HostSent /\ DevRcvd - HostAcked \in 0 .. MaxWindow
           /\ HostBytes <= HostSent /\ HostSent <= HostBytes + 1
<1>1. TypeOK /\ InFlight <= MaxWindow
  BY Zenon DEF FlightInv, FlightFitsWindow
<1>2. PICK d \in Nat, f \in 0 .. 1, g \in 0 .. 1 :
        d = Len(devGot) /\ f = Bit(devEof) /\ g = Bit(sentFin # NoSeq)
  BY DevNumbers, BitType, Zenon
<1>3. /\ HostBytes \in Int /\ InFlight \in Nat /\ MaxWindow \in Nat
      /\ d <= HostBytes /\ f <= g
  BY <1>1, <1>2, HostNumbers, Spaces DEF DownReceived, Bit
<1>4. /\ HostSent = HostBytes + g /\ DevRcvd = d + f /\ HostAcked = HostSent - InFlight
      /\ 0 <= HostAcked /\ HostAcked <= DevRcvd
  BY <1>2, Zenon DEF HostSent, DevRcvd, HostAcked, DownAcks
<1>5. PICK b \in Int, m \in Nat : b = HostBytes /\ m = InFlight
  BY <1>3, Zenon
<1>6. /\ b \in Nat /\ b + g \in Nat /\ (b + g) - m \in Nat /\ d + f \in Nat /\ m \in 0 .. MaxWindow
      /\ b + g = ((b + g) - m) + m /\ d + f <= b + g /\ (d + f) - ((b + g) - m) \in 0 .. MaxWindow
      /\ b <= b + g /\ b + g <= b + 1
  <2>1. /\ MaxWindow \in Nat /\ d <= b /\ f <= g /\ m <= MaxWindow
        /\ 0 <= (b + g) - m /\ (b + g) - m <= d + f
    BY <1>1, <1>3, <1>4, <1>5, Zenon
  <2> QED BY <2>1
<1> QED BY <1>4, <1>5, <1>6, Zenon

LEMMA HostUntouched ==
    ASSUME UNCHANGED vars
    PROVE  HostSendSame /\ HostRecvSame /\ Anchored /\ UNCHANGED <<Live, HostUna, HostExpects, FreshHost>>
BY Zenon DEF vars, sendVars, windowVars, recvVars, appVars, HostSendSame, HostRecvSame, Anchored,
       HostBytes, Live, HostUna, HostExpects, FreshHost

LEMMA KnownFlags ==
    /\ {"ACK"} \in SUBSET Flags /\ {"PSH", "ACK"} \in SUBSET Flags
    /\ {"FIN", "ACK"} \in SUBSET Flags /\ {"RST"} \in SUBSET Flags
    /\ {"SYN", "ACK"} \in SUBSET Flags
BY Zenon DEF Flags

\* The bytes that follow the first s.
LEMMA BytesFrom ==
    ASSUME NEW n \in Nat, NEW s \in Nat, NEW p, p = [i \in 1 .. n |-> s + i]
    PROVE  p \in Seq(Nat) /\ Len(p) = n /\ \A k \in 1 .. n : p[k] = s + k
<1>1. [i \in 1 .. n |-> s + i] \in Seq(Nat) /\ Len([i \in 1 .. n |-> s + i]) = n
  OBVIOUS
<1> QED BY <1>1, Zenon

-----------------------------------------------------------------------------
(* Steps that leave both streams where they are.                           *)

LEMMA MetStill ==
    ASSUME TypeOK, DevTypes, Met, HostSendSame, HostRecvSame, DevRecvSame, DevSendSame,
           Quiet(toDev, toDev'), Quiet(toHost, toHost'), devState' # "Listen",
           state' \in {state, "Closed", "Removed"}, state' = "SynSent" => UNCHANGED FreshHost
    PROVE  Met'
<1>1. Anchored
  BY Zenon DEF Anchored, Live, HostUna, HostExpects, HostSendSame, HostRecvSame
<1>2. state' = "SynSent" => FreshHost'
  BY Zenon DEF Met
<1> QED BY <1>1, <1>2, MetQuiet, Zenon

LEMMA ResetSegment ==
    ASSUME NEW seq \in SeqSpace, NEW ack \in SeqSpace,
           NEW s, s = [flags |-> {"RST"}, seq |-> seq, ack |-> ack, win |-> 0, payload |-> <<>>]
    PROVE  s \in Segment /\ ~Carries(s) /\ ~HasAck(s) /\ s.flags = {"RST"}
BY DEF Segment, Flags, Carries, HasAck

\* Close and Forget leave the numbers, and send at most a reset.
LEMMA Leaves ==
    ASSUME TypeOK, Close \/ Forget
    PROVE  /\ UNCHANGED <<oweAck, sendVars, windowVars, recvVars, appVars>> /\ state' = "Removed"
           /\ \/ toDev' = toDev
              \/ \E s \in Segment : /\ s.flags = {"RST"} /\ ~Carries(s) /\ ~HasAck(s)
                                    /\ toDev' = Append(toDev, s)
<1>1. CASE Forget
  BY <1>1, Zenon DEF Forget
<1>2. CASE Close
  <2>1. PICK s : s = [flags |-> {"RST"}, seq |-> sndNxt, ack |-> rcvNxt, win |-> 0,
                      payload |-> <<>>]
    BY Zenon
  <2>2. s \in Segment /\ ~Carries(s) /\ ~HasAck(s) /\ s.flags = {"RST"}
    BY <2>1, ResetSegment, Zenon DEF TypeOK
  <2>3. toDev' = toDev \/ toDev' = Append(toDev, s)
    BY <1>2, <2>1, Zenon DEF Close, Emit
  <2> QED BY <1>2, <2>2, <2>3, Zenon DEF Close
<1> QED BY <1>1, <1>2, Zenon

\* A packet is lost or ignored, or is no acknowledgement.
LEMMA MetPacketGone ==
    ASSUME FlightInv, DevTypes, Met, DevRecvSame, DevSendSame, devState' # "Listen",
           UNCHANGED <<state, oweAck, sendVars, windowVars, recvVars, appVars>>,
           Quiet(toDev, toDev'), Quiet(toHost, toHost')
    PROVE  Met'
<1>1. TypeOK
  BY Zenon DEF FlightInv
<1>2. HostSendSame /\ HostRecvSame /\ UNCHANGED FreshHost
  BY Zenon
     DEF HostSendSame, HostRecvSame, FreshHost, HostBytes, sendVars, windowVars, recvVars, appVars
<1> QED BY <1>1, <1>2, MetStill, Zenon

-----------------------------------------------------------------------------
(* The packets under way.                                                  *)

LEMMA AppendAny ==
    ASSUME NEW q \in Seq(Segment), NEW s \in Segment, NEW i \in 1 .. Len(Append(q, s))
    PROVE  (i \in 1 .. Len(q) /\ Append(q, s)[i] = q[i]) \/ Append(q, s)[i] = s
<1>1. PICK t : t = Append(q, s)
  BY Zenon
<1>2. /\ Len(q) \in Nat /\ Len(t) = Len(q) + 1 /\ t[Len(q) + 1] = s
      /\ \A k \in 1 .. Len(q) : t[k] = q[k]
  BY <1>1, AppendIs
<1> QED BY <1>1, <1>2

\* A channel is as it was, or has lost its front, or has one segment more.
ToHostNext ==
    \/ toHost' = toHost
    \/ toHost # <<>> /\ toHost' = Tail(toHost)
    \/ \E s \in Segment : ToHostOK(s) /\ toHost' = Append(toHost, s)

ToDevNext ==
    \/ toDev' = toDev
    \/ toDev # <<>> /\ toDev' = Tail(toDev)
    \/ \E s \in Segment : ToDevOK(s) /\ toDev' = Append(toDev, s)

LEMMA ToHostKept ==
    ASSUME DevTypes, ToHostNext
    PROVE  toHost' \in Seq(Segment) /\ \A i \in 1 .. Len(toHost') : ToHostOK(toHost'[i])
<1>1. PICK q \in Seq(Segment) : q = toHost /\ \A i \in 1 .. Len(q) : ToHostOK(q[i])
  BY Zenon DEF DevTypes
<1>2. CASE toHost' = toHost
  BY <1>1, <1>2, Zenon
<1>3. CASE q # <<>> /\ toHost' = Tail(q)
  BY <1>1, <1>3, TailIs, Zenon
<1>4. ASSUME NEW s \in Segment, ToHostOK(s), toHost' = Append(q, s)
      PROVE  toHost' \in Seq(Segment) /\ \A i \in 1 .. Len(toHost') : ToHostOK(toHost'[i])
  <2>1. toHost' \in Seq(Segment)
    BY <1>4, AppendIs, Zenon
  <2>2. ASSUME NEW i \in 1 .. Len(Append(q, s)) PROVE ToHostOK(Append(q, s)[i])
    BY <1>1, <1>4, AppendAny, Zenon
  <2> QED BY <1>4, <2>1, <2>2, Zenon
<1> QED BY <1>1, <1>2, <1>3, <1>4, Zenon DEF ToHostNext

LEMMA ToDevKept ==
    ASSUME TypeOK, DevTypes, ToDevNext
    PROVE  \A i \in 1 .. Len(toDev') : ToDevOK(toDev'[i])
<1>1. PICK q \in Seq(Segment) : q = toDev /\ \A i \in 1 .. Len(q) : ToDevOK(q[i])
  BY Zenon DEF DevTypes, TypeOK
<1>2. CASE toDev' = toDev
  BY <1>1, <1>2, Zenon
<1>3. CASE q # <<>> /\ toDev' = Tail(q)
  BY <1>1, <1>3, TailIs, Zenon
<1>4. ASSUME NEW s \in Segment, ToDevOK(s), toDev' = Append(q, s)
      PROVE  \A i \in 1 .. Len(toDev') : ToDevOK(toDev'[i])
  <2>1. ASSUME NEW i \in 1 .. Len(Append(q, s)) PROVE ToDevOK(Append(q, s)[i])
    BY <1>1, <1>4, AppendAny, Zenon
  <2> QED BY <1>4, <2>1, Zenon
<1> QED BY <1>1, <1>2, <1>3, <1>4, Zenon DEF ToDevNext

LEMMA DevTypesKept ==
    ASSUME TypeOK, DevTypes, ToHostNext, ToDevNext,
           devState' \in {"Listen", "Open", "Closed"},
           devRcvNxt' \in SeqSpace, devSndNxt' \in SeqSpace, devSndUna' \in SeqSpace,
           devGot' \in Seq(Nat), devUnread' \in 0 .. DevCap, devEof' \in BOOLEAN,
           devSent' \in Nat, devFin' \in SeqSpace \cup {NoSeq}
    PROVE  DevTypes'
BY ToHostKept, ToDevKept, Zenon DEF DevTypes
-----------------------------------------------------------------------------
(* Numbers that move, and the acknowledgements that bound them.            *)

\* Two numbers less than a turn apart are the same only at distance 0.
LEMMA ApartZero ==
    ASSUME NEW x \in SeqSpace, NEW y \in SeqSpace, NEW k \in Int,
           -SeqMod < k, k < SeqMod, Apart(x, y, k)
    PROVE  x = y <=> k = 0
BY Spaces, InSpace DEF Apart

LEMMA ApartShift ==
    ASSUME NEW x \in SeqSpace, NEW y \in SeqSpace, NEW b \in Nat, NEW r \in Nat, NEW n \in Nat,
           Apart(x, y, b - r), n <= MaxWindow + 1, r + n <= b + MaxWindow, b <= r + MaxWindow
    PROVE  /\ Apart(x, SeqAdd(y, n), b - (r + n))
           /\ r + n - MaxWindow <= b /\ b <= r + n + MaxWindow
BY Spaces, InSpace DEF Apart, SeqAdd

LEMMA PointType ==
    ASSUME NEW x \in SeqSpace, NEW una \in SeqSpace
    PROVE  Point(x, una) \in Nat /\ SeqSub(x, una) \in Nat /\ Point(x, una) <= SeqSub(x, una)
BY Spaces, InSpace DEF Point, SeqSub

\* The sender moves una to a, which is d further: so is every later point.
LEMMA PointMove ==
    ASSUME NEW x \in SeqSpace, NEW una \in SeqSpace, NEW a \in SeqSpace, NEW d \in 0 .. MaxWindow,
           SeqSub(a, una) = d, SeqSub(x, una) <= 2 * MaxWindow + 1, d <= Point(x, una)
    PROVE  /\ SeqSub(x, a) = SeqSub(x, una) - d
           /\ Point(x, a) = Point(x, una) - d
           /\ SeqSub(x, a) <= MaxWindow <=> SeqSub(x, una) <= MaxWindow
BY Spaces, InSpace DEF Point, SeqSub

\* The receiver moves on, or frees room.
LEMMA AcksGrow ==
    ASSUME NEW q \in Seq(Segment), NEW una \in SeqSpace,
           NEW ahead \in Int, NEW edge \in Int, Acks(q, una, ahead, edge),
           NEW ahead2 \in Int, NEW edge2 \in Int, ahead <= ahead2, edge <= edge2
    PROVE  Acks(q, una, ahead2, edge2)
<1>1. ASSUME NEW i \in 1 .. Len(q), HasAck(q[i]) PROVE Acknowledges(q[i], una, ahead2, edge2)
  <2>1. PICK g \in Segment : g = q[i]
    OBVIOUS
  <2>2. Acknowledges(g, una, ahead, edge)
    BY <1>1, <2>1, Zenon DEF Acks
  <2>3. Point(g.ack, una) \in Nat /\ SeqSub(g.ack, una) \in Nat /\ g.win \in Nat
    BY PointType, SegmentType, Zenon
  <2>4. Acknowledges(g, una, ahead2, edge2)
    BY <2>2, <2>3 DEF Acknowledges
  <2> QED BY <2>1, <2>4, Zenon
<1> QED BY <1>1, Zenon DEF Acks

\* The sender takes the acknowledgement at the front, one that is not stray.
LEMMA AcksTake ==
    ASSUME NEW q \in Seq(Segment), q # <<>>, NEW h \in Segment, h = Head(q), HasAck(h),
           NEW una \in SeqSpace, NEW ahead \in Int, NEW edge \in Int,
           Acks(q, una, ahead, edge),
           NEW d \in 0 .. MaxWindow, SeqSub(h.ack, una) = d
    PROVE  /\ d <= ahead /\ d + h.win <= edge
           /\ Acks(Tail(q), h.ack, ahead - d, edge - d)
           /\ \A i \in 1 .. Len(Tail(q)) :
                HasAck(Tail(q)[i]) /\ SeqSub(Tail(q)[i].ack, una) <= MaxWindow =>
                    SeqSub(Tail(q)[i].ack, h.ack) <= MaxWindow
<1>1. h = q[1] /\ 1 \in 1 .. Len(q) /\ h.ack \in SeqSpace /\ h.win \in Nat
  BY TailIs, SegmentType
<1>2. Acknowledges(h, una, ahead, edge) /\ Point(h.ack, una) = d
  BY <1>1, Spaces DEF Acks, Point
<1>3. d <= ahead /\ d + h.win <= edge
  BY <1>2, Spaces DEF Acknowledges
<1>4. PICK t : t = Tail(q)
  BY Zenon
<1>5. /\ Len(q) \in Nat /\ Len(t) \in Nat
      /\ \A i \in 1 .. Len(t) : i + 1 \in 1 .. Len(q) /\ t[i] = q[i + 1] /\ t[i] \in Segment
  BY <1>4, TailIs
<1>6. Acks(t, una, ahead, edge)
  BY <1>4, AcksTail, Zenon
<1>7. ASSUME NEW i \in 1 .. Len(t), HasAck(t[i])
      PROVE  /\ SeqSub(t[i].ack, una) <= MaxWindow <=> SeqSub(t[i].ack, h.ack) <= MaxWindow
             /\ Point(t[i].ack, h.ack) = Point(t[i].ack, una) - d
             /\ Point(t[i].ack, una) \in Nat
             /\ Acknowledges(t[i], h.ack, ahead - d, edge - d)
  <2>1. PICK g \in Segment : g = t[i] /\ g = q[i + 1]
    BY <1>5, Zenon
  <2>2. Acknowledges(g, una, ahead, edge) /\ g.ack \in SeqSpace /\ g.win \in Nat
    BY <1>6, <1>7, <2>1, SegmentType, Zenon DEF Acks
  <2>3. d <= Point(g.ack, una)
    <3>1. i + 1 \in 1 .. Len(q) /\ 1 < i + 1
      BY <1>5
    <3>2. Later(q[1], q[i + 1], una)
      BY <1>1, <3>1, Zenon DEF Acks
    <3> QED BY <1>1, <1>2, <1>7, <2>1, <3>2, Zenon DEF Later
  <2>4. SeqSub(g.ack, una) <= 2 * MaxWindow + 1
    BY <2>2, Zenon DEF Acknowledges
  <2>5. /\ SeqSub(g.ack, h.ack) = SeqSub(g.ack, una) - d
        /\ Point(g.ack, h.ack) = Point(g.ack, una) - d
        /\ SeqSub(g.ack, h.ack) <= MaxWindow <=> SeqSub(g.ack, una) <= MaxWindow
    BY <1>1, <2>2, <2>3, <2>4, PointMove
  <2>6. PICK m \in Nat, p \in Nat : m = SeqSub(g.ack, una) /\ p = Point(g.ack, una)
    BY <2>2, PointType, Zenon
  <2>7. /\ m - d <= 2 * MaxWindow + 1 /\ p - d <= ahead - d
        /\ m <= MaxWindow => (m - d) + g.win <= edge - d
    BY <2>2, <2>6, Spaces DEF Acknowledges
  <2>8. Acknowledges(g, h.ack, ahead - d, edge - d)
    BY <2>5, <2>6, <2>7, Zenon DEF Acknowledges
  <2> QED BY <2>1, <2>5, <2>6, <2>8, Zenon
<1>8. ASSUME NEW i \in 1 .. Len(t), NEW j \in 1 .. Len(t), i < j PROVE Later(t[i], t[j], h.ack)
  <2> SUFFICES ASSUME HasAck(t[i]), HasAck(t[j])
               PROVE  Point(t[i].ack, h.ack) <= Point(t[j].ack, h.ack)
    BY Zenon DEF Later
  <2>1. Point(t[i].ack, una) <= Point(t[j].ack, una)
    BY <1>6, <1>8, Zenon DEF Acks, Later
  <2> QED BY <1>7, <2>1
<1>9. Acks(t, h.ack, ahead - d, edge - d)
  BY <1>7, <1>8, Zenon DEF Acks
<1> QED BY <1>3, <1>4, <1>7, <1>9, Zenon

-----------------------------------------------------------------------------
(* The readers take what has arrived.                                      *)

LEMMA LessIsMore ==
    ASSUME NEW c \in Nat, NEW x \in Nat, NEW y \in Nat, x <= c, y <= x
    PROVE  c - x \in Nat /\ c - y \in Nat /\ c - x <= c - y /\ c - y <= c
OBVIOUS

LEMMA MetDevConsume ==
    ASSUME FlightInv, DevTypes, Met, DevConsume
    PROVE  Met' /\ devUnread' \in 0 .. DevCap
<1>0. /\ TypeOK /\ DownReceived /\ DownStream /\ DownAcks /\ DownWindow
      /\ UpReceived /\ UpStream /\ UpAcks /\ UpWindow
  BY Zenon DEF FlightInv, Met
<1>1. /\ DevSendSame /\ UNCHANGED <<vars, toHost, toDev, state, devState>>
      /\ UNCHANGED <<devRcvNxt, devGot, devEof>>
  BY Zenon DEF DevConsume, DevSendSame, vars
<1>2. /\ HostSendSame /\ HostRecvSame /\ Anchored
      /\ UNCHANGED <<Live, HostUna, HostAcked, DevRcvd, HostBytes>>
  BY <1>1, HostUntouched, Kept, Zenon DEF DevRcvd, HostSendSame
<1>3. PICK f \in Nat, g \in Nat : f = DevFree /\ g = DevFree' /\ f <= g /\ g <= DevCap
  <2>1. PICK c \in Nat, x \in Nat, y \in Nat :
          c = DevCap /\ x = devUnread /\ y = devUnread' /\ x <= c /\ y <= x
    <3>1. DevCap \in Nat
      BY DevNumbers, Spaces
    <3>2. devUnread \in Nat /\ devUnread <= DevCap
      BY <3>1 DEF DevTypes
    <3>3. devUnread' \in Nat /\ devUnread' <= devUnread
      BY <3>2 DEF DevConsume
    <3> QED BY <3>1, <3>2, <3>3, Zenon
  <2>2. DevFree = c - x /\ DevFree' = c - y
    <3>1. DevFree = DevCap - devUnread /\ DevFree' = DevCap - devUnread'
      BY Zenon DEF DevFree
    <3> QED BY <2>1, <3>1, Zenon
  <2>3. c - x \in Nat /\ c - y \in Nat /\ c - x <= c - y /\ c - y <= c
    BY <2>1, LessIsMore, Zenon
  <2> QED BY <2>1, <2>2, <2>3, Zenon
<1>4. PICK b \in Int, d \in Nat, a \in Nat, w \in Nat :
        b = HostBytes /\ d = Len(devGot) /\ a = DevRcvd - HostAcked /\ w = peerWindow
  <2>1. HostBytes \in Int /\ Len(devGot) \in Nat /\ peerWindow \in Nat
    BY <1>0, HostNumbers, DevNumbers, Zenon DEF TypeOK
  <2>2. DevRcvd - HostAcked \in 0 .. MaxWindow
    BY <1>0, DownNumbers, Zenon
  <2>3. DevRcvd - HostAcked \in Nat
    BY <2>2, Spaces
  <2> QED BY <2>1, <2>3, Zenon
<1>5. DownReceived'
  <2>1. b <= d + f
    BY <1>0, <1>3, <1>4, Zenon DEF DownReceived
  <2>2. b <= d + g
    BY <1>3, <1>4, <2>1
  <2> QED BY <1>0, <1>1, <1>2, <1>3, <1>4, <2>2, Zenon DEF DownReceived, HostSendSame
<1>6. DownStream'
  BY <1>0, <1>1, <1>2, Zenon DEF DownStream, HostSendSame
<1>7. DownAcks'
  <2>1. ASSUME Live PROVE Acks(toHost, HostUna, a, a + g)
    <3>1. Acks(toHost, HostUna, a, a + f) /\ toHost \in Seq(Segment) /\ HostUna \in SeqSpace
      BY <1>0, <1>3, <1>4, <2>1, HostNumbers, Zenon DEF DownAcks, DevTypes
    <3>2. a + f <= a + g /\ a <= a /\ a + f \in Int /\ a + g \in Int /\ a \in Int
      BY <1>3, <1>4
    <3> QED BY <3>1, <3>2, AcksGrow, Zenon
  <2> QED BY <1>0, <1>1, <1>2, <1>3, <1>4, <2>1, Zenon DEF DownAcks
<1>8. DownWindow'
  <2>1. state = "Established" => w <= a + f
    BY <1>0, <1>3, <1>4, Zenon DEF DownWindow
  <2>2. state = "Established" => w <= a + g
    BY <1>3, <1>4, <2>1
  <2> QED BY <1>0, <1>1, <1>2, <1>3, <1>4, <2>2, Zenon DEF DownWindow, HostSendSame
<1>9. UpReceived' /\ UpStream' /\ UpAcks' /\ UpWindow'
  <2>1. Quiet(toHost, toHost') /\ Quiet(toDev, toDev')
    BY <1>1, Zenon DEF Quiet
  <2> QED BY <1>0, <1>1, <1>2, <2>1, UpReceivedKept, UpStreamKept, UpAcksKept, UpWindowKept, Zenon
<1>10. devUnread' \in 0 .. DevCap
  BY DevNumbers, Spaces DEF DevConsume, DevTypes
<1> QED BY <1>1, <1>5, <1>6, <1>7, <1>8, <1>9, <1>10, HostUntouched, Zenon DEF Met

\* Bytes in order, added to bytes in order.
LEMMA InOrderAppend ==
    ASSUME NEW q \in Seq(Nat), NEW p \in Seq(Nat), NEW c \in Nat,
           \A k \in 1 .. Len(q) : q[k] = c + k,
           \A k \in 1 .. Len(p) : p[k] = c + Len(q) + k
    PROVE  /\ q \o p \in Seq(Nat) /\ Len(q \o p) = Len(q) + Len(p)
           /\ \A k \in 1 .. Len(q) + Len(p) : (q \o p)[k] = c + k
<1>1. q \o p \in Seq(Nat) /\ Len(q \o p) = Len(q) + Len(p)
  BY ConcatProperties, Zenon
<1>2. PICK a \in Nat, n \in Nat : a = Len(q) /\ n = Len(p)
  BY LenProperties, Zenon
<1>3. ASSUME NEW k \in 1 .. a + n PROVE (q \o p)[k] = c + k
  <2>1. (q \o p)[k] = IF k <= a THEN q[k] ELSE p[k - a]
    BY <1>2, ConcatProperties, Zenon
  <2>2. CASE k <= a
    BY <1>2, <2>1, <2>2
  <2>3. CASE ~(k <= a)
    <3>1. k - a \in 1 .. n /\ c + a + (k - a) = c + k
      BY <2>3
    <3>2. p[k - a] = c + a + (k - a)
      BY <1>2, <3>1, Zenon
    <3> QED BY <2>1, <2>3, <3>1, <3>2, Zenon
  <2> QED BY <2>2, <2>3, Zenon
<1> QED BY <1>1, <1>2, <1>3, Zenon

\* take_received hands the reader the next bytes and makes room.
LEMMA MetTakeReceived ==
    ASSUME FlightInv, DevTypes, Met, NEW n \in 1 .. Len(inbound), TakeReceived(n),
           UNCHANGED <<devVars, toHost>>
    PROVE  Met'
<1> USE DEF sendVars, windowVars, recvVars, appVars, devVars
<1>0. /\ TypeOK /\ DownReceived /\ DownStream /\ DownAcks /\ DownWindow
      /\ UpReceived /\ UpStream /\ UpAcks /\ UpWindow
  BY Zenon DEF FlightInv, Met
<1>1. /\ HostSendSame /\ DevRecvSame /\ DevSendSame /\ Anchored
      /\ UNCHANGED <<state, toDev, toHost, peerFin, rcvNxt, devState, Live, HostExpects>>
  BY Zenon DEF TakeReceived, HostSendSame, DevRecvSame, DevSendSame, Anchored, HostBytes, Live,
         HostUna, HostExpects
<1>2. PICK a \in Nat, b \in Nat, s \in Nat, rw \in Nat :
        a = Len(taken) /\ b = Len(inbound) /\ s = devSent /\ rw = ReceiveWindow
  BY <1>0, HostNumbers, SizeAssumption, Zenon DEF DevTypes
<1>3. n \in Nat /\ n \in 0 .. Len(inbound) /\ n <= b /\ \A k \in 1 .. n : k \in 1 .. b
  BY <1>2
<1>4. /\ taken \in Seq(Nat) /\ inbound \in Seq(Nat)
      /\ \A k \in 1 .. a : taken[k] = k
      /\ \A k \in 1 .. b : inbound[k] = a + k
      /\ a + b <= s /\ s <= a + rw /\ (peerFin # NoSeq => devFin # NoSeq /\ a + b = s)
  BY <1>0, <1>2, Zenon DEF TypeOK, UpReceived
<1>5. PICK p : p = Front(inbound, n)
  BY Zenon
<1>6. p \in Seq(Nat) /\ Len(p) = n /\ \A k \in 1 .. n : p[k] = inbound[k]
  BY <1>3, <1>4, <1>5, SplitType
<1>7. Len(taken') = a + n /\ \A k \in 1 .. a + n : taken'[k] = k
  <2>1. taken' = taken \o p
    BY <1>5, Zenon DEF TakeReceived
  <2>2. PICK z \in Nat : z = 0
    BY Zenon
  <2>3. ASSUME NEW k \in 1 .. n PROVE p[k] = z + a + k
    <3>1. p[k] = inbound[k] /\ inbound[k] = a + k
      BY <1>3, <1>4, <1>6, Zenon
    <3> QED BY <2>2, <3>1
  <2>4. \A k \in 1 .. a : taken[k] = z + k
    BY <1>4, <2>2
  <2>5. \A k \in 1 .. Len(taken) : taken[k] = z + k
    BY <1>2, <2>4, Zenon
  <2>6. \A k \in 1 .. Len(p) : p[k] = z + Len(taken) + k
    BY <1>2, <1>6, <2>3, Zenon
  <2>7. /\ Len(taken \o p) = Len(taken) + Len(p)
        /\ \A k \in 1 .. Len(taken) + Len(p) : (taken \o p)[k] = z + k
    BY <1>4, <1>6, <2>5, <2>6, InOrderAppend, ZenonT(30)
  <2>8. Len(taken') = a + n /\ \A k \in 1 .. a + n : taken'[k] = z + k
    BY <1>2, <1>6, <2>1, <2>7, Zenon
  <2> QED BY <1>3, <2>2, <2>8
<1>8. Len(inbound') = b - n /\ \A k \in 1 .. b - n : inbound'[k] = inbound[n + k]
  <2>1. inbound' = Drop(inbound, n)
    BY Zenon DEF TakeReceived
  <2>2. /\ Len(Drop(inbound, n)) = Len(inbound) - n
        /\ \A k \in 1 .. Len(inbound) - n : Drop(inbound, n)[k] = inbound[n + k]
    BY <1>3, <1>4, SplitType
  <2> QED BY <1>2, <2>1, <2>2, Zenon
<1>9. \A k \in 1 .. b - n : inbound'[k] = a + n + k
  BY <1>3, <1>4, <1>8
<1>10. UpReceived'
  <2>1. a + n + (b - n) <= s /\ s <= a + n + rw /\ (a + b = s => a + n + (b - n) = s)
    BY <1>3, <1>4
  <2>2. devSent' = s /\ devFin' = devFin
    BY <1>1, <1>2, Zenon DEF DevSendSame
  <2> QED BY <1>1, <1>2, <1>4, <1>7, <1>8, <1>9, <2>1, <2>2, Zenon DEF UpReceived
<1>11. PICK r \in Nat, f \in Int, g \in Int :
         r = HostRcvd /\ HostRcvd' = r /\ f = HostFree /\ g = HostFree' /\ f <= g
  <2>1. PICK e \in 0 .. 1 : e = Bit(peerFin # NoSeq)
    BY BitType, Zenon
  <2>2. HostRcvd = a + b + e /\ HostRcvd' = a + n + (b - n) + e
    BY <1>1, <1>2, <1>7, <1>8, <2>1, Zenon DEF HostRcvd
  <2>3. HostFree = rw - b /\ HostFree' = rw - (b - n)
    BY <1>2, <1>8, Zenon DEF HostFree
  <2>4. /\ a + n + (b - n) + e = a + b + e /\ a + b + e \in Nat
        /\ rw - b \in Int /\ rw - (b - n) \in Int /\ rw - b <= rw - (b - n)
    BY <1>3
  <2> QED BY <2>2, <2>3, <2>4, Zenon
<1>12. UpStream'
  BY <1>0, <1>1, <1>11, Zenon DEF UpStream, DevSendSame
<1>13. PICK u \in Int : u = DevAcked /\ DevAcked' = u
  BY <1>1, DevNumbers, Kept, Zenon
<1>14. UpAcks'
  <2>1. /\ Acks(toDev, devSndUna, r - u, r - u + f)
        /\ toDev \in Seq(Segment) /\ devSndUna \in SeqSpace
    BY <1>0, <1>11, <1>13, Zenon DEF UpAcks, TypeOK, DevTypes
  <2>2. /\ r - u \in Int /\ r - u + f \in Int /\ r - u + g \in Int
        /\ r - u <= r - u /\ r - u + f <= r - u + g
    <3>1. f <= g
      BY <1>11, Zenon
    <3> QED BY <3>1
  <2>3. Acks(toDev, devSndUna, r - u, r - u + g)
    BY <2>1, <2>2, AcksGrow, Zenon
  <2>4. UNCHANGED devSndUna
    BY <1>1, Zenon DEF DevSendSame
  <2> QED BY <1>0, <1>1, <1>11, <1>13, <2>3, <2>4, Zenon DEF UpAcks
<1>15. UpWindow'
  <2>1. PICK w \in 0 .. MaxWindow : devEdge = SeqAdd(devSndUna, w) /\ w <= r - u + f
    BY <1>0, <1>11, <1>13, Zenon DEF UpWindow
  <2>2. w <= r - u + g
    <3>1. f <= g /\ w <= r - u + f /\ w \in Nat
      BY <1>11, <2>1, Spaces
    <3> QED BY <3>1
  <2>3. UNCHANGED <<devSndUna, devEdge, DevFlight>>
    BY <1>1, Kept, Zenon DEF DevSendSame
  <2> QED BY <1>0, <1>11, <1>13, <2>1, <2>2, <2>3, Zenon DEF UpWindow
<1>16. DownReceived' /\ DownStream' /\ DownAcks' /\ DownWindow'
  <2>1. Quiet(toHost, toHost') /\ Quiet(toDev, toDev')
    BY <1>1, Zenon DEF Quiet
  <2> QED BY <1>0, <1>1, <2>1, DownReceivedKept, DownStreamKept, DownAcksKept, DownWindowKept, Zenon
<1>17. state # "SynSent"
  BY <1>2, <1>3 DEF Met, FreshHost
<1> QED BY <1>1, <1>10, <1>12, <1>14, <1>15, <1>16, <1>17, Zenon DEF Met

=============================================================================
