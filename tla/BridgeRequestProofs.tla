------------------------ MODULE BridgeRequestProofs ------------------------
(***************************************************************************)
(* Proofs about BridgeTransport, for every number of credits, buffers and  *)
(* requests and for every workload: the types, how a session ends          *)
(* (Ending), where the frames of each request are (RequestInv), and from   *)
(* these the two properties of the run bridge that are about requests.     *)
(* BridgeTransportProofs adds the credits and the packets.                 *)
(***************************************************************************)
EXTENDS BridgeTransport, TLAPS

USE SMTT(30), ZenonT(30)

-----------------------------------------------------------------------------
(* The types.                                                              *)

Stations ==
    {"idle", "terminal", "closing", "clearing", "shutting", "joining", "done",
     "returned", "reading", "ponging", "checking", "sending", "crediting", "checked",
     "registered", "waiting", "expired"}

Reasons ==
    {NoReason, "overrun", "overcredit", "gone", "write", "detached", "unsolicited",
     "timeout", "aborted"}

Outcomes == {"none", "refused", "failed", "reply", "disconnected", "timeout"}

FramesToBroker ==
    [kind : {"pong", "packet"}, value : {0}] \cup [kind : {"credit"}, value : {1}]
        \cup [kind : {"request"}, value : Requests]

FramesToClient ==
    [kind : {"packet"}, value : Nat] \cup [kind : {"credit"}, value : 1 .. HostCredits]
        \cup [kind : {"reply"}, value : Requests]
        \cup [kind : {"detached"}, value : Detachers]
        \cup [kind : {"ping", "gone"}, value : {0}]

\* The types of what the invariants speak of: all but the writer mutex.
TypeOK ==
    /\ packets \in Seq(Nat)
    /\ closed \in BOOLEAN
    /\ error \in Reasons
    /\ hostCredits \in Nat
    /\ waiters \in SUBSET Requests
    /\ devicePresent \in BOOLEAN
    /\ sock \in {"open", "shut", "hungup"}
    /\ toBroker \in Seq(FramesToBroker)
    /\ toClient \in Seq(FramesToClient)
    /\ pc \in [Threads -> Stations]
    /\ why \in [Threads -> Reasons]
    /\ holding \in Nat
    /\ inbox \in SUBSET Requests
    /\ outcome \in [Requests -> Outcomes]
    /\ delivered \in Seq(Nat)
    /\ toSend \in Int
    /\ held \in Nat
    /\ devCredits \in Nat
    /\ script \in Seq(Nat)
    /\ asked \in SUBSET Requests
    /\ pings \in Nat
    /\ gone \in BOOLEAN

LEMMA Constants ==
    /\ HostCredits \in Nat \ {0} /\ GuestBuffers \in Nat \ {0} /\ QueueLimit \in Nat \ {0}
    /\ Detachers \in SUBSET Requests
    /\ Requests \in SUBSET Threads
    /\ {"reader", "link", "control", "owner"} \subseteq Threads
    /\ \A r \in Requests : r \notin {"reader", "link", "control", "owner"}
    /\ \A load \in Workloads : load.packets \in Nat /\ load.sends \in Nat /\ load.pings \in Nat
BY CreditAssumption DEF Threads

LEMMA Numbered ==
    ASSUME NEW n \in Nat
    PROVE  [i \in 1 .. n |-> i] \in Seq(Nat)
OBVIOUS

LEMMA AppendType ==
    ASSUME NEW F, NEW q \in Seq(F), NEW f \in F
    PROVE  Append(q, f) \in Seq(F)
OBVIOUS

LEMMA TypeInit == Init => TypeOK
<1> SUFFICES ASSUME Init PROVE TypeOK
  OBVIOUS
<1> USE Constants DEF Init
<1>1. PICK load \in Workloads :
        /\ script = [i \in 1 .. load.packets |-> i]
        /\ toSend = load.sends
        /\ pings = load.pings
        /\ pc = [t \in Threads |-> CASE t = "reader" -> "reading"
                                     [] t \in Requests \ load.callers -> "done"
                                     [] OTHER -> "idle"]
  OBVIOUS
<1>2. script \in Seq(Nat)
  <2>1. load.packets \in Nat
    OBVIOUS
  <2> QED BY <1>1, <2>1, Numbered
<1>3. pc \in [Threads -> Stations]
  <2>1. \A t \in Threads : pc[t] \in {"reading", "done", "idle"}
    BY <1>1
  <2> QED BY <1>1, <2>1 DEF Stations
<1>4. <<>> \in Seq(Nat) /\ <<>> \in Seq(FramesToBroker) /\ <<>> \in Seq(FramesToClient)
  OBVIOUS
<1>5. why \in [Threads -> Reasons] /\ outcome \in [Requests -> Outcomes] /\ error \in Reasons
  BY DEF Reasons, Outcomes
<1>6. toSend \in Int /\ pings \in Nat
  BY <1>1
<1>7. /\ packets \in Seq(Nat) /\ delivered \in Seq(Nat)
      /\ toBroker \in Seq(FramesToBroker) /\ toClient \in Seq(FramesToClient)
  BY <1>4
<1> QED BY <1>2, <1>3, <1>5, <1>6, <1>7, Zenon DEF TypeOK

LEMMA TypeStep == TypeOK /\ [Next]_vars => TypeOK'
<1> SUFFICES ASSUME TypeOK, [Next]_vars PROVE TypeOK'
  OBVIOUS
<1> USE Constants DEF TypeOK, queueVars, requestVars, linkVars, brokerVars, wire
<1>1. CASE ReadPacket
  <2>1. Incoming \in FramesToClient /\ toClient' \in Seq(FramesToClient)
    BY <1>1 DEF ReadPacket, Reads, Incoming
  <2>2. Incoming.value \in Nat
    BY <1>1, <2>1 DEF ReadPacket, Reads, FramesToClient
  <2>3. packets' \in Seq(Nat)
    <3>1. Append(packets, Incoming.value) \in Seq(Nat)
      BY <2>2, AppendType
    <3> QED BY <1>1, <3>1, Zenon DEF ReadPacket, Enqueued
  <2> QED
    BY <1>1, <2>1, <2>3, Zenon DEF ReadPacket, Reads, Handled, EnterTerminal, Goto, Stations,
       Reasons
<1>2. CASE ReadCredit
  <2>1. Incoming \in FramesToClient /\ toClient' \in Seq(FramesToClient)
    BY <1>2 DEF ReadCredit, Reads, Incoming
  <2>2. Incoming.value \in Nat
    BY <1>2, <2>1 DEF ReadCredit, Reads, FramesToClient
  <2>3. hostCredits' \in Nat
    BY <1>2, <2>2 DEF ReadCredit, Credited
  <2> QED
    BY <1>2, <2>1, <2>3, Zenon DEF ReadCredit, Reads, Handled, EnterTerminal, Goto, Stations,
       Reasons
<1>3. CASE ReadGone
  BY <1>3 DEF ReadGone, Reads, Incoming, Handled, EnterTerminal, Goto, At, Stations,
     Reasons, NoReason
<1>4. CASE ReadPing
  <2>1. toClient' \in Seq(FramesToClient)
    BY <1>4 DEF ReadPing, Reads
  <2> QED
    BY <1>4, <2>1, Zenon DEF ReadPing, Reads, Goto, Stations
<1>5. CASE ReadReply
  <2>1. Incoming \in FramesToClient /\ toClient' \in Seq(FramesToClient)
    BY <1>5 DEF ReadReply, Reads, Incoming
  <2>2. Incoming.value \in Requests
    BY <1>5, <2>1 DEF ReadReply, Reads, FramesToClient
  <2>3. waiters' \in SUBSET Requests /\ inbox' \in SUBSET Requests
    BY <1>5, <2>2 DEF ReadReply, Delivered
  <2> QED
    BY <1>5, <2>1, <2>3, Zenon DEF ReadReply, Reads, Handled, EnterTerminal, Goto, Stations,
       Reasons
<1>6. CASE ReadEof
  BY <1>6 DEF ReadEof, EnterTerminal, Goto, At, Stations, Reasons, NoReason
<1>7. CASE CheckClosed
  BY <1>7 DEF CheckClosed, Goto, At, Stations
<1>8. CASE TakeCredit
  BY <1>8 DEF TakeCredit, LinkFree, MayTake, Goto, At, Stations
<1>9. CASE WritePacket
  <2>1. Frame("packet", 0) \in FramesToBroker
    BY DEF Frame, FramesToBroker
  <2>2. toBroker' \in Seq(FramesToBroker)
    <3>1. Append(toBroker, Frame("packet", 0)) \in Seq(FramesToBroker)
      BY <2>1, AppendType
    <3> QED BY <1>9, <3>1, Zenon DEF WritePacket
  <2>3. toSend' \in Int
    BY <1>9 DEF WritePacket
  <2> QED
    BY <1>9, <2>2, <2>3, Zenon DEF WritePacket, EnterTerminal, Goto, Stations, Reasons
<1>10. CASE PopPacket
  BY <1>10 DEF PopPacket, LinkFree, Goto, At, Stations
<1>11. CASE WriteCredit
  <2>1. Frame("credit", 1) \in FramesToBroker
    BY DEF Frame, FramesToBroker
  <2>2. toBroker' \in Seq(FramesToBroker) /\ delivered' \in Seq(Nat)
    <3>1. Append(toBroker, Frame("credit", 1)) \in Seq(FramesToBroker)
      BY <2>1, AppendType
    <3>2. Append(delivered, holding) \in Seq(Nat)
      BY AppendType
    <3> QED BY <1>11, <3>1, <3>2, Zenon DEF WriteCredit, CreditBack
  <2> QED
    BY <1>11, <2>2, Zenon DEF WriteCredit, EnterTerminal, Goto, Stations, Reasons
<1>12. CASE BrokerPacket
  BY <1>12 DEF BrokerPacket, BrokerSays, CanWrite, Frame, FramesToClient
<1>13. CASE BrokerPing
  BY <1>13 DEF BrokerPing, BrokerSays, CanWrite, Frame, FramesToClient
<1>14. CASE BrokerGone
  BY <1>14 DEF BrokerGone, BrokerSays, CanWrite, Frame, FramesToClient
<1>15. CASE BrokerHangsUp
  BY <1>15 DEF BrokerHangsUp, CanWrite
<1>16. CASE BrokerReads
  <2>1. Head(toBroker) \in FramesToBroker /\ toBroker' \in Seq(FramesToBroker)
    BY <1>16 DEF BrokerReads
  <2>2. /\ Head(toBroker).kind = "credit" => Head(toBroker).value \in Nat
        /\ Head(toBroker).kind = "request" => Head(toBroker).value \in Requests
    BY <2>1 DEF FramesToBroker
  <2> QED
    BY <1>16, <2>1, <2>2 DEF BrokerReads
<1>17. ASSUME NEW n \in 1 .. HostCredits, BrokerCredit(n) PROVE TypeOK'
  BY <1>17 DEF BrokerCredit, BrokerSays, CanWrite, Frame, FramesToClient
<1>18. ASSUME NEW r \in Requests, BrokerAnswer(r) PROVE TypeOK'
  <2>1. /\ Frame("reply", r) \in FramesToClient
        /\ r \in Detachers => Frame("detached", r) \in FramesToClient
    BY DEF Frame, FramesToClient
  <2>2. /\ Append(toClient, Frame("reply", r)) \in Seq(FramesToClient)
        /\ r \in Detachers => Append(toClient, Frame("detached", r)) \in Seq(FramesToClient)
    BY <2>1, AppendType
  <2>3. toClient' \in Seq(FramesToClient)
    BY <1>18, <2>2, Zenon DEF BrokerAnswer, BrokerSays
  <2> QED BY <1>18, <2>3 DEF BrokerAnswer, BrokerSays
<1>19. ASSUME NEW r \in Requests, CheckOpen(r) PROVE TypeOK'
  BY <1>19 DEF CheckOpen, Goto, At, Stations, Outcomes
<1>20. ASSUME NEW r \in Requests, RegisterWaiter(r) PROVE TypeOK'
  BY <1>20 DEF RegisterWaiter, Registered, Goto, At, Stations
<1>21. ASSUME NEW r \in Requests, WriteRequest(r) PROVE TypeOK'
  <2>1. Frame("request", r) \in FramesToBroker
    BY DEF Frame, FramesToBroker
  <2>2. toBroker' \in Seq(FramesToBroker)
    BY <1>21, <2>1 DEF WriteRequest
  <2> QED
    BY <1>21, <2>2 DEF WriteRequest, Goto, Stations
<1>22. ASSUME NEW r \in Requests, RequestFails(r) PROVE TypeOK'
  BY <1>22 DEF RequestFails, EnterTerminal, CanWrite, Goto, At, Stations, Reasons,
     NoReason, Outcomes
<1>23. ASSUME NEW r \in Requests, ReceiveReply(r) PROVE TypeOK'
  BY <1>23 DEF ReceiveReply, Goto, At, Stations, Outcomes
<1>24. ASSUME NEW r \in Requests, Disconnected(r) PROVE TypeOK'
  BY <1>24 DEF Disconnected, Goto, At, Stations, Outcomes
<1>25. ASSUME NEW r \in Requests, TimesOut(r) PROVE TypeOK'
  BY <1>25 DEF TimesOut, Goto, At, Stations, Outcomes
<1>26. ASSUME NEW r \in Requests, RemoveWaiter(r) PROVE TypeOK'
  BY <1>26 DEF RemoveWaiter, EnterTerminal, Goto, At, Stations, Reasons, NoReason
<1>27. ASSUME NEW t \in Threads, MarkAbsent(t) PROVE TypeOK'
  BY <1>27, Zenon DEF MarkAbsent, Goto, At, Stations
<1>28. ASSUME NEW t \in Threads, MarkClosed(t) PROVE TypeOK'
  BY <1>28 DEF MarkClosed, Goto, At, Stations, Reasons, NoReason
<1>29. ASSUME NEW t \in Threads, ClearWaiters(t) PROVE TypeOK'
  BY <1>29 DEF ClearWaiters, AfterTerminal, Goto, At, Stations
<1>30. ASSUME NEW t \in Threads, ShutSocket(t) PROVE TypeOK'
  BY <1>30 DEF ShutSocket, SocketShut, Goto, At, Stations
<1>31. CASE Abort
  BY <1>31 DEF Abort, EnterTerminal, Goto, At, Stations, Reasons, NoReason
<1>32. CASE DropTransport
  BY <1>32 DEF DropTransport, LinkFree, EnterTerminal, Goto, At, Stations, Reasons,
     NoReason
<1>33. CASE JoinReader
  BY <1>33 DEF JoinReader, Goto, At, Stations
<1>34. CASE UNCHANGED vars
  BY <1>34 DEF vars
<1>35. CASE WritePong
  <2>1. Frame("pong", 0) \in FramesToBroker
    BY DEF Frame, FramesToBroker
  <2>2. toBroker' \in Seq(FramesToBroker)
    <3>1. Append(toBroker, Frame("pong", 0)) \in Seq(FramesToBroker)
      BY <2>1, AppendType
    <3> QED BY <1>35, <3>1, Zenon DEF WritePong
  <2> QED
    BY <1>35, <2>2, Zenon DEF WritePong, Handled, EnterTerminal, Goto, Stations, Reasons
<1>36. ASSUME NEW t \in Threads, WriteWaits(t) PROVE TypeOK'
  BY <1>36, Zenon DEF WriteWaits
<1> QED
  BY <1>1, <1>2, <1>3, <1>4, <1>5, <1>6, <1>7, <1>8, <1>9, <1>10, <1>11, <1>12,
     <1>13, <1>14, <1>15, <1>16, <1>17, <1>18, <1>19, <1>20, <1>21, <1>22, <1>23,
     <1>24, <1>25, <1>26, <1>27, <1>28, <1>29, <1>30, <1>31, <1>32, <1>33, <1>34,
     <1>35, <1>36, Zenon
     DEF Next, Reader, Link, Broker, Request, Terminal

-----------------------------------------------------------------------------
(* How a session ends.                                                     *)

\* A thread that has come to clear the waiters has closed the queue, and the
\* link fails to write only on a socket that is down for good.
Ending ==
    /\ \A t \in Threads : pc[t] = "clearing" => closed
    /\ why["link"] = "write" => sock # "open"

LEMMA EndingInit == Init => Ending
<1> SUFFICES ASSUME Init PROVE Ending
  OBVIOUS
<1>1. \A t \in Threads : pc[t] \in {"reading", "done", "idle"}
  BY DEF Init
<1>2. why["link"] = NoReason
  BY Constants DEF Init
<1> QED BY <1>1, <1>2 DEF Ending, NoReason

LEMMA EndingStep == TypeOK /\ Ending /\ [Next]_vars => Ending'
<1> SUFFICES ASSUME TypeOK, Ending, [Next]_vars PROVE Ending'
  OBVIOUS
<1> USE Constants DEF Ending, queueVars, requestVars, linkVars, brokerVars, wire
<1>0. pc \in [Threads -> Stations] /\ why \in [Threads -> Reasons]
  BY DEF TypeOK
<1>1. CASE ReadPacket
  BY <1>0, <1>1 DEF ReadPacket, Reads, Incoming, Handled, EnterTerminal, Goto, At,
     PacketFits, Enqueued
<1>2. CASE ReadCredit
  BY <1>0, <1>2 DEF ReadCredit, Reads, Incoming, Handled, EnterTerminal, Goto, At,
     Credited
<1>3. CASE ReadGone
  BY <1>0, <1>3 DEF ReadGone, Reads, Incoming, Handled, EnterTerminal, Goto, At
<1>4. CASE ReadPing
  BY <1>0, <1>4 DEF ReadPing, Reads, Incoming, Goto, At
<1>5. CASE ReadReply
  BY <1>0, <1>5 DEF ReadReply, Reads, Incoming, Handled, EnterTerminal, Goto, At,
     Delivered
<1>6. CASE ReadEof
  BY <1>0, <1>6 DEF ReadEof, EnterTerminal, Goto, At, NoReason
<1>7. CASE CheckClosed
  BY <1>0, <1>7 DEF CheckClosed, Goto, At
<1>8. CASE TakeCredit
  BY <1>0, <1>8 DEF TakeCredit, LinkFree, MayTake, Goto, At
<1>9. CASE WritePacket
  BY <1>0, <1>9 DEF WritePacket, EnterTerminal, CanWrite, Frame, Goto, At
<1>10. CASE PopPacket
  BY <1>0, <1>10 DEF PopPacket, LinkFree, Goto, At
<1>11. CASE WriteCredit
  BY <1>0, <1>11 DEF WriteCredit, EnterTerminal, CanWrite, CreditBack, Frame, Goto,
     At
<1>12. CASE BrokerPacket
  BY <1>0, <1>12 DEF BrokerPacket, BrokerSays, CanWrite, Frame
<1>13. CASE BrokerPing
  BY <1>0, <1>13 DEF BrokerPing, BrokerSays, CanWrite, Frame
<1>14. CASE BrokerGone
  BY <1>0, <1>14 DEF BrokerGone, BrokerSays, CanWrite, Frame
<1>15. CASE BrokerHangsUp
  BY <1>0, <1>15 DEF BrokerHangsUp, CanWrite
<1>16. CASE BrokerReads
  BY <1>0, <1>16 DEF BrokerReads
<1>17. ASSUME NEW n \in 1 .. HostCredits, BrokerCredit(n) PROVE Ending'
  BY <1>0, <1>17 DEF BrokerCredit, BrokerSays, CanWrite, Frame
<1>18. ASSUME NEW r \in Requests, BrokerAnswer(r) PROVE Ending'
  BY <1>0, <1>18 DEF BrokerAnswer, BrokerSays, CanWrite, Frame
<1>19. ASSUME NEW r \in Requests, CheckOpen(r) PROVE Ending'
  BY <1>0, <1>19 DEF CheckOpen, Goto, At
<1>20. ASSUME NEW r \in Requests, RegisterWaiter(r) PROVE Ending'
  BY <1>0, <1>20 DEF RegisterWaiter, Registered, Goto, At
<1>21. ASSUME NEW r \in Requests, WriteRequest(r) PROVE Ending'
  BY <1>0, <1>21 DEF WriteRequest, CanWrite, Frame, Goto, At
<1>22. ASSUME NEW r \in Requests, RequestFails(r) PROVE Ending'
  BY <1>0, <1>22 DEF RequestFails, EnterTerminal, CanWrite, Goto, At
<1>23. ASSUME NEW r \in Requests, ReceiveReply(r) PROVE Ending'
  BY <1>0, <1>23 DEF ReceiveReply, Goto, At
<1>24. ASSUME NEW r \in Requests, Disconnected(r) PROVE Ending'
  BY <1>0, <1>24 DEF Disconnected, Goto, At
<1>25. ASSUME NEW r \in Requests, TimesOut(r) PROVE Ending'
  BY <1>0, <1>25 DEF TimesOut, Goto, At
<1>26. ASSUME NEW r \in Requests, RemoveWaiter(r) PROVE Ending'
  BY <1>0, <1>26 DEF RemoveWaiter, EnterTerminal, Goto, At
<1>27. ASSUME NEW t \in Threads, MarkAbsent(t) PROVE Ending'
  BY <1>0, <1>27 DEF MarkAbsent, Goto, At
<1>28. ASSUME NEW t \in Threads, MarkClosed(t) PROVE Ending'
  BY <1>0, <1>28 DEF MarkClosed, Goto, At
<1>29. ASSUME NEW t \in Threads, ClearWaiters(t) PROVE Ending'
  BY <1>0, <1>29 DEF ClearWaiters, AfterTerminal, Goto, At
<1>30. ASSUME NEW t \in Threads, ShutSocket(t) PROVE Ending'
  BY <1>0, <1>30 DEF ShutSocket, SocketShut, Goto, At
<1>31. CASE Abort
  BY <1>0, <1>31 DEF Abort, EnterTerminal, Goto, At
<1>32. CASE DropTransport
  BY <1>0, <1>32 DEF DropTransport, LinkFree, EnterTerminal, Goto, At
<1>33. CASE JoinReader
  BY <1>0, <1>33 DEF JoinReader, Goto, At
<1>34. CASE UNCHANGED vars
  BY <1>34 DEF vars
<1>35. CASE WritePong
  BY <1>0, <1>35 DEF WritePong, Handled, EnterTerminal, Goto, At
<1>36. ASSUME NEW t \in Threads, WriteWaits(t) PROVE Ending'
  BY <1>0, <1>36 DEF WriteWaits
<1> QED
  BY <1>1, <1>2, <1>3, <1>4, <1>5, <1>6, <1>7, <1>8, <1>9, <1>10, <1>11, <1>12,
     <1>13, <1>14, <1>15, <1>16, <1>17, <1>18, <1>19, <1>20, <1>21, <1>22, <1>23,
     <1>24, <1>25, <1>26, <1>27, <1>28, <1>29, <1>30, <1>31, <1>32, <1>33, <1>34,
     <1>35, <1>36
     DEF Next, Reader, Link, Broker, Request, Terminal

-----------------------------------------------------------------------------
(* The requests.                                                           *)

\* Some frame of these kinds names r; no two do.
Names(frames, kinds, r) ==
    \E i \in 1 .. Len(frames) : frames[i].kind \in kinds /\ frames[i].value = r
NamesOnce(frames, kinds, r) ==
    \A i, j \in 1 .. Len(frames) :
        /\ frames[i].kind \in kinds /\ frames[i].value = r
        /\ frames[j].kind \in kinds /\ frames[j].value = r
        => i = j

Answers == {"reply", "detached"}
Asked(r) == Names(toBroker, {"request"}, r)
Answered(r) == Names(toClient, Answers, r)
Pending(r) == Asked(r) \/ r \in asked \/ Answered(r)

\* A request under way is in one place: on its way to the broker, with the
\* broker, or answered and on its way back.
InOnePlace(r) ==
    /\ NamesOnce(toBroker, {"request"}, r) /\ NamesOnce(toClient, Answers, r)
    /\ ~(Asked(r) /\ r \in asked) /\ ~(Asked(r) /\ Answered(r)) /\ ~(r \in asked /\ Answered(r))

\* While a request is under way its waiter is registered, unless it has timed out
\* or the session has been closed.
RequestInv(r) ==
    /\ pc[r] \in {"idle", "checked", "registered"} => ~Pending(r) /\ r \notin inbox
    /\ pc[r] \in {"idle", "checked", "registered", "waiting"} => outcome[r] = "none"
    /\ pc[r] = "registered" => r \in waiters \/ closed
    /\ pc[r] = "expired" => outcome[r] = "timeout"
    /\ InOnePlace(r)
    /\ Pending(r) => r \in waiters \/ outcome[r] = "timeout" \/ closed
    /\ r \in waiters => pc[r] \in {"registered", "waiting", "expired"} /\ r \notin inbox

LEMMA NamesAppend ==
    ASSUME NEW F, NEW q \in Seq(F), NEW f \in F, NEW kinds, NEW r
    PROVE  /\ Names(Append(q, f), kinds, r) <=>
                  Names(q, kinds, r) \/ (f.kind \in kinds /\ f.value = r)
           /\ NamesOnce(q, kinds, r) /\ ~(Names(q, kinds, r) /\ f.kind \in kinds /\ f.value = r)
                  => NamesOnce(Append(q, f), kinds, r)
<1>0. PICK a : a = Append(q, f)
  BY Zenon
<1>1. /\ Len(q) \in Nat /\ Len(a) = Len(q) + 1
      /\ \A i \in 1 .. Len(q) : a[i] = q[i]
      /\ a[Len(q) + 1] = f
  BY <1>0
<1>2. Names(a, kinds, r) <=> Names(q, kinds, r) \/ (f.kind \in kinds /\ f.value = r)
  BY <1>1 DEF Names
<1>3. NamesOnce(q, kinds, r) /\ ~(Names(q, kinds, r) /\ f.kind \in kinds /\ f.value = r)
          => NamesOnce(a, kinds, r)
  BY <1>1 DEF Names, NamesOnce
<1> QED BY <1>0, <1>2, <1>3

LEMMA NamesTail ==
    ASSUME NEW F, NEW q \in Seq(F), q # <<>>, NEW kinds, NEW r
    PROVE  /\ Names(q, kinds, r) <=>
                  Names(Tail(q), kinds, r) \/ (Head(q).kind \in kinds /\ Head(q).value = r)
           /\ NamesOnce(q, kinds, r) => NamesOnce(Tail(q), kinds, r)
           /\ NamesOnce(q, kinds, r) /\ Head(q).kind \in kinds /\ Head(q).value = r
                  => ~Names(Tail(q), kinds, r)
<1>0. PICK t : t = Tail(q)
  BY Zenon
<1>1. /\ Len(q) \in Nat /\ Len(t) = Len(q) - 1 /\ Len(q) > 0
      /\ \A i \in 1 .. Len(t) : t[i] = q[i + 1]
      /\ q[1] = Head(q)
  BY <1>0
<1>2. \A i \in 2 .. Len(q) : i - 1 \in 1 .. Len(t) /\ t[i - 1] = q[i]
  BY <1>1
<1>3. Names(q, kinds, r) <=> Names(t, kinds, r) \/ (Head(q).kind \in kinds /\ Head(q).value = r)
  <2>1. ASSUME Names(t, kinds, r) PROVE Names(q, kinds, r)
    BY <1>1, <2>1 DEF Names
  <2>2. ASSUME Head(q).kind \in kinds /\ Head(q).value = r PROVE Names(q, kinds, r)
    BY <1>1, <2>2 DEF Names
  <2>3. ASSUME Names(q, kinds, r)
        PROVE  Names(t, kinds, r) \/ (Head(q).kind \in kinds /\ Head(q).value = r)
    <3>1. PICK i \in 1 .. Len(q) : q[i].kind \in kinds /\ q[i].value = r
      BY <2>3 DEF Names
    <3>2. CASE i = 1 BY <1>1, <3>1, <3>2
    <3>3. CASE i # 1
      <4>1. i - 1 \in 1 .. Len(t) /\ t[i - 1] = q[i]
        BY <1>1, <1>2, <3>3
      <4> QED BY <3>1, <4>1 DEF Names
    <3> QED BY <3>2, <3>3
  <2> QED BY <2>1, <2>2, <2>3
<1>4. NamesOnce(q, kinds, r) => NamesOnce(t, kinds, r)
  BY <1>1 DEF NamesOnce
<1>5. NamesOnce(q, kinds, r) /\ Head(q).kind \in kinds /\ Head(q).value = r
          => ~Names(t, kinds, r)
  BY <1>1 DEF NamesOnce, Names
<1> QED BY <1>0, <1>3, <1>4, <1>5

\* A step of the socket that is not about r.
LEMMA NotMine ==
    ASSUME TypeOK, NEW r \in Requests, InOnePlace(r), r \in asked' <=> r \in asked,
           \/ UNCHANGED toBroker
           \/ toBroker # <<>> /\ toBroker' = Tail(toBroker)
           \/ \E f \in FramesToBroker : /\ ~(f.kind = "request" /\ f.value = r)
                                        /\ toBroker' = Append(toBroker, f),
           \/ UNCHANGED toClient
           \/ toClient # <<>> /\ toClient' = Tail(toClient)
           \/ \E f \in FramesToClient : /\ ~(f.kind \in Answers /\ f.value = r)
                                        /\ toClient' = Append(toClient, f)
    PROVE  InOnePlace(r)' /\ (Pending(r)' => Pending(r))
<1>1. toBroker \in Seq(FramesToBroker) /\ toClient \in Seq(FramesToClient)
  BY DEF TypeOK
<1>2. /\ Asked(r)' => Asked(r)
      /\ NamesOnce(toBroker', {"request"}, r)
  <2>0. NamesOnce(toBroker, {"request"}, r)
    BY DEF InOnePlace
  <2>1. CASE UNCHANGED toBroker
    BY <2>0, <2>1 DEF Asked
  <2>2. CASE toBroker # <<>> /\ toBroker' = Tail(toBroker)
    BY <1>1, <2>0, <2>2, NamesTail DEF Asked
  <2>3. ASSUME NEW f \in FramesToBroker, ~(f.kind = "request" /\ f.value = r),
               toBroker' = Append(toBroker, f)
        PROVE  (Asked(r)' => Asked(r)) /\ NamesOnce(toBroker', {"request"}, r)
    <3>1. ~(f.kind \in {"request"} /\ f.value = r)
      BY <2>3
    <3> QED BY <1>1, <2>0, <2>3, <3>1, NamesAppend DEF Asked
  <2> QED BY <2>1, <2>2, <2>3
<1>3. /\ Answered(r)' => Answered(r)
      /\ NamesOnce(toClient', Answers, r)
  <2>0. NamesOnce(toClient, Answers, r)
    BY DEF InOnePlace
  <2>1. CASE UNCHANGED toClient
    BY <2>0, <2>1 DEF Answered
  <2>2. CASE toClient # <<>> /\ toClient' = Tail(toClient)
    BY <1>1, <2>0, <2>2, NamesTail DEF Answered
  <2>3. ASSUME NEW f \in FramesToClient, ~(f.kind \in Answers /\ f.value = r),
               toClient' = Append(toClient, f)
        PROVE  (Answered(r)' => Answered(r)) /\ NamesOnce(toClient', Answers, r)
    BY <1>1, <2>0, <2>3, NamesAppend DEF Answered
  <2> QED BY <2>1, <2>2, <2>3
<1> QED BY <1>2, <1>3 DEF InOnePlace, Pending, Answers

Late == {"terminal", "closing", "clearing", "shutting", "done"}

\* A step that leaves r where it was.
RequestFrame(r) ==
    /\ InOnePlace(r)' /\ (Pending(r)' => Pending(r))
    /\ pc'[r] = pc[r] \/ (pc[r] \in Late /\ pc'[r] \in Late)
    /\ outcome'[r] = outcome[r]
    /\ closed => closed'
    /\ r \in inbox' => r \in inbox
    /\ r \in waiters' => r \in waiters
    /\ r \in waiters => r \in waiters' \/ closed'

LEMMA RequestUnmoved ==
    ASSUME NEW r \in Requests, RequestInv(r), RequestFrame(r)
    PROVE  RequestInv(r)'
BY DEF RequestInv, RequestFrame, Late

LEMMA RequestInit == Init => \A r \in Requests : RequestInv(r)
<1> SUFFICES ASSUME Init, NEW r \in Requests PROVE RequestInv(r)
  OBVIOUS
<1>1. /\ toBroker = <<>> /\ toClient = <<>> /\ asked = {} /\ waiters = {} /\ inbox = {}
      /\ outcome[r] = "none"
  BY DEF Init
<1>2. pc[r] \in {"reading", "done", "idle"}
  BY Constants DEF Init
<1>3. Len(toBroker) = 0 /\ Len(toClient) = 0
  BY <1>1
<1>4. ~Pending(r) /\ InOnePlace(r)
  BY <1>1, <1>3 DEF Pending, InOnePlace, Asked, Answered, Names, NamesOnce
<1> QED BY <1>1, <1>2, <1>4, Zenon DEF RequestInv

LEMMA RequestStep ==
    ASSUME TypeOK, Ending, NEW r \in Requests, RequestInv(r), [Next]_vars
    PROVE  RequestInv(r)'
<1> USE Constants DEF queueVars, requestVars, linkVars, brokerVars, wire
<1>0. /\ pc \in [Threads -> Stations] /\ why \in [Threads -> Reasons]
      /\ outcome \in [Requests -> Outcomes]
      /\ toBroker \in Seq(FramesToBroker) /\ toClient \in Seq(FramesToClient)
  BY DEF TypeOK
<1>00. InOnePlace(r)
  BY DEF RequestInv
<1>1. CASE ReadPacket
  <2>1. /\ toClient # <<>> /\ toClient' = Tail(toClient)
        /\ UNCHANGED <<asked, outcome, closed, inbox, waiters>> /\ pc'[r] = pc[r]
    BY <1>0, <1>1 DEF ReadPacket, Reads, Incoming, Handled, EnterTerminal, Goto, At
  <2>2. InOnePlace(r)' /\ (Pending(r)' => Pending(r))
    <3>1. UNCHANGED toBroker
      BY <1>1 DEF ReadPacket
    <3> QED BY <1>00, <2>1, <3>1, NotMine
  <2>3. RequestFrame(r)
    BY <2>1, <2>2 DEF RequestFrame
  <2> QED BY <2>3, RequestUnmoved
<1>2. CASE ReadCredit
  <2>1. /\ toClient # <<>> /\ toClient' = Tail(toClient)
        /\ UNCHANGED <<asked, outcome, closed, inbox, waiters>> /\ pc'[r] = pc[r]
    BY <1>0, <1>2 DEF ReadCredit, Reads, Incoming, Handled, EnterTerminal, Goto, At
  <2>2. InOnePlace(r)' /\ (Pending(r)' => Pending(r))
    <3>1. UNCHANGED toBroker
      BY <1>2 DEF ReadCredit
    <3> QED BY <1>00, <2>1, <3>1, NotMine
  <2>3. RequestFrame(r)
    BY <2>1, <2>2 DEF RequestFrame
  <2> QED BY <2>3, RequestUnmoved
<1>3. CASE ReadGone
  <2>1. /\ toClient # <<>> /\ toClient' = Tail(toClient)
        /\ UNCHANGED <<asked, outcome, closed, inbox, waiters>> /\ pc'[r] = pc[r]
    BY <1>0, <1>3 DEF ReadGone, Reads, Incoming, Handled, EnterTerminal, Goto, At
  <2>2. InOnePlace(r)' /\ (Pending(r)' => Pending(r))
    <3>1. UNCHANGED toBroker
      BY <1>3 DEF ReadGone
    <3> QED BY <1>00, <2>1, <3>1, NotMine
  <2>3. RequestFrame(r)
    BY <2>1, <2>2 DEF RequestFrame
  <2> QED BY <2>3, RequestUnmoved
<1>4. CASE ReadPing
  <2>1. /\ toClient # <<>> /\ toClient' = Tail(toClient)
        /\ UNCHANGED <<asked, outcome, closed, inbox, waiters>> /\ pc'[r] = pc[r]
    BY <1>0, <1>4 DEF ReadPing, Reads, Incoming, Goto, At
  <2>2. InOnePlace(r)' /\ (Pending(r)' => Pending(r))
    <3>1. UNCHANGED toBroker
      BY <1>4 DEF ReadPing
    <3> QED BY <1>00, <2>1, <3>1, NotMine
  <2>3. RequestFrame(r)
    BY <2>1, <2>2 DEF RequestFrame
  <2> QED BY <2>3, RequestUnmoved
<1>5. CASE ReadReply
  <2>1. /\ toClient # <<>> /\ toClient' = Tail(toClient) /\ Incoming.kind \in Answers
        /\ UNCHANGED <<toBroker, asked, outcome, closed>> /\ pc'[r] = pc[r]
    BY <1>0, <1>5 DEF ReadReply, Reads, Handled, EnterTerminal, Goto, Answers
  <2>2. InOnePlace(r)' /\ (Pending(r)' => Pending(r))
    BY <1>00, <2>1, NotMine
  <2>3. CASE Incoming.value # r
    <3>1. (r \in inbox' <=> r \in inbox) /\ (r \in waiters' <=> r \in waiters)
      BY <1>5, <2>3 DEF ReadReply, Delivered
    <3>2. RequestFrame(r)
      BY <2>1, <2>2, <3>1 DEF RequestFrame
    <3> QED BY <3>2, RequestUnmoved
  <2>4. CASE Incoming.value = r
    <3>1. NamesOnce(toClient, Answers, r) /\ Answered(r)
      BY <1>0, <1>00, <2>1, <2>4, NamesTail DEF InOnePlace, Answered, Incoming
    <3>2. ~Answered(r)' /\ ~Asked(r) /\ r \notin asked
      BY <1>0, <1>00, <2>1, <2>4, <3>1, NamesTail DEF InOnePlace, Answered, Incoming
    <3>3. ~Pending(r)'
      BY <2>1, <3>2 DEF Pending, Asked
    <3>4. pc[r] \notin {"idle", "checked", "registered"}
      BY <3>1 DEF RequestInv, Pending
    <3>5. r \notin waiters'
      BY <1>5, <2>4 DEF ReadReply
    <3> QED BY <2>1, <2>2, <3>3, <3>4, <3>5 DEF RequestInv
  <2> QED BY <2>3, <2>4
<1>6. CASE ReadEof
  <2>1. UNCHANGED <<toBroker, toClient, asked, outcome, closed, inbox, waiters>>
    BY <1>6 DEF ReadEof
  <2>2. InOnePlace(r)' /\ (Pending(r)' => Pending(r))
    BY <1>00, <2>1 DEF InOnePlace, Pending, Asked, Answered, Answers
  <2>3. pc'[r] = pc[r]
    BY <1>0, <1>6 DEF ReadEof, EnterTerminal, Goto, At
  <2>4. RequestFrame(r)
    BY <2>1, <2>2, <2>3 DEF RequestFrame
  <2> QED BY <2>4, RequestUnmoved
<1>7. CASE CheckClosed
  <2>1. UNCHANGED <<toBroker, toClient, asked, outcome, closed, inbox, waiters>>
    BY <1>7 DEF CheckClosed
  <2>2. InOnePlace(r)' /\ (Pending(r)' => Pending(r))
    BY <1>00, <2>1 DEF InOnePlace, Pending, Asked, Answered, Answers
  <2>3. pc'[r] = pc[r]
    BY <1>0, <1>7 DEF CheckClosed, Goto, At
  <2>4. RequestFrame(r)
    BY <2>1, <2>2, <2>3 DEF RequestFrame
  <2> QED BY <2>4, RequestUnmoved
<1>8. CASE TakeCredit
  <2>1. UNCHANGED <<toBroker, toClient, asked, outcome, closed, inbox, waiters>>
    BY <1>8 DEF TakeCredit
  <2>2. InOnePlace(r)' /\ (Pending(r)' => Pending(r))
    BY <1>00, <2>1 DEF InOnePlace, Pending, Asked, Answered, Answers
  <2>3. pc'[r] = pc[r]
    BY <1>0, <1>8 DEF TakeCredit, LinkFree, MayTake, Goto, At
  <2>4. RequestFrame(r)
    BY <2>1, <2>2, <2>3 DEF RequestFrame
  <2> QED BY <2>4, RequestUnmoved
<1>9. CASE WritePacket
  <2>1. /\ UNCHANGED <<toClient, asked, outcome, closed, inbox, waiters>> /\ pc'[r] = pc[r]
        /\ toBroker' \in {toBroker, Append(toBroker, Frame("packet", 0))}
    BY <1>0, <1>9 DEF WritePacket, EnterTerminal, Goto
  <2>2. Frame("packet", 0) \in FramesToBroker /\ Frame("packet", 0).kind # "request"
    BY DEF Frame, FramesToBroker
  <2>3. InOnePlace(r)' /\ (Pending(r)' => Pending(r))
    BY <1>00, <2>1, <2>2, NotMine
  <2>4. RequestFrame(r)
    BY <2>1, <2>3 DEF RequestFrame
  <2> QED BY <2>4, RequestUnmoved
<1>10. CASE PopPacket
  <2>1. UNCHANGED <<toBroker, toClient, asked, outcome, closed, inbox, waiters>>
    BY <1>10 DEF PopPacket
  <2>2. InOnePlace(r)' /\ (Pending(r)' => Pending(r))
    BY <1>00, <2>1 DEF InOnePlace, Pending, Asked, Answered, Answers
  <2>3. pc'[r] = pc[r]
    BY <1>0, <1>10 DEF PopPacket, LinkFree, Goto, At
  <2>4. RequestFrame(r)
    BY <2>1, <2>2, <2>3 DEF RequestFrame
  <2> QED BY <2>4, RequestUnmoved
<1>11. CASE WriteCredit
  <2>1. /\ UNCHANGED <<toClient, asked, outcome, closed, inbox, waiters>> /\ pc'[r] = pc[r]
        /\ toBroker' \in {toBroker, Append(toBroker, Frame("credit", 1))}
    BY <1>0, <1>11 DEF WriteCredit, CreditBack, EnterTerminal, Goto
  <2>2. Frame("credit", 1) \in FramesToBroker /\ Frame("credit", 1).kind # "request"
    BY DEF Frame, FramesToBroker
  <2>3. InOnePlace(r)' /\ (Pending(r)' => Pending(r))
    BY <1>00, <2>1, <2>2, NotMine
  <2>4. RequestFrame(r)
    BY <2>1, <2>3 DEF RequestFrame
  <2> QED BY <2>4, RequestUnmoved
<1>12. CASE BrokerPacket
  <2>0. Head(script) \in Nat
    BY <1>12 DEF BrokerPacket, TypeOK
  <2>1. /\ toClient' = Append(toClient, Frame("packet", Head(script)))
        /\ UNCHANGED <<toBroker, asked, outcome, closed, inbox, waiters, pc>>
    BY <1>12 DEF BrokerPacket, BrokerSays
  <2>2. Frame("packet", Head(script)) \in FramesToClient /\ Frame("packet", Head(script)).kind \notin Answers
    BY <2>0 DEF Frame, FramesToClient, Answers
  <2>3. InOnePlace(r)' /\ (Pending(r)' => Pending(r))
    BY <1>00, <2>1, <2>2, NotMine
  <2>4. RequestFrame(r)
    BY <2>1, <2>3 DEF RequestFrame
  <2> QED BY <2>4, RequestUnmoved
<1>13. CASE BrokerPing
  <2>1. /\ toClient' = Append(toClient, Frame("ping", 0))
        /\ UNCHANGED <<toBroker, asked, outcome, closed, inbox, waiters, pc>>
    BY <1>13 DEF BrokerPing, BrokerSays
  <2>2. Frame("ping", 0) \in FramesToClient /\ Frame("ping", 0).kind \notin Answers
    BY DEF Frame, FramesToClient, Answers
  <2>3. InOnePlace(r)' /\ (Pending(r)' => Pending(r))
    BY <1>00, <2>1, <2>2, NotMine
  <2>4. RequestFrame(r)
    BY <2>1, <2>3 DEF RequestFrame
  <2> QED BY <2>4, RequestUnmoved
<1>14. CASE BrokerGone
  <2>1. /\ toClient' = Append(toClient, Frame("gone", 0))
        /\ UNCHANGED <<toBroker, asked, outcome, closed, inbox, waiters, pc>>
    BY <1>14 DEF BrokerGone, BrokerSays
  <2>2. Frame("gone", 0) \in FramesToClient /\ Frame("gone", 0).kind \notin Answers
    BY DEF Frame, FramesToClient, Answers
  <2>3. InOnePlace(r)' /\ (Pending(r)' => Pending(r))
    BY <1>00, <2>1, <2>2, NotMine
  <2>4. RequestFrame(r)
    BY <2>1, <2>3 DEF RequestFrame
  <2> QED BY <2>4, RequestUnmoved
<1>15. CASE BrokerHangsUp
  <2>1. UNCHANGED <<toBroker, toClient, asked, outcome, closed, inbox, waiters>>
    BY <1>15 DEF BrokerHangsUp
  <2>2. InOnePlace(r)' /\ (Pending(r)' => Pending(r))
    BY <1>00, <2>1 DEF InOnePlace, Pending, Asked, Answered, Answers
  <2>3. pc'[r] = pc[r]
    BY <1>0, <1>15 DEF BrokerHangsUp, CanWrite
  <2>4. RequestFrame(r)
    BY <2>1, <2>2, <2>3 DEF RequestFrame
  <2> QED BY <2>4, RequestUnmoved
<1>16. CASE BrokerReads
  <2>1. /\ toBroker # <<>> /\ toBroker' = Tail(toBroker)
        /\ UNCHANGED <<toClient, outcome, closed, inbox, waiters, pc>>
        /\ asked' = IF Head(toBroker).kind = "request"
                    THEN asked \cup {Head(toBroker).value} ELSE asked
    BY <1>16 DEF BrokerReads
  <2>2. InOnePlace(r)' /\ (Pending(r)' => Pending(r))
    <3>1. CASE ~(Head(toBroker).kind = "request" /\ Head(toBroker).value = r)
      BY <1>00, <2>1, <3>1, NotMine
    <3>2. CASE Head(toBroker).kind = "request" /\ Head(toBroker).value = r
      <4>1. Head(toBroker).kind \in {"request"} /\ NamesOnce(toBroker, {"request"}, r)
        BY <1>00, <3>2 DEF InOnePlace
      <4>2. Asked(r)
        BY <1>0, <2>1, <3>2, <4>1, NamesTail DEF Asked
      <4>3. ~Names(Tail(toBroker), {"request"}, r) /\ NamesOnce(Tail(toBroker), {"request"}, r)
        BY <1>0, <2>1, <3>2, <4>1, NamesTail
      <4>4. ~Asked(r)' /\ ~Answered(r)' /\ NamesOnce(toClient', Answers, r)
        BY <1>00, <2>1, <4>2, <4>3 DEF Asked, Answered, InOnePlace, Answers
      <4> QED BY <2>1, <4>2, <4>3, <4>4 DEF InOnePlace, Pending
    <3> QED BY <3>1, <3>2
  <2>3. RequestFrame(r)
    BY <2>1, <2>2 DEF RequestFrame
  <2> QED BY <2>3, RequestUnmoved
<1>17. ASSUME NEW n \in 1 .. HostCredits, BrokerCredit(n) PROVE RequestInv(r)'
  <2>1. /\ toClient' = Append(toClient, Frame("credit", n))
        /\ UNCHANGED <<toBroker, asked, outcome, closed, inbox, waiters, pc>>
    BY <1>17 DEF BrokerCredit, BrokerSays
  <2>2. Frame("credit", n) \in FramesToClient /\ Frame("credit", n).kind \notin Answers
    BY DEF Frame, FramesToClient, Answers
  <2>3. InOnePlace(r)' /\ (Pending(r)' => Pending(r))
    BY <1>00, <2>1, <2>2, NotMine
  <2>4. RequestFrame(r)
    BY <2>1, <2>3 DEF RequestFrame
  <2> QED BY <2>4, RequestUnmoved
<1>18. ASSUME NEW s \in Requests, BrokerAnswer(s) PROVE RequestInv(r)'
  <2>1. PICK f \in {Frame("reply", s), Frame("detached", s)} :
          f \in FramesToClient /\ toClient' = Append(toClient, f)
    BY <1>18 DEF BrokerAnswer, BrokerSays, Frame, FramesToClient
  <2>2. /\ UNCHANGED <<toBroker, outcome, closed, inbox, waiters, pc>>
        /\ s \in asked /\ asked' = asked \ {s}
    BY <1>18 DEF BrokerAnswer, BrokerSays
  <2>3. f.kind \in Answers /\ f.value = s
    BY <2>1 DEF Frame, Answers
  <2>4. InOnePlace(r)' /\ (Pending(r)' => Pending(r))
    <3>1. CASE s # r
      BY <1>00, <2>1, <2>2, <2>3, <3>1, NotMine
    <3>2. CASE s = r
      <4>1. ~Answered(r) /\ ~Asked(r) /\ NamesOnce(toClient, Answers, r)
        BY <1>00, <2>2, <3>2 DEF InOnePlace
      <4>2. NamesOnce(toClient', Answers, r)
        BY <1>0, <2>1, <4>1, NamesAppend DEF Answered
      <4>3. UNCHANGED toBroker /\ r \notin asked'
        BY <2>2, <3>2
      <4> QED BY <1>00, <2>2, <3>2, <4>1, <4>2, <4>3 DEF InOnePlace, Pending, Asked,
         Answers
    <3> QED BY <3>1, <3>2
  <2>5. RequestFrame(r)
    BY <2>2, <2>4 DEF RequestFrame
  <2> QED BY <2>5, RequestUnmoved
<1>19. ASSUME NEW s \in Requests, CheckOpen(s) PROVE RequestInv(r)'
  <2>1. UNCHANGED <<toBroker, toClient, asked, closed, inbox, waiters>>
    BY <1>19 DEF CheckOpen
  <2>2. InOnePlace(r)' /\ (Pending(r)' <=> Pending(r))
    BY <1>00, <2>1 DEF InOnePlace, Pending, Asked, Answered, Answers
  <2>3. CASE s # r
    <3>1. RequestFrame(r)
      BY <1>0, <1>19, <2>2, <2>3 DEF RequestFrame, CheckOpen, Goto, At
    <3> QED BY <3>1, RequestUnmoved
  <2>4. CASE s = r
    BY <1>0, <1>19, <2>1, <2>2, <2>4 DEF RequestInv, CheckOpen, Goto, At
  <2> QED BY <2>3, <2>4
<1>20. ASSUME NEW s \in Requests, RegisterWaiter(s) PROVE RequestInv(r)'
  <2>1. UNCHANGED <<toBroker, toClient, asked, closed, inbox, outcome>>
    BY <1>20 DEF RegisterWaiter
  <2>2. InOnePlace(r)' /\ (Pending(r)' <=> Pending(r))
    BY <1>00, <2>1 DEF InOnePlace, Pending, Asked, Answered, Answers
  <2>3. CASE s # r
    <3>1. RequestFrame(r)
      BY <1>0, <1>20, <2>2, <2>3 DEF RequestFrame, RegisterWaiter, Registered, Goto,
         At
    <3> QED BY <3>1, RequestUnmoved
  <2>4. CASE s = r
    BY <1>0, <1>20, <2>1, <2>2, <2>4 DEF RequestInv, RegisterWaiter, Registered,
       Goto, At
  <2> QED BY <2>3, <2>4
<1>21. ASSUME NEW s \in Requests, WriteRequest(s) PROVE RequestInv(r)'
  <2>1. /\ toBroker' = Append(toBroker, Frame("request", s))
        /\ UNCHANGED <<toClient, asked, outcome, closed, inbox, waiters>>
        /\ pc[s] = "registered" /\ pc' = [pc EXCEPT ![s] = "waiting"]
    BY <1>21 DEF WriteRequest, Goto, At
  <2>2. Frame("request", s) \in FramesToBroker /\ Frame("request", s).value = s
    BY DEF Frame, FramesToBroker
  <2>3. CASE s # r
    <3>1. InOnePlace(r)' /\ (Pending(r)' => Pending(r))
      BY <1>00, <2>1, <2>2, <2>3, NotMine
    <3>2. RequestFrame(r)
      BY <1>0, <2>1, <2>3, <3>1 DEF RequestFrame
    <3> QED BY <3>2, RequestUnmoved
  <2>4. CASE s = r
    <3>1. ~Asked(r) /\ r \notin asked /\ ~Answered(r) /\ outcome[r] = "none" /\ (r \in waiters \/ closed)
          /\ r \notin inbox
      BY <2>1, <2>4 DEF RequestInv, Pending
    <3>2. NamesOnce(toBroker', {"request"}, r)
      BY <1>0, <1>00, <2>1, <2>2, <3>1, NamesAppend DEF InOnePlace, Asked
    <3>3. ~Answered(r)' /\ r \notin asked' /\ NamesOnce(toClient', Answers, r)
      BY <1>00, <2>1, <3>1 DEF Answered, InOnePlace, Answers
    <3>4. pc'[r] = "waiting"
      BY <1>0, <2>1, <2>4
    <3> QED BY <2>1, <3>1, <3>2, <3>3, <3>4 DEF RequestInv, InOnePlace
  <2> QED BY <2>3, <2>4
<1>22. ASSUME NEW s \in Requests, RequestFails(s) PROVE RequestInv(r)'
  <2>1. UNCHANGED <<toBroker, toClient, asked, closed, inbox>>
    BY <1>22 DEF RequestFails
  <2>2. InOnePlace(r)' /\ (Pending(r)' <=> Pending(r))
    BY <1>00, <2>1 DEF InOnePlace, Pending, Asked, Answered, Answers
  <2>3. CASE s # r
    <3>1. RequestFrame(r)
      BY <1>0, <1>22, <2>2, <2>3 DEF RequestFrame, RequestFails, EnterTerminal,
         CanWrite, Goto, At
    <3> QED BY <3>1, RequestUnmoved
  <2>4. CASE s = r
    BY <1>0, <1>22, <2>1, <2>2, <2>4 DEF RequestInv, RequestFails, EnterTerminal,
       CanWrite, Goto, At
  <2> QED BY <2>3, <2>4
<1>23. ASSUME NEW s \in Requests, ReceiveReply(s) PROVE RequestInv(r)'
  <2>1. UNCHANGED <<toBroker, toClient, asked, closed, inbox, waiters>>
    BY <1>23 DEF ReceiveReply
  <2>2. InOnePlace(r)' /\ (Pending(r)' <=> Pending(r))
    BY <1>00, <2>1 DEF InOnePlace, Pending, Asked, Answered, Answers
  <2>3. CASE s # r
    <3>1. RequestFrame(r)
      BY <1>0, <1>23, <2>2, <2>3 DEF RequestFrame, ReceiveReply, Goto, At
    <3> QED BY <3>1, RequestUnmoved
  <2>4. CASE s = r
    <3>1. pc[r] = "waiting" /\ r \in inbox /\ pc'[r] = "done"
      BY <1>0, <1>23, <2>4 DEF ReceiveReply, Goto, At
    <3>2. r \notin waiters /\ outcome[r] = "none"
      BY <3>1 DEF RequestInv
    <3>3. Pending(r) => closed
      BY <3>2 DEF RequestInv
    <3> QED BY <2>1, <2>2, <3>1, <3>2, <3>3 DEF RequestInv
  <2> QED BY <2>3, <2>4
<1>24. ASSUME NEW s \in Requests, Disconnected(s) PROVE RequestInv(r)'
  <2>1. UNCHANGED <<toBroker, toClient, asked, closed, inbox, waiters>>
    BY <1>24 DEF Disconnected
  <2>2. InOnePlace(r)' /\ (Pending(r)' <=> Pending(r))
    BY <1>00, <2>1 DEF InOnePlace, Pending, Asked, Answered, Answers
  <2>3. CASE s # r
    <3>1. RequestFrame(r)
      BY <1>0, <1>24, <2>2, <2>3 DEF RequestFrame, Disconnected, Goto, At
    <3> QED BY <3>1, RequestUnmoved
  <2>4. CASE s = r
    BY <1>0, <1>24, <2>1, <2>2, <2>4 DEF RequestInv, Disconnected, Goto, At
  <2> QED BY <2>3, <2>4
<1>25. ASSUME NEW s \in Requests, TimesOut(s) PROVE RequestInv(r)'
  <2>1. UNCHANGED <<toBroker, toClient, asked, closed, inbox, waiters>>
    BY <1>25 DEF TimesOut
  <2>2. InOnePlace(r)' /\ (Pending(r)' <=> Pending(r))
    BY <1>00, <2>1 DEF InOnePlace, Pending, Asked, Answered, Answers
  <2>3. CASE s # r
    <3>1. RequestFrame(r)
      BY <1>0, <1>25, <2>2, <2>3 DEF RequestFrame, TimesOut, Goto, At
    <3> QED BY <3>1, RequestUnmoved
  <2>4. CASE s = r
    BY <1>0, <1>25, <2>1, <2>2, <2>4 DEF RequestInv, TimesOut, Goto, At
  <2> QED BY <2>3, <2>4
<1>26. ASSUME NEW s \in Requests, RemoveWaiter(s) PROVE RequestInv(r)'
  <2>1. UNCHANGED <<toBroker, toClient, asked, closed, inbox, outcome>>
    BY <1>26 DEF RemoveWaiter
  <2>2. InOnePlace(r)' /\ (Pending(r)' <=> Pending(r))
    BY <1>00, <2>1 DEF InOnePlace, Pending, Asked, Answered, Answers
  <2>3. CASE s # r
    <3>1. RequestFrame(r)
      BY <1>0, <1>26, <2>2, <2>3 DEF RequestFrame, RemoveWaiter, EnterTerminal,
         Goto, At
    <3> QED BY <3>1, RequestUnmoved
  <2>4. CASE s = r
    BY <1>0, <1>26, <2>1, <2>2, <2>4 DEF RequestInv, RemoveWaiter, EnterTerminal,
       Goto, At
  <2> QED BY <2>3, <2>4
<1>27. ASSUME NEW t \in Threads, MarkAbsent(t) PROVE RequestInv(r)'
  <2>1. UNCHANGED <<toBroker, toClient, asked>>
    BY <1>27 DEF MarkAbsent
  <2>2. InOnePlace(r)' /\ (Pending(r)' => Pending(r))
    BY <1>00, <2>1 DEF InOnePlace, Pending, Asked, Answered, Answers
  <2>3. /\ UNCHANGED <<outcome, inbox>> /\ (closed => closed') /\ (r \in waiters' => r \in waiters)
        /\ r \in waiters => r \in waiters' \/ closed'
    BY <1>27 DEF MarkAbsent, At, Ending
  <2>4. pc'[r] = pc[r] \/ (pc[r] \in Late /\ pc'[r] \in Late)
    BY <1>0, <1>27 DEF MarkAbsent, Goto, At, Late
  <2>5. RequestFrame(r)
    BY <2>2, <2>3, <2>4 DEF RequestFrame
  <2> QED BY <2>5, RequestUnmoved
<1>28. ASSUME NEW t \in Threads, MarkClosed(t) PROVE RequestInv(r)'
  <2>1. UNCHANGED <<toBroker, toClient, asked>>
    BY <1>28 DEF MarkClosed
  <2>2. InOnePlace(r)' /\ (Pending(r)' => Pending(r))
    BY <1>00, <2>1 DEF InOnePlace, Pending, Asked, Answered, Answers
  <2>3. /\ UNCHANGED <<outcome, inbox>> /\ (closed => closed') /\ (r \in waiters' => r \in waiters)
        /\ r \in waiters => r \in waiters' \/ closed'
    BY <1>28 DEF MarkClosed, At, Ending
  <2>4. pc'[r] = pc[r] \/ (pc[r] \in Late /\ pc'[r] \in Late)
    BY <1>0, <1>28 DEF MarkClosed, Goto, At, Late
  <2>5. RequestFrame(r)
    BY <2>2, <2>3, <2>4 DEF RequestFrame
  <2> QED BY <2>5, RequestUnmoved
<1>29. ASSUME NEW t \in Threads, ClearWaiters(t) PROVE RequestInv(r)'
  <2>1. UNCHANGED <<toBroker, toClient, asked>>
    BY <1>29 DEF ClearWaiters
  <2>2. InOnePlace(r)' /\ (Pending(r)' => Pending(r))
    BY <1>00, <2>1 DEF InOnePlace, Pending, Asked, Answered, Answers
  <2>3. /\ UNCHANGED <<outcome, inbox>> /\ (closed => closed') /\ (r \in waiters' => r \in waiters)
        /\ r \in waiters => r \in waiters' \/ closed'
    BY <1>29 DEF ClearWaiters, At, Ending
  <2>4. pc'[r] = pc[r] \/ (pc[r] \in Late /\ pc'[r] \in Late)
    BY <1>0, <1>29 DEF ClearWaiters, AfterTerminal, Goto, At, Late
  <2>5. RequestFrame(r)
    BY <2>2, <2>3, <2>4 DEF RequestFrame
  <2> QED BY <2>5, RequestUnmoved
<1>30. ASSUME NEW t \in Threads, ShutSocket(t) PROVE RequestInv(r)'
  <2>1. UNCHANGED <<toBroker, toClient, asked>>
    BY <1>30 DEF ShutSocket
  <2>2. InOnePlace(r)' /\ (Pending(r)' => Pending(r))
    BY <1>00, <2>1 DEF InOnePlace, Pending, Asked, Answered, Answers
  <2>3. /\ UNCHANGED <<outcome, inbox>> /\ (closed => closed') /\ (r \in waiters' => r \in waiters)
        /\ r \in waiters => r \in waiters' \/ closed'
    BY <1>30 DEF ShutSocket, At, Ending
  <2>4. pc'[r] = pc[r] \/ (pc[r] \in Late /\ pc'[r] \in Late)
    BY <1>0, <1>30 DEF ShutSocket, SocketShut, Goto, At, Late
  <2>5. RequestFrame(r)
    BY <2>2, <2>3, <2>4 DEF RequestFrame
  <2> QED BY <2>5, RequestUnmoved
<1>31. CASE Abort
  <2>1. UNCHANGED <<toBroker, toClient, asked, outcome, closed, inbox, waiters>>
    BY <1>31 DEF Abort
  <2>2. InOnePlace(r)' /\ (Pending(r)' => Pending(r))
    BY <1>00, <2>1 DEF InOnePlace, Pending, Asked, Answered, Answers
  <2>3. pc'[r] = pc[r]
    BY <1>0, <1>31 DEF Abort, EnterTerminal, Goto, At
  <2>4. RequestFrame(r)
    BY <2>1, <2>2, <2>3 DEF RequestFrame
  <2> QED BY <2>4, RequestUnmoved
<1>32. CASE DropTransport
  <2>1. UNCHANGED <<toBroker, toClient, asked, outcome, closed, inbox, waiters>>
    BY <1>32 DEF DropTransport
  <2>2. InOnePlace(r)' /\ (Pending(r)' => Pending(r))
    BY <1>00, <2>1 DEF InOnePlace, Pending, Asked, Answered, Answers
  <2>3. pc'[r] = pc[r]
    BY <1>0, <1>32 DEF DropTransport, LinkFree, EnterTerminal, Goto, At
  <2>4. RequestFrame(r)
    BY <2>1, <2>2, <2>3 DEF RequestFrame
  <2> QED BY <2>4, RequestUnmoved
<1>33. CASE JoinReader
  <2>1. UNCHANGED <<toBroker, toClient, asked, outcome, closed, inbox, waiters>>
    BY <1>33 DEF JoinReader
  <2>2. InOnePlace(r)' /\ (Pending(r)' => Pending(r))
    BY <1>00, <2>1 DEF InOnePlace, Pending, Asked, Answered, Answers
  <2>3. pc'[r] = pc[r]
    BY <1>0, <1>33 DEF JoinReader, Goto, At
  <2>4. RequestFrame(r)
    BY <2>1, <2>2, <2>3 DEF RequestFrame
  <2> QED BY <2>4, RequestUnmoved
<1>34. CASE UNCHANGED vars
  BY <1>34 DEF vars, RequestInv, InOnePlace, Pending, Asked, Answered, Answers
<1>35. CASE WritePong
  <2>1. UNCHANGED <<toClient, asked, outcome, closed, inbox, waiters>> /\ pc'[r] = pc[r]
    BY <1>0, <1>35 DEF WritePong, Handled, EnterTerminal, Goto, At
  <2>2. InOnePlace(r)' /\ (Pending(r)' => Pending(r))
    <3>1. /\ Frame("pong", 0) \in FramesToBroker /\ Frame("pong", 0).kind # "request"
          /\ toBroker' \in {toBroker, Append(toBroker, Frame("pong", 0))}
      BY <1>35 DEF WritePong, Frame, FramesToBroker
    <3> QED BY <1>00, <2>1, <3>1, NotMine
  <2>3. RequestFrame(r)
    BY <2>1, <2>2 DEF RequestFrame
  <2> QED BY <2>3, RequestUnmoved
<1>36. ASSUME NEW t \in Threads, WriteWaits(t) PROVE RequestInv(r)'
  BY <1>36 DEF WriteWaits, RequestInv, InOnePlace, Pending, Asked, Answered, Answers
<1> QED
  BY <1>1, <1>2, <1>3, <1>4, <1>5, <1>6, <1>7, <1>8, <1>9, <1>10, <1>11, <1>12,
     <1>13, <1>14, <1>15, <1>16, <1>17, <1>18, <1>19, <1>20, <1>21, <1>22, <1>23,
     <1>24, <1>25, <1>26, <1>27, <1>28, <1>29, <1>30, <1>31, <1>32, <1>33, <1>34,
     <1>35, <1>36
     DEF Next, Reader, Link, Broker, Request, Terminal

-----------------------------------------------------------------------------
(* What the end of a session is blamed on.                                 *)

\* A step that gives the reader neither of the two reasons to stop, takes nothing
\* from an inbox and decides only requests that were undecided, none of them as
\* disconnected that has its answer.
ReportFrame ==
    /\ why'["reader"] \in {"unsolicited", "detached"} => why'["reader"] = why["reader"]
    /\ closed => closed'
    /\ inbox \subseteq inbox'
    /\ \A r \in Requests : outcome'[r] = outcome[r] \/ outcome[r] = "none"
    /\ \A r \in inbox : outcome'[r] = "disconnected" => outcome[r] = "disconnected"

LEMMA ReportUnmoved ==
    ASSUME TypeOK, ReportFrame, BlameOnlyAfterGivingUp, DetachIsHeard
    PROVE  BlameOnlyAfterGivingUp' /\ DetachIsHeard'
BY Zenon DEF BlameOnlyAfterGivingUp, DetachIsHeard, ReportFrame, TypeOK

LEMMA ReportStep ==
    ASSUME TypeOK, \A r \in Requests : RequestInv(r), BlameOnlyAfterGivingUp,
           DetachIsHeard, [Next]_vars
    PROVE  BlameOnlyAfterGivingUp' /\ DetachIsHeard'
<1> USE Constants DEF queueVars, requestVars, linkVars, brokerVars, wire
<1>0. /\ pc \in [Threads -> Stations] /\ why \in [Threads -> Reasons]
      /\ outcome \in [Requests -> Outcomes] /\ inbox \in SUBSET Requests
  BY DEF TypeOK
<1>1. CASE ReadPacket
  <2>1. UNCHANGED <<outcome, inbox>> /\ (closed => closed')
    BY <1>1 DEF ReadPacket
  <2>2. why'["reader"] \in {"unsolicited", "detached"} => why'["reader"] = why["reader"]
    BY <1>0, <1>1 DEF ReadPacket, Reads, Incoming, Handled, EnterTerminal, Goto, At,
       PacketFits, Enqueued
  <2>3. ReportFrame
    BY <1>0, <2>1, <2>2 DEF ReportFrame
  <2> QED BY <2>3, ReportUnmoved
<1>2. CASE ReadCredit
  <2>1. UNCHANGED <<outcome, inbox>> /\ (closed => closed')
    BY <1>2 DEF ReadCredit
  <2>2. why'["reader"] \in {"unsolicited", "detached"} => why'["reader"] = why["reader"]
    BY <1>0, <1>2 DEF ReadCredit, Reads, Incoming, Handled, EnterTerminal, Goto, At,
       Credited
  <2>3. ReportFrame
    BY <1>0, <2>1, <2>2 DEF ReportFrame
  <2> QED BY <2>3, ReportUnmoved
<1>3. CASE ReadGone
  <2>1. UNCHANGED <<outcome, inbox>> /\ (closed => closed')
    BY <1>3 DEF ReadGone
  <2>2. why'["reader"] \in {"unsolicited", "detached"} => why'["reader"] = why["reader"]
    BY <1>0, <1>3 DEF ReadGone, Reads, Incoming, Handled, EnterTerminal, Goto, At
  <2>3. ReportFrame
    BY <1>0, <2>1, <2>2 DEF ReportFrame
  <2> QED BY <2>3, ReportUnmoved
<1>4. CASE ReadPing
  <2>1. UNCHANGED <<outcome, inbox>> /\ (closed => closed')
    BY <1>4 DEF ReadPing
  <2>2. why'["reader"] \in {"unsolicited", "detached"} => why'["reader"] = why["reader"]
    BY <1>4 DEF ReadPing
  <2>3. ReportFrame
    BY <1>0, <2>1, <2>2 DEF ReportFrame
  <2> QED BY <2>3, ReportUnmoved
<1>5. CASE ReadReply
  <2>1. /\ toClient # <<>> /\ Incoming = Head(toClient) /\ Incoming.kind \in Answers
        /\ UNCHANGED <<outcome, closed>>
    BY <1>5 DEF ReadReply, Reads, Incoming, Answers
  <2>2. PICK r : r = Incoming.value
    OBVIOUS
  <2>3. toClient \in Seq(FramesToClient) /\ Incoming \in FramesToClient
    BY <2>1 DEF TypeOK
  <2>4. r \in Requests /\ (Incoming.kind = "detached" => r \in Detachers)
    BY <2>1, <2>2, <2>3 DEF FramesToClient, Answers
  <2>5. Answered(r)
    BY <2>1, <2>2, <2>3, NamesTail DEF Answered
  <2>6. RequestInv(r)
    BY <2>4
  <2>7. CASE r \notin waiters
    <3>1. why'["reader"] = "unsolicited"
      BY <1>0, <1>5, <2>2, <2>7 DEF ReadReply, EnterTerminal
    <3>2. outcome[r] = "timeout" \/ closed
      BY <2>5, <2>6, <2>7 DEF RequestInv, Pending
    <3> QED BY <2>1, <2>4, <3>1, <3>2 DEF BlameOnlyAfterGivingUp, DetachIsHeard
  <2>8. CASE r \in waiters /\ Incoming.kind = "detached"
    <3>1. why'["reader"] = "detached" /\ r \in inbox'
      BY <1>0, <1>5, <2>2, <2>8 DEF ReadReply, EnterTerminal, Delivered
    <3>2. outcome[r] \in {"none", "timeout"}
      BY <2>6, <2>8 DEF RequestInv
    <3> QED BY <2>1, <2>4, <2>8, <3>1, <3>2 DEF BlameOnlyAfterGivingUp,
       DetachIsHeard
  <2>9. CASE r \in waiters /\ Incoming.kind # "detached"
    <3>1. UNCHANGED why /\ inbox \subseteq inbox'
      BY <1>5, <2>2, <2>9 DEF ReadReply, Handled, Delivered
    <3>2. ReportFrame
      BY <2>1, <3>1 DEF ReportFrame
    <3> QED BY <3>2, ReportUnmoved
  <2> QED BY <2>7, <2>8, <2>9
<1>6. CASE ReadEof
  <2>1. UNCHANGED <<outcome, inbox>> /\ (closed => closed')
    BY <1>6 DEF ReadEof
  <2>2. why'["reader"] \in {"unsolicited", "detached"} => why'["reader"] = why["reader"]
    BY <1>0, <1>6 DEF ReadEof, EnterTerminal, Goto, At, NoReason
  <2>3. ReportFrame
    BY <1>0, <2>1, <2>2 DEF ReportFrame
  <2> QED BY <2>3, ReportUnmoved
<1>7. CASE CheckClosed
  <2>1. UNCHANGED <<outcome, inbox>> /\ (closed => closed')
    BY <1>7 DEF CheckClosed
  <2>2. why'["reader"] \in {"unsolicited", "detached"} => why'["reader"] = why["reader"]
    BY <1>0, <1>7 DEF CheckClosed, Goto, At
  <2>3. ReportFrame
    BY <1>0, <2>1, <2>2 DEF ReportFrame
  <2> QED BY <2>3, ReportUnmoved
<1>8. CASE TakeCredit
  <2>1. UNCHANGED <<outcome, inbox>> /\ (closed => closed')
    BY <1>8 DEF TakeCredit
  <2>2. why'["reader"] \in {"unsolicited", "detached"} => why'["reader"] = why["reader"]
    BY <1>0, <1>8 DEF TakeCredit, LinkFree, MayTake, Goto, At
  <2>3. ReportFrame
    BY <1>0, <2>1, <2>2 DEF ReportFrame
  <2> QED BY <2>3, ReportUnmoved
<1>9. CASE WritePacket
  <2>1. UNCHANGED <<outcome, inbox>> /\ (closed => closed')
    BY <1>9 DEF WritePacket
  <2>2. why'["reader"] \in {"unsolicited", "detached"} => why'["reader"] = why["reader"]
    BY <1>0, <1>9 DEF WritePacket, EnterTerminal, CanWrite, Frame, Goto, At
  <2>3. ReportFrame
    BY <1>0, <2>1, <2>2 DEF ReportFrame
  <2> QED BY <2>3, ReportUnmoved
<1>10. CASE PopPacket
  <2>1. UNCHANGED <<outcome, inbox>> /\ (closed => closed')
    BY <1>10 DEF PopPacket
  <2>2. why'["reader"] \in {"unsolicited", "detached"} => why'["reader"] = why["reader"]
    BY <1>0, <1>10 DEF PopPacket, LinkFree, Goto, At
  <2>3. ReportFrame
    BY <1>0, <2>1, <2>2 DEF ReportFrame
  <2> QED BY <2>3, ReportUnmoved
<1>11. CASE WriteCredit
  <2>1. UNCHANGED <<outcome, inbox>> /\ (closed => closed')
    BY <1>11 DEF WriteCredit
  <2>2. why'["reader"] \in {"unsolicited", "detached"} => why'["reader"] = why["reader"]
    BY <1>0, <1>11 DEF WriteCredit, EnterTerminal, CanWrite, CreditBack, Frame,
       Goto, At
  <2>3. ReportFrame
    BY <1>0, <2>1, <2>2 DEF ReportFrame
  <2> QED BY <2>3, ReportUnmoved
<1>12. CASE BrokerPacket
  <2>1. UNCHANGED <<outcome, inbox>> /\ (closed => closed')
    BY <1>12 DEF BrokerPacket, BrokerSays
  <2>2. why'["reader"] \in {"unsolicited", "detached"} => why'["reader"] = why["reader"]
    BY <1>0, <1>12 DEF BrokerPacket, BrokerSays, CanWrite, Frame
  <2>3. ReportFrame
    BY <1>0, <2>1, <2>2 DEF ReportFrame
  <2> QED BY <2>3, ReportUnmoved
<1>13. CASE BrokerPing
  <2>1. UNCHANGED <<outcome, inbox>> /\ (closed => closed')
    BY <1>13 DEF BrokerPing, BrokerSays
  <2>2. why'["reader"] \in {"unsolicited", "detached"} => why'["reader"] = why["reader"]
    BY <1>0, <1>13 DEF BrokerPing, BrokerSays, CanWrite, Frame
  <2>3. ReportFrame
    BY <1>0, <2>1, <2>2 DEF ReportFrame
  <2> QED BY <2>3, ReportUnmoved
<1>14. CASE BrokerGone
  <2>1. UNCHANGED <<outcome, inbox>> /\ (closed => closed')
    BY <1>14 DEF BrokerGone, BrokerSays
  <2>2. why'["reader"] \in {"unsolicited", "detached"} => why'["reader"] = why["reader"]
    BY <1>0, <1>14 DEF BrokerGone, BrokerSays, CanWrite, Frame
  <2>3. ReportFrame
    BY <1>0, <2>1, <2>2 DEF ReportFrame
  <2> QED BY <2>3, ReportUnmoved
<1>15. CASE BrokerHangsUp
  <2>1. UNCHANGED <<outcome, inbox>> /\ (closed => closed')
    BY <1>15 DEF BrokerHangsUp
  <2>2. why'["reader"] \in {"unsolicited", "detached"} => why'["reader"] = why["reader"]
    BY <1>0, <1>15 DEF BrokerHangsUp, CanWrite
  <2>3. ReportFrame
    BY <1>0, <2>1, <2>2 DEF ReportFrame
  <2> QED BY <2>3, ReportUnmoved
<1>16. CASE BrokerReads
  <2>1. UNCHANGED <<outcome, inbox>> /\ (closed => closed')
    BY <1>16 DEF BrokerReads
  <2>2. why'["reader"] \in {"unsolicited", "detached"} => why'["reader"] = why["reader"]
    BY <1>0, <1>16 DEF BrokerReads
  <2>3. ReportFrame
    BY <1>0, <2>1, <2>2 DEF ReportFrame
  <2> QED BY <2>3, ReportUnmoved
<1>17. ASSUME NEW n \in 1 .. HostCredits, BrokerCredit(n)
      PROVE  BlameOnlyAfterGivingUp' /\ DetachIsHeard'
  <2>1. UNCHANGED <<outcome, inbox>> /\ (closed => closed')
    BY <1>17 DEF BrokerCredit, BrokerSays
  <2>2. why'["reader"] \in {"unsolicited", "detached"} => why'["reader"] = why["reader"]
    BY <1>0, <1>17 DEF BrokerCredit, BrokerSays, CanWrite, Frame
  <2>3. ReportFrame
    BY <1>0, <2>1, <2>2 DEF ReportFrame
  <2> QED BY <2>3, ReportUnmoved
<1>18. ASSUME NEW s \in Requests, BrokerAnswer(s)
      PROVE  BlameOnlyAfterGivingUp' /\ DetachIsHeard'
  <2>1. UNCHANGED <<outcome, inbox>> /\ (closed => closed')
    BY <1>18 DEF BrokerAnswer, BrokerSays
  <2>2. why'["reader"] \in {"unsolicited", "detached"} => why'["reader"] = why["reader"]
    BY <1>0, <1>18 DEF BrokerAnswer, BrokerSays, CanWrite, Frame
  <2>3. ReportFrame
    BY <1>0, <2>1, <2>2 DEF ReportFrame
  <2> QED BY <2>3, ReportUnmoved
<1>19. ASSUME NEW s \in Requests, CheckOpen(s)
      PROVE  BlameOnlyAfterGivingUp' /\ DetachIsHeard'
  <2>1. RequestInv(s) /\ outcome[s] = "none"
    BY <1>19 DEF RequestInv, CheckOpen, Goto, At
  <2>2. UNCHANGED <<inbox, closed>> /\ why'["reader"] = why["reader"]
    BY <1>0, <1>19 DEF CheckOpen, Goto, At
  <2>3. /\ \A r \in Requests : r # s => outcome'[r] = outcome[r]
        /\ s \in inbox => outcome'[s] # "disconnected"
    BY <1>0, <1>19, <2>1 DEF CheckOpen, Goto, At, RequestInv
  <2>4. ReportFrame
    BY <1>0, <2>1, <2>2, <2>3 DEF ReportFrame
  <2> QED BY <2>4, ReportUnmoved
<1>20. ASSUME NEW s \in Requests, RegisterWaiter(s)
      PROVE  BlameOnlyAfterGivingUp' /\ DetachIsHeard'
  <2>1. UNCHANGED <<outcome, inbox>> /\ (closed => closed')
    BY <1>20 DEF RegisterWaiter
  <2>2. why'["reader"] \in {"unsolicited", "detached"} => why'["reader"] = why["reader"]
    BY <1>0, <1>20 DEF RegisterWaiter, Registered, Goto, At
  <2>3. ReportFrame
    BY <1>0, <2>1, <2>2 DEF ReportFrame
  <2> QED BY <2>3, ReportUnmoved
<1>21. ASSUME NEW s \in Requests, WriteRequest(s)
      PROVE  BlameOnlyAfterGivingUp' /\ DetachIsHeard'
  <2>1. UNCHANGED <<outcome, inbox>> /\ (closed => closed')
    BY <1>21 DEF WriteRequest
  <2>2. why'["reader"] \in {"unsolicited", "detached"} => why'["reader"] = why["reader"]
    BY <1>0, <1>21 DEF WriteRequest, CanWrite, Frame, Goto, At
  <2>3. ReportFrame
    BY <1>0, <2>1, <2>2 DEF ReportFrame
  <2> QED BY <2>3, ReportUnmoved
<1>22. ASSUME NEW s \in Requests, RequestFails(s)
      PROVE  BlameOnlyAfterGivingUp' /\ DetachIsHeard'
  <2>1. RequestInv(s) /\ outcome[s] = "none"
    BY <1>22 DEF RequestInv, RequestFails, EnterTerminal, CanWrite, Goto, At
  <2>2. UNCHANGED <<inbox, closed>> /\ why'["reader"] = why["reader"]
    BY <1>0, <1>22 DEF RequestFails, EnterTerminal, CanWrite, Goto, At
  <2>3. /\ \A r \in Requests : r # s => outcome'[r] = outcome[r]
        /\ s \in inbox => outcome'[s] # "disconnected"
    BY <1>0, <1>22, <2>1 DEF RequestFails, EnterTerminal, CanWrite, Goto, At,
       RequestInv
  <2>4. ReportFrame
    BY <1>0, <2>1, <2>2, <2>3 DEF ReportFrame
  <2> QED BY <2>4, ReportUnmoved
<1>23. ASSUME NEW s \in Requests, ReceiveReply(s)
      PROVE  BlameOnlyAfterGivingUp' /\ DetachIsHeard'
  <2>1. RequestInv(s) /\ outcome[s] = "none"
    BY <1>23 DEF RequestInv, ReceiveReply, Goto, At
  <2>2. UNCHANGED <<inbox, closed>> /\ why'["reader"] = why["reader"]
    BY <1>0, <1>23 DEF ReceiveReply, Goto, At
  <2>3. /\ \A r \in Requests : r # s => outcome'[r] = outcome[r]
        /\ s \in inbox => outcome'[s] # "disconnected"
    BY <1>0, <1>23, <2>1 DEF ReceiveReply, Goto, At, RequestInv
  <2>4. ReportFrame
    BY <1>0, <2>1, <2>2, <2>3 DEF ReportFrame
  <2> QED BY <2>4, ReportUnmoved
<1>24. ASSUME NEW s \in Requests, Disconnected(s)
      PROVE  BlameOnlyAfterGivingUp' /\ DetachIsHeard'
  <2>1. RequestInv(s) /\ outcome[s] = "none"
    BY <1>24 DEF RequestInv, Disconnected, Goto, At
  <2>2. UNCHANGED <<inbox, closed>> /\ why'["reader"] = why["reader"]
    BY <1>0, <1>24 DEF Disconnected, Goto, At
  <2>3. /\ \A r \in Requests : r # s => outcome'[r] = outcome[r]
        /\ s \in inbox => outcome'[s] # "disconnected"
    BY <1>0, <1>24, <2>1 DEF Disconnected, Goto, At, RequestInv
  <2>4. ReportFrame
    BY <1>0, <2>1, <2>2, <2>3 DEF ReportFrame
  <2> QED BY <2>4, ReportUnmoved
<1>25. ASSUME NEW s \in Requests, TimesOut(s)
      PROVE  BlameOnlyAfterGivingUp' /\ DetachIsHeard'
  <2>1. RequestInv(s) /\ outcome[s] = "none"
    BY <1>25 DEF RequestInv, TimesOut, Goto, At
  <2>2. UNCHANGED <<inbox, closed>> /\ why'["reader"] = why["reader"]
    BY <1>0, <1>25 DEF TimesOut, Goto, At
  <2>3. /\ \A r \in Requests : r # s => outcome'[r] = outcome[r]
        /\ s \in inbox => outcome'[s] # "disconnected"
    BY <1>0, <1>25, <2>1 DEF TimesOut, Goto, At, RequestInv
  <2>4. ReportFrame
    BY <1>0, <2>1, <2>2, <2>3 DEF ReportFrame
  <2> QED BY <2>4, ReportUnmoved
<1>26. ASSUME NEW s \in Requests, RemoveWaiter(s)
      PROVE  BlameOnlyAfterGivingUp' /\ DetachIsHeard'
  <2>1. UNCHANGED <<outcome, inbox>> /\ (closed => closed')
    BY <1>26 DEF RemoveWaiter
  <2>2. why'["reader"] \in {"unsolicited", "detached"} => why'["reader"] = why["reader"]
    BY <1>0, <1>26 DEF RemoveWaiter, EnterTerminal, Goto, At
  <2>3. ReportFrame
    BY <1>0, <2>1, <2>2 DEF ReportFrame
  <2> QED BY <2>3, ReportUnmoved
<1>27. ASSUME NEW t \in Threads, MarkAbsent(t)
      PROVE  BlameOnlyAfterGivingUp' /\ DetachIsHeard'
  <2>1. UNCHANGED <<outcome, inbox>> /\ (closed => closed')
    BY <1>27 DEF MarkAbsent
  <2>2. why'["reader"] \in {"unsolicited", "detached"} => why'["reader"] = why["reader"]
    BY <1>0, <1>27 DEF MarkAbsent, Goto, At
  <2>3. ReportFrame
    BY <1>0, <2>1, <2>2 DEF ReportFrame
  <2> QED BY <2>3, ReportUnmoved
<1>28. ASSUME NEW t \in Threads, MarkClosed(t)
      PROVE  BlameOnlyAfterGivingUp' /\ DetachIsHeard'
  <2>1. UNCHANGED <<outcome, inbox>> /\ (closed => closed')
    BY <1>28 DEF MarkClosed
  <2>2. why'["reader"] \in {"unsolicited", "detached"} => why'["reader"] = why["reader"]
    BY <1>0, <1>28 DEF MarkClosed, Goto, At
  <2>3. ReportFrame
    BY <1>0, <2>1, <2>2 DEF ReportFrame
  <2> QED BY <2>3, ReportUnmoved
<1>29. ASSUME NEW t \in Threads, ClearWaiters(t)
      PROVE  BlameOnlyAfterGivingUp' /\ DetachIsHeard'
  <2>1. UNCHANGED <<outcome, inbox>> /\ (closed => closed')
    BY <1>29 DEF ClearWaiters
  <2>2. why'["reader"] \in {"unsolicited", "detached"} => why'["reader"] = why["reader"]
    BY <1>0, <1>29 DEF ClearWaiters, AfterTerminal, Goto, At
  <2>3. ReportFrame
    BY <1>0, <2>1, <2>2 DEF ReportFrame
  <2> QED BY <2>3, ReportUnmoved
<1>30. ASSUME NEW t \in Threads, ShutSocket(t)
      PROVE  BlameOnlyAfterGivingUp' /\ DetachIsHeard'
  <2>1. UNCHANGED <<outcome, inbox>> /\ (closed => closed')
    BY <1>30 DEF ShutSocket
  <2>2. why'["reader"] \in {"unsolicited", "detached"} => why'["reader"] = why["reader"]
    BY <1>0, <1>30 DEF ShutSocket, SocketShut, Goto, At
  <2>3. ReportFrame
    BY <1>0, <2>1, <2>2 DEF ReportFrame
  <2> QED BY <2>3, ReportUnmoved
<1>31. CASE Abort
  <2>1. UNCHANGED <<outcome, inbox>> /\ (closed => closed')
    BY <1>31 DEF Abort
  <2>2. why'["reader"] \in {"unsolicited", "detached"} => why'["reader"] = why["reader"]
    BY <1>0, <1>31 DEF Abort, EnterTerminal, Goto, At
  <2>3. ReportFrame
    BY <1>0, <2>1, <2>2 DEF ReportFrame
  <2> QED BY <2>3, ReportUnmoved
<1>32. CASE DropTransport
  <2>1. UNCHANGED <<outcome, inbox>> /\ (closed => closed')
    BY <1>32 DEF DropTransport
  <2>2. why'["reader"] \in {"unsolicited", "detached"} => why'["reader"] = why["reader"]
    BY <1>0, <1>32 DEF DropTransport, LinkFree, EnterTerminal, Goto, At
  <2>3. ReportFrame
    BY <1>0, <2>1, <2>2 DEF ReportFrame
  <2> QED BY <2>3, ReportUnmoved
<1>33. CASE JoinReader
  <2>1. UNCHANGED <<outcome, inbox>> /\ (closed => closed')
    BY <1>33 DEF JoinReader
  <2>2. why'["reader"] \in {"unsolicited", "detached"} => why'["reader"] = why["reader"]
    BY <1>0, <1>33 DEF JoinReader, Goto, At
  <2>3. ReportFrame
    BY <1>0, <2>1, <2>2 DEF ReportFrame
  <2> QED BY <2>3, ReportUnmoved
<1>34. CASE UNCHANGED vars
  BY <1>34 DEF vars, BlameOnlyAfterGivingUp, DetachIsHeard
<1>35. CASE WritePong
  <2>1. UNCHANGED <<outcome, inbox>> /\ (closed => closed')
    BY <1>35 DEF WritePong
  <2>2. why'["reader"] \in {"unsolicited", "detached"} => why'["reader"] = why["reader"]
    BY <1>0, <1>35 DEF WritePong, Handled, EnterTerminal, Goto, At
  <2>3. ReportFrame
    BY <1>0, <2>1, <2>2 DEF ReportFrame
  <2> QED BY <2>3, ReportUnmoved
<1>36. ASSUME NEW t \in Threads, WriteWaits(t)
      PROVE  BlameOnlyAfterGivingUp' /\ DetachIsHeard'
  BY <1>36 DEF WriteWaits, BlameOnlyAfterGivingUp, DetachIsHeard
<1> QED
  BY <1>1, <1>2, <1>3, <1>4, <1>5, <1>6, <1>7, <1>8, <1>9, <1>10, <1>11, <1>12,
     <1>13, <1>14, <1>15, <1>16, <1>17, <1>18, <1>19, <1>20, <1>21, <1>22, <1>23,
     <1>24, <1>25, <1>26, <1>27, <1>28, <1>29, <1>30, <1>31, <1>32, <1>33, <1>34,
     <1>35, <1>36
     DEF Next, Reader, Link, Broker, Request, Terminal

-----------------------------------------------------------------------------
(* The theorems about requests.                                            *)

RInv ==
    /\ TypeOK /\ Ending
    /\ \A r \in Requests : RequestInv(r)
    /\ BlameOnlyAfterGivingUp /\ DetachIsHeard

LEMMA RequestsInductive == Spec => []RInv
<1>1. Init => RInv
  <2> SUFFICES ASSUME Init PROVE RInv
    OBVIOUS
  <2>1. TypeOK /\ Ending /\ \A r \in Requests : RequestInv(r)
    BY TypeInit, EndingInit, RequestInit
  <2>2. why["reader"] = NoReason
    BY Constants DEF Init
  <2>3. BlameOnlyAfterGivingUp /\ DetachIsHeard
    BY <2>2 DEF BlameOnlyAfterGivingUp, DetachIsHeard, NoReason
  <2> QED BY <2>1, <2>3 DEF RInv
<1>2. RInv /\ [Next]_vars => RInv'
  <2> SUFFICES ASSUME RInv, [Next]_vars PROVE RInv'
    OBVIOUS
  <2>0. /\ TypeOK /\ Ending /\ BlameOnlyAfterGivingUp
        /\ DetachIsHeard /\ \A r \in Requests : RequestInv(r)
    BY DEF RInv
  <2>1. TypeOK' /\ Ending'
    BY <2>0, TypeStep, EndingStep
  <2>2. ASSUME NEW r \in Requests PROVE RequestInv(r)'
    BY <2>0, RequestStep
  <2>3. BlameOnlyAfterGivingUp' /\ DetachIsHeard'
    BY <2>0, ReportStep
  <2> QED BY <2>1, <2>2, <2>3 DEF RInv
<1> QED BY <1>1, <1>2, PTL DEF Spec

\* For every set of requests: handle_packet_frame takes an honest broker's reply
\* for an unsolicited one only after this side has timed out on a request or has
\* closed the session.
THEOREM HonestBrokerIsBelieved == Spec => []BlameOnlyAfterGivingUp
<1>1. RInv => BlameOnlyAfterGivingUp
  BY DEF RInv
<1> QED BY <1>1, RequestsInductive, PTL

\* For every set of requests: a DETACHED reply that ends the session is in the
\* channel of its request, and the request does not report a closed stream.
THEOREM DetachIsAlwaysHeard == Spec => []DetachIsHeard
<1>1. RInv => DetachIsHeard
  BY DEF RInv
<1> QED BY <1>1, RequestsInductive, PTL

=============================================================================
