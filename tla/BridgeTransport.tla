-------------------------- MODULE BridgeTransport --------------------------
(***************************************************************************)
(* The packet stream of a claimed device (src/bridge_transport.rs:         *)
(* SocketBulkTransport, ClaimedSessionControl, TransportState, read_loop). *)
(*                                                                         *)
(* Four kinds of threads meet in TransportState: the reader thread that    *)
(* handles the broker's frames, the thread that holds the mux link and     *)
(* calls send and recv, the threads that make control requests, and the    *)
(* ones that end the session (abort, Drop).  Each step is what a thread    *)
(* does under one mutex, so mark_terminal takes three steps.  Every frame  *)
(* is written, and the socket shut, under the writer mutex; the socket has *)
(* no write timeout, so write_all waits, with the mutex held, while the    *)
(* broker leaves the socket full.  The broker, outside this repository, is *)
(* honest: it sends a packet only under a credit, returns each credit once *)
(* and answers a request at most once; it may also fall silent, stop       *)
(* reading, report the device gone or hang up at any time.                 *)
(***************************************************************************)
EXTENDS Integers, Sequences, FiniteSets, FiniteSetsExt

CONSTANTS
    HostCredits,   \* claim.host_to_device_credits
    GuestBuffers,  \* GUEST_USB_READ_BUFFERS
    QueueLimit,    \* claim.device_to_host_credits
    SocketRoom,    \* frames the socket holds before write_all has to wait
    Requests,      \* threads inside send_request, one request each
    Detachers,     \* those whose request is DETACH
    Workloads      \* bound: how much a behaviour is asked to do, one of these

ASSUME CreditAssumption ==
    /\ {HostCredits, GuestBuffers, QueueLimit, SocketRoom} \subseteq Nat \ {0}
    /\ Workloads \subseteq
           [packets : Nat, sends : Nat, pings : Nat, callers : SUBSET Requests]
    /\ Detachers \subseteq Requests
    /\ Requests \cap {"reader", "link", "control", "owner"} = {}

VARIABLES
    packets,        \* QueueState.packets
    closed,         \* QueueState.closed
    error,          \* QueueState.error
    hostCredits,    \* QueueState.host_credits
    waiters,        \* TransportState.waiters: the requests registered
    devicePresent,  \* TransportState.device_present
    sock,           \* "open", "shut" by this side, "hungup" by the broker
    toBroker, toClient,  \* frames in the socket, each way
    writer,         \* who holds the writer mutex from one step to the next
    pc,             \* where each thread is
    why,            \* the reason a thread passes to mark_terminal
    holding,        \* the packet recv has popped
    inbox,          \* the requests whose channel holds a reply
    outcome,        \* what send_request returned
    delivered,      \* the packets recv has returned
    toSend,         \* packets the link has yet to send
    held,           \* broker: packets whose credit it has not returned
    devCredits,     \* broker: credits to send device packets under
    script,         \* broker: the device packets it has yet to send
    asked,          \* broker: requests to answer
    pings, gone     \* broker: pings to come; GONE has been sent

queueVars == <<packets, closed, error, hostCredits>>
requestVars == <<waiters, inbox, outcome>>
linkVars == <<holding, delivered, toSend>>
brokerVars == <<held, devCredits, script, asked, pings, gone>>
wire == <<toBroker, toClient, writer>>
vars == <<queueVars, requestVars, linkVars, brokerVars, wire, devicePresent,
          sock, pc, why>>

Threads == {"reader", "link", "control", "owner"} \cup Requests
NoReason == "none"
Nobody == "nobody"
Frame(kind, value) == [kind |-> kind, value |-> value]

MaxInFlight == Min({GuestBuffers, HostCredits})

At(t, here) == pc[t] = here
Goto(t, there) == pc' = [pc EXCEPT ![t] = there]
CanWrite == sock = "open"

\* A thread enters mark_terminal(reason, false).
EnterTerminal(t, reason) == Goto(t, "terminal") /\ why' = [why EXCEPT ![t] = reason]

-----------------------------------------------------------------------------
(* write_frame, by whichever thread.                                       *)

Room == Len(toBroker) < SocketRoom

\* A frame goes into the socket, or the socket is down and write_all fails.
\* send and recv call mark_terminal in the statement that locked the writer,
\* so the link keeps the mutex until it is done with that.
WriteFrame(t) ==
    /\ writer \in {Nobody, t}
    /\ CanWrite => Room
    /\ writer' = IF t = "link" /\ ~CanWrite THEN t ELSE Nobody

\* write_all has to wait for the broker to read.
WriteWaits(t) ==
    /\ \/ t = "reader" /\ At(t, "ponging")
       \/ t = "link" /\ pc[t] \in {"sending", "crediting"}
       \/ t \in Requests /\ At(t, "registered")
    /\ writer = Nobody /\ CanWrite /\ ~Room
    /\ writer' = t
    /\ UNCHANGED <<queueVars, requestVars, linkVars, brokerVars, toBroker, toClient,
                   devicePresent, sock, pc, why>>

-----------------------------------------------------------------------------
(* mark_terminal, by whichever thread; then what that thread does next.    *)

AfterTerminal(t) ==
    CASE t = "reader"                          -> "returned"
      [] t = "link"                            -> "idle"
      [] t \in Requests /\ outcome[t] = "failed" -> "done"
      [] OTHER                                 -> "shutting"

MarkAbsent(t) ==
    /\ At(t, "terminal")
    /\ devicePresent' = FALSE
    /\ Goto(t, "closing")
    /\ UNCHANGED <<queueVars, requestVars, linkVars, brokerVars, wire, sock, why>>

MarkClosed(t) ==
    /\ At(t, "closing")
    /\ closed' = TRUE
    /\ error' = IF why[t] \in {NoReason, "detached"} THEN error ELSE why[t]
    /\ Goto(t, "clearing")
    /\ UNCHANGED <<packets, hostCredits, requestVars, linkVars, brokerVars, wire,
                   devicePresent, sock, why>>

\* Dropping the senders disconnects every request still waiting.
ClearWaiters(t) ==
    /\ At(t, "clearing")
    /\ waiters' = {}
    /\ Goto(t, AfterTerminal(t))
    /\ writer' = IF writer = t THEN Nobody ELSE writer
    /\ UNCHANGED <<queueVars, inbox, outcome, linkVars, brokerVars, toBroker,
                   toClient, devicePresent, sock, why>>

\* Mutant of SocketShut: the socket is left open.
SocketShutNot == sock

\* writer.shutdown(Both); a socket the broker has hung up is left as it is.
SocketShut == IF sock = "open" THEN "shut" ELSE sock

\* The end of close_with_reason, and of Drop before it joins the reader.
ShutSocket(t) ==
    /\ At(t, "shutting") /\ writer = Nobody
    /\ sock' = SocketShut
    /\ Goto(t, IF t = "owner" THEN "joining" ELSE "done")
    /\ UNCHANGED <<queueVars, requestVars, linkVars, brokerVars, wire,
                   devicePresent, why>>

-----------------------------------------------------------------------------
(* The reader thread: read_loop and handle_packet_frame.                   *)

Incoming == Head(toClient)

Reads(kinds) ==
    /\ At("reader", "reading")
    /\ toClient # <<>> /\ Incoming.kind \in kinds
    /\ toClient' = Tail(toClient)
    /\ UNCHANGED <<devicePresent, sock, writer, brokerVars, linkVars>>

\* A frame handled: read_loop looks whether the session has been closed.
Handled == Goto("reader", "checking") /\ UNCHANGED why

\* Mutant of PacketFits: off by one.
PacketFitsBelow == Len(packets) + 1 < QueueLimit

PacketFits == Len(packets) < QueueLimit

Enqueued(p) == Append(packets, p)

ReadPacket ==
    /\ Reads({"packet"})
    /\ IF PacketFits
       THEN packets' = Enqueued(Incoming.value) /\ Handled
       ELSE UNCHANGED packets /\ EnterTerminal("reader", "overrun")
    /\ UNCHANGED <<closed, error, hostCredits, requestVars, toBroker>>

\* Mutant of Credited: the delta is taken for one.
CreditedOne(delta) == hostCredits + 1

Credited(delta) == hostCredits + delta

ReadCredit ==
    /\ Reads({"credit"})
    /\ IF Credited(Incoming.value) <= HostCredits
       THEN hostCredits' = Credited(Incoming.value) /\ Handled
       ELSE UNCHANGED hostCredits /\ EnterTerminal("reader", "overcredit")
    /\ UNCHANGED <<packets, closed, error, requestVars, toBroker>>

\* GONE, STATS without presence, an ERROR addressed to no request.
ReadGone ==
    /\ Reads({"gone"})
    /\ EnterTerminal("reader", "gone")
    /\ UNCHANGED <<queueVars, requestVars, toBroker>>

ReadPing ==
    /\ Reads({"ping"})
    /\ Goto("reader", "ponging")
    /\ UNCHANGED <<queueVars, requestVars, toBroker, why>>

WritePong ==
    /\ At("reader", "ponging")
    /\ WriteFrame("reader")
    /\ IF CanWrite
       THEN toBroker' = Append(toBroker, Frame("pong", 0)) /\ Handled
       ELSE UNCHANGED toBroker /\ EnterTerminal("reader", "write")
    /\ UNCHANGED <<queueVars, requestVars, linkVars, brokerVars, toClient,
                   devicePresent, sock>>

\* Mutant of Delivered: the waiter is dropped, not sent to.
DeliveredNot(r) == inbox

\* deliver_waiter: the record goes into the request's own channel.
Delivered(r) == inbox \cup {r}

ReadReply ==
    /\ Reads({"reply", "detached"})
    /\ LET r == Incoming.value
       IN  IF r \in waiters
           THEN /\ waiters' = waiters \ {r}
                /\ inbox' = Delivered(r)
                /\ IF Incoming.kind = "detached"
                   THEN EnterTerminal("reader", "detached")
                   ELSE Handled
           ELSE /\ UNCHANGED <<waiters, inbox>>
                /\ EnterTerminal("reader", "unsolicited")
    /\ UNCHANGED <<queueVars, outcome, toBroker>>

\* The end of the stream: after the last frame when the broker hung up, at
\* any time once this side has shut the socket.
ReadEof ==
    /\ At("reader", "reading")
    /\ sock = "shut" \/ (sock = "hungup" /\ toClient = <<>>)
    /\ EnterTerminal("reader", NoReason)
    /\ UNCHANGED <<queueVars, requestVars, linkVars, brokerVars, wire,
                   devicePresent, sock>>

CheckClosed ==
    /\ At("reader", "checking")
    /\ Goto("reader", IF closed THEN "returned" ELSE "reading")
    /\ UNCHANGED <<queueVars, requestVars, linkVars, brokerVars, wire,
                   devicePresent, sock, why>>

Reader ==
    ReadPacket \/ ReadCredit \/ ReadGone \/ ReadPing \/ WritePong \/ ReadReply
    \/ ReadEof \/ CheckClosed

-----------------------------------------------------------------------------
(* send and recv, by the thread that holds the mux link.  Drop needs the   *)
(* transport for itself.                                                   *)

LinkFree == At("link", "idle") /\ At("owner", "idle")

MayTake == hostCredits # 0 /\ HostCredits - hostCredits < MaxInFlight

\* try_take_host_credit, when it takes one.
TakeCredit ==
    /\ LinkFree
    /\ ~closed /\ devicePresent
    /\ MayTake
    /\ toSend > 0
    /\ hostCredits' = hostCredits - 1
    /\ Goto("link", "sending")
    /\ UNCHANGED <<packets, closed, error, requestVars, linkVars, brokerVars,
                   wire, devicePresent, sock, why>>

WritePacket ==
    /\ At("link", "sending")
    /\ WriteFrame("link")
    /\ IF CanWrite
       THEN /\ toBroker' = Append(toBroker, Frame("packet", 0))
            /\ toSend' = toSend - 1
            /\ Goto("link", "idle") /\ UNCHANGED why
       ELSE UNCHANGED <<toBroker, toSend>> /\ EnterTerminal("link", "write")
    /\ UNCHANGED <<queueVars, requestVars, holding, delivered, brokerVars,
                   toClient, devicePresent, sock>>

\* recv_packet pops also from a queue that has been closed.
PopPacket ==
    /\ LinkFree
    /\ packets # <<>>
    /\ holding' = Head(packets)
    /\ packets' = Tail(packets)
    /\ Goto("link", "crediting")
    /\ UNCHANGED <<closed, error, hostCredits, requestVars, delivered, toSend,
                   brokerVars, wire, devicePresent, sock, why>>

CreditBack == Append(toBroker, Frame("credit", 1))

\* The packet is returned once its credit is written; if that fails it is lost.
WriteCredit ==
    /\ At("link", "crediting")
    /\ WriteFrame("link")
    /\ IF CanWrite
       THEN /\ toBroker' = CreditBack
            /\ delivered' = Append(delivered, holding)
            /\ Goto("link", "idle") /\ UNCHANGED why
       ELSE UNCHANGED <<toBroker, delivered>> /\ EnterTerminal("link", "write")
    /\ UNCHANGED <<queueVars, requestVars, holding, toSend, brokerVars, toClient,
                   devicePresent, sock>>

Link == TakeCredit \/ WritePacket \/ PopPacket \/ WriteCredit

-----------------------------------------------------------------------------
(* send_request, by any thread with a ClaimedSessionControl.               *)

CheckOpen(r) ==
    /\ At(r, "idle")
    /\ Goto(r, IF closed THEN "done" ELSE "checked")
    /\ outcome' = [outcome EXCEPT ![r] = IF closed THEN "refused" ELSE @]
    /\ UNCHANGED <<queueVars, waiters, inbox, linkVars, brokerVars, wire,
                   devicePresent, sock, why>>

\* Mutant of Registered: the waiter is not there when the reply comes.
RegisteredLate(r) == waiters

Registered(r) == waiters \cup {r}

RegisterWaiter(r) ==
    /\ At(r, "checked")
    /\ waiters' = Registered(r)
    /\ Goto(r, "registered")
    /\ UNCHANGED <<queueVars, inbox, outcome, linkVars, brokerVars, wire,
                   devicePresent, sock, why>>

WriteRequest(r) ==
    /\ At(r, "registered") /\ CanWrite
    /\ WriteFrame(r)
    /\ toBroker' = Append(toBroker, Frame("request", r))
    /\ Goto(r, "waiting")
    /\ UNCHANGED <<queueVars, requestVars, linkVars, brokerVars, toClient,
                   devicePresent, sock, why>>

RequestFails(r) ==
    /\ At(r, "registered") /\ ~CanWrite
    /\ WriteFrame(r)
    /\ waiters' = waiters \ {r}
    /\ outcome' = [outcome EXCEPT ![r] = "failed"]
    /\ EnterTerminal(r, "write")
    /\ UNCHANGED <<queueVars, inbox, linkVars, brokerVars, toBroker, toClient,
                   devicePresent, sock>>

ReceiveReply(r) ==
    /\ At(r, "waiting") /\ r \in inbox
    /\ outcome' = [outcome EXCEPT ![r] = "reply"]
    /\ Goto(r, "done")
    /\ UNCHANGED <<queueVars, waiters, inbox, linkVars, brokerVars, wire,
                   devicePresent, sock, why>>

\* RecvTimeoutError::Disconnected: the sender was dropped and sent nothing.
Disconnected(r) ==
    /\ At(r, "waiting") /\ r \notin inbox /\ r \notin waiters
    /\ outcome' = [outcome EXCEPT ![r] = "disconnected"]
    /\ Goto(r, "done")
    /\ UNCHANGED <<queueVars, waiters, inbox, linkVars, brokerVars, wire,
                   devicePresent, sock, why>>

\* Mutant of TimesOut: the wait for the reply has no bound.
TimesOutNever(r) == FALSE

\* RecvTimeoutError::Timeout; the waiter is removed in a step of its own.
TimesOut(r) ==
    /\ At(r, "waiting") /\ r \notin inbox /\ r \in waiters
    /\ outcome' = [outcome EXCEPT ![r] = "timeout"]
    /\ Goto(r, "expired")
    /\ UNCHANGED <<queueVars, waiters, inbox, linkVars, brokerVars, wire,
                   devicePresent, sock, why>>

RemoveWaiter(r) ==
    /\ At(r, "expired")
    /\ waiters' = waiters \ {r}
    /\ EnterTerminal(r, "timeout")
    /\ UNCHANGED <<queueVars, inbox, outcome, linkVars, brokerVars, wire,
                   devicePresent, sock>>

Request(r) ==
    RegisterWaiter(r) \/ WriteRequest(r) \/ RequestFails(r) \/ ReceiveReply(r)
    \/ Disconnected(r) \/ TimesOut(r) \/ RemoveWaiter(r)

-----------------------------------------------------------------------------
(* abort and close on the control handle; Drop of the transport.           *)

Abort ==
    /\ At("control", "idle")
    /\ EnterTerminal("control", "aborted")
    /\ UNCHANGED <<queueVars, requestVars, linkVars, brokerVars, wire,
                   devicePresent, sock>>

DropTransport ==
    /\ LinkFree
    /\ EnterTerminal("owner", NoReason)
    /\ UNCHANGED <<queueVars, requestVars, linkVars, brokerVars, wire,
                   devicePresent, sock>>

JoinReader ==
    /\ At("owner", "joining") /\ At("reader", "returned")
    /\ Goto("owner", "done")
    /\ UNCHANGED <<queueVars, requestVars, linkVars, brokerVars, wire,
                   devicePresent, sock, why>>

-----------------------------------------------------------------------------
(* The broker.                                                             *)

BrokerSays(frame) ==
    /\ CanWrite /\ ~gone
    /\ toClient' = Append(toClient, frame)
    /\ UNCHANGED <<queueVars, requestVars, linkVars, toBroker, writer,
                   devicePresent, sock, pc, why>>

BrokerPacket ==
    /\ devCredits > 0 /\ script # <<>>
    /\ BrokerSays(Frame("packet", Head(script)))
    /\ devCredits' = devCredits - 1
    /\ script' = Tail(script)
    /\ UNCHANGED <<held, asked, pings, gone>>

\* The device has accepted n packets.
BrokerCredit(n) ==
    /\ n <= held
    /\ BrokerSays(Frame("credit", n))
    /\ held' = held - n
    /\ UNCHANGED <<devCredits, script, asked, pings, gone>>

BrokerAnswer(r) ==
    /\ r \in asked
    /\ \/ r \in Detachers /\ BrokerSays(Frame("detached", r))
       \/ BrokerSays(Frame("reply", r))  \* or an ERROR for this request
    /\ asked' = asked \ {r}
    /\ UNCHANGED <<held, devCredits, script, pings, gone>>

BrokerPing ==
    /\ pings > 0
    /\ BrokerSays(Frame("ping", 0))
    /\ pings' = pings - 1
    /\ UNCHANGED <<held, devCredits, script, asked, gone>>

BrokerGone ==
    /\ BrokerSays(Frame("gone", 0))
    /\ gone' = TRUE
    /\ UNCHANGED <<held, devCredits, script, asked, pings>>

BrokerHangsUp ==
    /\ CanWrite
    /\ sock' = "hungup"
    /\ UNCHANGED <<queueVars, requestVars, linkVars, brokerVars, wire,
                   devicePresent, pc, why>>

BrokerReads ==
    /\ sock # "hungup" /\ toBroker # <<>>
    /\ LET f == Head(toBroker)
       IN  /\ held' = IF f.kind = "packet" THEN held + 1 ELSE held
           /\ devCredits' = IF f.kind = "credit" THEN devCredits + f.value ELSE devCredits
           /\ asked' = IF f.kind = "request" THEN asked \cup {f.value} ELSE asked
    /\ toBroker' = Tail(toBroker)
    /\ UNCHANGED <<queueVars, requestVars, linkVars, script, pings, gone,
                   toClient, writer, devicePresent, sock, pc, why>>

Broker ==
    \/ BrokerPacket \/ BrokerPing \/ BrokerGone \/ BrokerHangsUp \/ BrokerReads
    \/ \E n \in 1 .. HostCredits : BrokerCredit(n)
    \/ \E r \in Requests : BrokerAnswer(r)

-----------------------------------------------------------------------------

Init ==
    /\ packets = <<>> /\ closed = FALSE /\ error = NoReason
    /\ hostCredits = HostCredits
    /\ waiters = {} /\ inbox = {}
    /\ outcome = [r \in Requests |-> "none"]
    /\ devicePresent = TRUE /\ sock = "open"
    /\ toBroker = <<>> /\ toClient = <<>> /\ writer = Nobody
    /\ why = [t \in Threads |-> NoReason]
    /\ holding = 0 /\ delivered = <<>>
    /\ held = 0 /\ devCredits = QueueLimit /\ asked = {} /\ gone = FALSE
    /\ \E load \in Workloads :
        /\ script = [i \in 1 .. load.packets |-> i]
        /\ toSend = load.sends
        /\ pings = load.pings
        /\ pc = [t \in Threads |-> CASE t = "reader" -> "reading"
                                     [] t \in Requests \ load.callers -> "done"
                                     [] OTHER -> "idle"]

Terminal(t) == MarkAbsent(t) \/ MarkClosed(t) \/ ClearWaiters(t) \/ ShutSocket(t)

Next ==
    \/ Reader \/ Link \/ Broker
    \/ \E r \in Requests : CheckOpen(r) \/ Request(r)
    \/ \E t \in Threads : Terminal(t) \/ WriteWaits(t)
    \/ Abort \/ DropTransport \/ JoinReader

Spec == Init /\ [][Next]_vars

\* Every thread of this process goes on, and the clock of a request does; the
\* broker need never do anything, and never read what was written to it.
Fairness ==
    /\ WF_vars(Reader) /\ WF_vars(WritePacket \/ WriteCredit) /\ WF_vars(JoinReader)
    /\ \A r \in Requests : WF_vars(Request(r))
    /\ \A t \in Threads : WF_vars(Terminal(t))

FairSpec == Spec /\ Fairness

-----------------------------------------------------------------------------

CountOf(frames, kind) == Cardinality({i \in DOMAIN frames : frames[i].kind = kind})
CreditIn(frames) ==
    Cardinality({c \in (DOMAIN frames) \X (1 .. HostCredits) :
                    frames[c[1]].kind = "credit" /\ c[2] <= frames[c[1]].value})
InHand(here) == IF pc["link"] = here THEN 1 ELSE 0

\* Every credit is somewhere exactly once while the socket is up.  Those send
\* takes and add_host_credit puts back: in host_credits, in the link's hand,
\* with a packet under way or held by the broker, or on their way back.  Those
\* recv gives back, one for each packet it takes out: the device always has
\* exactly the room that is left in the queue.
CreditsConserved ==
    sock = "open" =>
        /\ hostCredits + InHand("sending") + CountOf(toBroker, "packet") + held
             + CreditIn(toClient) = HostCredits
        /\ Len(packets) + InHand("crediting") + CountOf(toClient, "packet")
             + devCredits + CreditIn(toBroker) = QueueLimit

\* The packet stream: push_packet and add_host_credit refuse what exceeds a limit
\* and end the session, but never refuse a broker that keeps to its credits;
\* try_take_host_credit has no more packets under way than the guest has read
\* buffers, whatever the broker would accept (src/bridge_transport.rs:34); and
\* the packets recv returns are the device's, in order and with none missing,
\* although recv drops a packet whose credit it cannot write.
FlowIsSound ==
    /\ why["reader"] \notin {"overrun", "overcredit"}
    /\ CountOf(toBroker, "packet") + held + InHand("sending") <= MaxInFlight
    /\ \A i \in DOMAIN delivered : delivered[i] = i

\* handle_packet_frame ends the session over a reply nobody waits for: an
\* honest broker is accused of that only after this side has given up on a
\* request or on the session.
BlameOnlyAfterGivingUp ==
    why["reader"] = "unsolicited" =>
        closed \/ \E r \in Requests : outcome[r] = "timeout"

\* DETACHED is handed to its request before mark_terminal clears the waiters:
\* a detach that succeeded is not reported as a closed stream.
DetachIsHeard ==
    why["reader"] = "detached" =>
        \E r \in Detachers : r \in inbox /\ outcome[r] # "disconnected"

\* Nothing can be written until the broker reads or one side ends the stream.
SocketFull == CanWrite /\ ~Room

\* send_request returns: with its reply, because the session ended, or on its
\* timeout, also when it registered after mark_terminal had cleared the waiters
\* and nobody is left to answer.  The timeout runs from the written request on:
\* the one thing that keeps the caller for ever is a socket that the broker
\* leaves full, where the request, or a frame before it, waits in write_all.
RequestReturns ==
    <>[]SocketFull \/ \A r \in Requests : At(r, "checked") ~> At(r, "done")

\* Drop returns: it gets the writer mutex from whoever is writing, and the reader
\* thread it joins sees the socket shut.  Again only a socket that the broker
\* leaves full prevents it: the write that waits there keeps the mutex.
DropReturns ==
    <>[]SocketFull \/ (At("owner", "terminal") ~> At("owner", "done"))

\* What the comment on try_take_host_credit says of send: the thread that holds
\* the link does not wait for the transport there, it is let go whatever the
\* broker does.
LinkIsLetGo == At("link", "sending") ~> At("link", "idle")
=============================================================================
