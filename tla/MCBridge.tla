------------------------------ MODULE MCBridge ------------------------------
(* Instances of BridgeTransport for TLC.  Packets, requests and pings meet in  *)
(* the socket, in the writer mutex and in the end of the session: each         *)
(* workload brings together two of them.                                       *)
EXTENDS BridgeTransport

Inbound == [packets |-> 3, sends |-> 1, pings |-> 0, callers |-> {}]
Outbound == [packets |-> 1, sends |-> 3, pings |-> 0, callers |-> {}]
SendAndRequest == [packets |-> 0, sends |-> 1, pings |-> 0, callers |-> Requests]
PingAndRequest == [packets |-> 0, sends |-> 0, pings |-> 1, callers |-> Requests]

EveryLoad == {Inbound, Outbound, SendAndRequest, PingAndRequest}
JustSends == {[packets |-> 0, sends |-> 2, pings |-> 0, callers |-> {}]}
=============================================================================
