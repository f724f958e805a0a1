----------------------------- MODULE MCMuxPair ------------------------------
(***************************************************************************)
(* MuxPair on a small instance.  In the first workload both sides write    *)
(* and shut, over one packet each way at a time; in the second only the    *)
(* host writes, more than a window, and the device resets the session or   *)
(* sends a segment against the protocol.                                   *)
(***************************************************************************)
EXTENDS MuxPair

MCWorkloads ==
    {[written |-> 2, devBytes |-> 2, devShuts |-> TRUE, devCredits |-> 1, strays |-> 0],
     [written |-> 3, devBytes |-> 0, devShuts |-> FALSE, devCredits |-> 2, strays |-> 1]}
=============================================================================
