--------------------------- MODULE MCMuxDelivery ----------------------------
(* MuxDelivery on a small instance: the device only reads and acknowledges. *)
EXTENDS MuxDelivery

MCWorkloads ==
    {[written |-> 3, devBytes |-> 0, devShuts |-> FALSE, devCredits |-> 1, strays |-> 1]}
=============================================================================
