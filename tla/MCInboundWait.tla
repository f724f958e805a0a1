--------------------------- MODULE MCInboundWait ---------------------------
(* Instances of InboundWait for TLC; the constants come from the configs.  *)
EXTENDS InboundWait
============================================================================
