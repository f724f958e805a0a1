----------------------------- MODULE MCMuxLink -----------------------------
(* Instances of MuxLink for TLC; the threads that dial are interchangeable. *)
EXTENDS MuxLink, TLC

DialerSymmetry == Permutations(Dialers)

\* A fresh port for every dial, with a restart and a loss; a port that comes
\* round, with a loss; both ports coming round.
Restart == [dials |-> 2, data |-> 1, restarts |-> 1, losses |-> 1]
PortAgain == [dials |-> 3, data |-> 1, restarts |-> 0, losses |-> 1]
PortsAgain == [dials |-> 4, data |-> 0, restarts |-> 0, losses |-> 0]
RestartAndPorts == {Restart, PortAgain, PortsAgain}
============================================================================
