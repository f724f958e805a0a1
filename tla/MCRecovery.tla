----------------------------- MODULE MCRecovery -----------------------------
EXTENDS RecoverySession

MCWorkloads ==
    {[kit |-> FALSE, keys |-> 4, moves |-> 0],
     [kit |-> TRUE, keys |-> 4, moves |-> 0],
     [kit |-> TRUE, keys |-> 2, moves |-> 2]}
=============================================================================
