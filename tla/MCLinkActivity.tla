--------------------------- MODULE MCLinkActivity ---------------------------
(* Instances of LinkActivity for TLC; the threads are interchangeable.     *)
EXTENDS LinkActivity, TLC

ThreadSymmetry == Permutations(Users)
=============================================================================
