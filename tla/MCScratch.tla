------------------------------ MODULE MCScratch ------------------------------
(***************************************************************************)
(* Two runs of the program.  With one name every step can be the one its   *)
(* process dies in, three times over; with two a process holds one         *)
(* directory while it, or the other one, sweeps and makes the next.        *)
(***************************************************************************)
EXTENDS Scratch

CONSTANTS d1, d2

MCDirs == {d1, d2}
MCWorkloads == {[names |-> {d1}, crashes |-> 3], [names |-> {d1, d2}, crashes |-> 1]}

=============================================================================
