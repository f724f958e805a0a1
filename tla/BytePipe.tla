------------------------------ MODULE BytePipe ------------------------------
(***************************************************************************)
(* What one direction of a mux stream promises its two ends: the bytes     *)
(* accepted from the writer come out in order, each once, and end-of-file  *)
(* is seen only after the last of them.  A byte is its position.           *)
(***************************************************************************)
EXTENDS Naturals, Sequences

CONSTANT MaxSent  \* bound: bytes one direction carries

VARIABLES
    sent,  \* bytes accepted from the writer
    shut,  \* the writer has said there will be no more
    got,   \* bytes handed to the reader
    eof    \* the reader has been told there are no more

pipeVars == <<sent, shut, got, eof>>

PipeInit == sent = 0 /\ shut = FALSE /\ got = <<>> /\ eof = FALSE

Accept == /\ ~shut
          /\ sent' \in sent + 1 .. MaxSent
          /\ UNCHANGED <<shut, got, eof>>

Shut == shut' = TRUE /\ UNCHANGED <<sent, got, eof>>

\* The last bytes may come together with the end of file.
Deliver == \E n \in 0 .. sent - Len(got) :
              /\ got' = got \o [i \in 1 .. n |-> Len(got) + i]
              /\ eof' \in {eof} \cup {shut /\ Len(got) + n = sent}
              /\ UNCHANGED <<sent, shut>>

PipeNext == Accept \/ Shut \/ Deliver

PipeSpec == PipeInit /\ [][PipeNext]_pipeVars
=============================================================================
