------------------------------ MODULE MCQueue ------------------------------
(* Instances of Queue for TLC. Recipients are alike except for the pipe.   *)
EXTENDS Queue, TLC

Symmetry == Permutations(Mail) \cup Permutations(Notice) \cup Permutations(Conn)
            \cup Permutations(Rcpt \ Pipe)

\* Two messages when nothing fails, and one when something does.
Posted == {i \in Mail : from[i] # "unset"}
OneAtATime == crashes + faults > 0 => Cardinality(Posted) <= 1
=============================================================================
