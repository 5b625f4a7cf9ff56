----------------------------- MODULE AtomicFile -----------------------------
(***************************************************************************)
(* What safeio.WriteFile promises of a file: a call either replaces the      *)
(* contents by the whole of its data, in one step, or changes nothing. A     *)
(* power failure may bring back contents that were not on the disk yet, but  *)
(* nothing that no call wrote.                                               *)
(***************************************************************************)
CONSTANTS Writer, Value, Absent, Idle

VARIABLES content,   \* what a reader of the file finds
          lasting,   \* what it may find after a power failure
          call       \* the data of the calls that have not returned

atomicVars == <<content, lasting, call>>

Init == /\ content \in Value \cup {Absent}
        /\ lasting = {content}
        /\ call = [w \in Writer |-> Idle]

Call(w, v) == /\ call[w] = Idle
              /\ call' = [call EXCEPT ![w] = v]
              /\ UNCHANGED <<content, lasting>>

Replace(w) == /\ call[w] # Idle
              /\ content' = call[w]
              /\ lasting' = lasting \cup {call[w]}
              /\ call' = [call EXCEPT ![w] = Idle]

\* The call returns an error, or its process ends.
GiveUp(w) == /\ call[w] # Idle
             /\ call' = [call EXCEPT ![w] = Idle]
             /\ UNCHANGED <<content, lasting>>

\* The system writes the directory back to the disk.
Settle == lasting' = {content} /\ UNCHANGED <<content, call>>

PowerFailure == /\ content' \in lasting
                /\ lasting' = {content'}
                /\ call' = [w \in Writer |-> Idle]

Next == \/ Settle \/ PowerFailure
        \/ \E w \in Writer : Replace(w) \/ GiveUp(w) \/ \E v \in Value : Call(w, v)

Spec == Init /\ [][Next]_atomicVars
============================================================================
