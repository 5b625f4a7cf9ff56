------------------------------ MODULE MCSession ------------------------------
(* A session, or one of the jobs of MCText, as the job says.  The session   *)
(* of the other jobs ends with the greeting, before they begin.             *)
EXTENDS MCConn, MCText

MCInit == /\ TextInit /\ Init
          /\ job # "session" => mode = ModeSMTP

GreetFails == job # "session" /\ Greet /\ pc' = "closed"

Serve == GreetFails \/ (job = "session" /\ Handle)

MCNext == \/ (Serve \/ (job = "session" /\ Deadline)) /\ UNCHANGED textVars
          \/ pc = "closed" /\ TextNext /\ UNCHANGED vars

\* No step of the resolver leaves tx as it is.
MCSpec == /\ MCInit /\ [][MCNext]_<<vars, textVars>>
          /\ WF_vars(Serve) /\ WF_vars(job = "session" /\ Deadline)
          /\ \A c \in Caller : WF_tx(job = "aliases" /\ pc = "closed" /\ Step(c))
=============================================================================
