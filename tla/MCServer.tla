------------------------------ MODULE MCServer ------------------------------
(* Instances of Server for TLC. A behaviour has one scene, which says what  *)
(* goes on around the server; "item" is a file of the queue and no server.  *)
EXTENDS Server, TLC

CONSTANTS q1, t1, t2, u1, u2, p1, c1, s1

VARIABLE scene

allVars == <<userVars, serverVars>>

MCValue == Databases
Cmd(u, e) == [user |-> u, entry |-> e]
MCCommand == {Cmd(u1, p1), Cmd(u1, NoUser), Cmd(u2, Denied)}
MCDovecot == u1 :> NoUser @@ u2 :> p1
MCPaths == [userdb |-> <<"u">>, client |-> <<"c", "d">>]

Users1 == u1 :> p1 @@ u2 :> NoUser

NoSessions == auth = [s \in Session |-> NoAuth] /\ moves = 0
NoFlaws == broken = 0 /\ flaws = {}
NoSignals == signalled = 0
NoCalls == calls = 0
NoCommands == commands = 0

\* What a scene leaves out.
In(x) ==
    CASE x = "users"    -> NoSessions /\ NoFlaws /\ NoSignals /\ NoCalls
      [] x = "signals"  -> NoSessions /\ NoFlaws /\ NoCalls /\ commands + faults <= 1
      [] x = "flaws"    -> NoSessions /\ NoCommands /\ NoCalls /\ signalled <= 1
      [] x = "sessions" -> NoFlaws /\ NoSignals /\ NoCalls /\ commands + faults + moves <= 1
      [] x = "rpc"      -> NoSessions /\ NoCommands /\ broken + signalled <= 1
      [] OTHER          -> TRUE

\* Commands are given around the moment when main loads the database, or later.
Begins == commands' # commands =>
            main = "up" \/ (main = "domains" /\ scene # "sessions")

ItemNext ==
    /\ FilesNext
    /\ \A t \in Tool : wr'[t] = wr[t]
    /\ wr'[q1].data \in {Idle, Users1, NoUsers}
    /\ UNCHANGED <<serverVars, tool, commands, want, overlap, mem, rl, dovecotVars,
                   addr, auth, seen>>

MCInit ==
    /\ scene \in {"users", "signals", "flaws", "sessions", "rpc", "item"}
    /\ ServerInit
    /\ file \in {Absent, Users1}
    /\ fallback => scene = "sessions"
    /\ live \in {{}, {"u", "d"}} /\ (live # {} => fallback)
    /\ scene = "sessions" => file = Users1
    /\ scene \notin {"flaws", "rpc"} => flaws = {}

MCNext == /\ UNCHANGED scene
          /\ \/ scene # "item" /\ ServerNext /\ In(scene)' /\ Begins
             \/ scene = "item" /\ ItemNext

MCSpec == MCInit /\ [][MCNext]_<<allVars, scene>> /\ ServerFairness
============================================================================
