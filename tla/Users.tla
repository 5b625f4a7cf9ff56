-------------------------------- MODULE Users --------------------------------
(***************************************************************************)
(* The user database of a domain and who uses it: chasquid-util, which loads *)
(* it, changes a user and writes all of it back with WriteFile; the server,  *)
(* which loads it again now and then (internal/userdb); and the sessions,    *)
(* which authenticate clients and look for recipients (internal/auth), with  *)
(* Dovecot (internal/dovecot) behind it.                                     *)
(***************************************************************************)
EXTENDS Files, Sequences

CONSTANTS User, Password,
          Denied,       \* the user may only receive mail
          NoUser,
          Tool,         \* the processes of chasquid-util
          Command,      \* what they are asked to do
          MaxCommands,
          Reloader,     \* the goroutines of the server that call Reload
          Session,
          Paths,        \* where the two sockets of Dovecot are looked for
          DovecotUsers, \* what Dovecot knows
          MaxMoves      \* bound on the changes of its sockets

Databases == [User -> Password \cup {Denied, NoUser}]
NoUsers == [u \in User |-> NoUser]

ASSUME UsersAssumption ==
    /\ Tool \subseteq Writer \ Fsync
    /\ Databases \subseteq Value /\ DovecotUsers \in Databases
    /\ \A c \in Command : c.user \in User /\ c.entry \in Password \cup {Denied, NoUser}
    /\ MaxCommands \in Nat /\ MaxMoves \in Nat

VARIABLES tool,      \* the processes of chasquid-util
          commands,  \* how many there were
          mem,       \* the database of the server
          rl,        \* the calls of Reload
          fallback,  \* the configuration has dovecot_auth
          live,      \* the sockets of Dovecot that answer
          moves,
          addr,      \* the sockets that getAddrs found
          auth,      \* the calls of Authenticate and Exists
          (* What happened; no guard reads it. *)
          want,      \* the database after the commands that succeeded
          overlap,   \* two of them ran at the same time
          seen       \* what has been the right answer since a call began

toolVars == <<fileVars, tool, commands, want, overlap>>
dovecotVars == <<fallback, live, moves>>
userVars == <<toolVars, mem, rl, dovecotVars, addr, auth, seen>>

Kind == {"userdb", "client"}
NoAddr == [k \in Kind |-> Idle]
Sockets == UNION {{Paths[k][i] : i \in DOMAIN Paths[k]} : k \in Kind}
NoTool == [pc |-> "idle", cmd |-> Idle, db |-> NoUsers]
NoAuth == [pc |-> "idle", op |-> "none", user |-> Idle, passwd |-> Idle, ok |-> "none"]

\* Load of userdb: a file that does not exist, or is empty, has no users.
Load(f) == IF f \in {Absent, Torn} THEN NoUsers ELSE f

UsersInit ==
    /\ FilesInit
    /\ tool = [w \in Tool |-> NoTool] /\ commands = 0
    /\ mem = NoUsers
    /\ rl = [r \in Reloader |-> [pc |-> "idle", db |-> NoUsers]]
    /\ fallback \in BOOLEAN /\ live \in SUBSET Sockets /\ moves = 0
    /\ addr = NoAddr
    /\ auth = [s \in Session |-> NoAuth]
    /\ want = Load(file) /\ overlap = FALSE
    /\ seen = [s \in Session |-> {}]

----------------------------------------------------------------------------
(* chasquid-util user-add and user-remove *)
userDBFromArgs(w, c) ==
    /\ tool[w].pc = "idle" /\ commands < MaxCommands
    /\ commands' = commands + 1
    /\ tool' = [tool EXCEPT ![w] = [pc |-> "loaded", cmd |-> c, db |-> Load(file)]]
    /\ overlap' = (overlap \/ \E x \in Tool : tool[x].pc # "idle")
    /\ UNCHANGED <<fileVars, want>>

\* AddUser, AddDeniedUser and RemoveUser.
Changed(db, c) == [db EXCEPT ![c.user] = c.entry]

\* A user to be removed has to be there.
Unknown(db, c) == c.entry = NoUser /\ db[c.user] = NoUser

userChange(w) ==
    /\ tool[w].pc = "loaded"
    /\ IF Unknown(tool[w].db, tool[w].cmd)
       THEN tool' = [tool EXCEPT ![w] = NoTool] /\ UNCHANGED fileVars
       ELSE /\ tool' = [tool EXCEPT ![w].pc = "writing"]
            /\ WriteFile(w, Changed(tool[w].db, tool[w].cmd))
    /\ UNCHANGED <<commands, want, overlap>>

\* DB.Write.
dbWrite(w) ==
    /\ tool[w].pc = "writing"
    /\ \/ (SystemCall(w) \/ Fail(w)) /\ UNCHANGED <<tool, want>>
       \/ /\ Rename(w) /\ want' = Changed(want, tool[w].cmd)
          /\ UNCHANGED tool
       \/ /\ Return(w) /\ tool' = [tool EXCEPT ![w] = NoTool]
          /\ UNCHANGED want
    /\ UNCHANGED <<commands, overlap>>

\* Somebody stops the tool.
interrupt(w) ==
    /\ Killed(w) /\ tool' = [tool EXCEPT ![w] = NoTool]
    /\ UNCHANGED <<commands, want, overlap>>

ToolNext == \E w \in Tool : \/ userChange(w) \/ dbWrite(w) \/ interrupt(w)
                            \/ \E c \in Command : userDBFromArgs(w, c)

----------------------------------------------------------------------------
(* DB.Reload of the server: the file is read, then the database replaced. *)
ReloadRead(r) ==
    /\ rl[r].pc = "users"
    /\ rl' = [rl EXCEPT ![r] = [pc |-> "read", db |-> Load(file)]]

\* Mutant: what was there stays.
ReloadSwap_Kept(r) ==
    /\ rl[r].pc = "read"
    /\ mem' = IF mem = NoUsers THEN rl[r].db ELSE mem
    /\ rl' = [rl EXCEPT ![r] = [pc |-> "idle", db |-> NoUsers]]
ReloadSwap(r) ==
    /\ rl[r].pc = "read"
    /\ mem' = rl[r].db
    /\ rl' = [rl EXCEPT ![r] = [pc |-> "idle", db |-> NoUsers]]

----------------------------------------------------------------------------
(* Authenticator.Authenticate and Exists *)
Goes(s, pc) == auth' = [auth EXCEPT ![s].pc = pc]
Answers(s, ok) == auth' = [auth EXCEPT ![s].pc = "delay", ![s].ok = ok]

PasswordMatches(entry, p) == entry \notin {Denied, NoUser} /\ entry = p

\* What a database says to a call.
Says(db, a) == IF a.op = "auth" THEN PasswordMatches(db[a.user], a.passwd)
                                ELSE db[a.user] # NoUser
Verdict(db, a) == IF Says(db, a) THEN "yes" ELSE "no"

Ask(s, op, u, p) ==
    /\ auth[s].pc \in {"idle", "returned"}
    /\ auth' = [auth EXCEPT ![s] = [pc |-> "backend", op |-> op, user |-> u,
                                    passwd |-> p, ok |-> "none"]]
    /\ UNCHANGED addr

Backend(s) ==
    /\ auth[s].pc = "backend"
    /\ IF Says(mem, auth[s]) \/ ~fallback THEN Answers(s, Verdict(mem, auth[s]))
                                          ELSE Goes(s, "addrs")
    /\ UNCHANGED addr

\* The first of the paths that can be dialled.
Find(k) == LET at == {i \in DOMAIN Paths[k] : Paths[k][i] \in live}
           IN  IF at = {} THEN Idle ELSE Paths[k][CHOOSE i \in at : \A j \in at : i <= j]

\* What was found before is not looked for again, and without the socket for
\* users the other is not looked for.
getAddrs ==
    LET u == IF addr["userdb"] = Idle THEN Find("userdb") ELSE addr["userdb"]
        c == IF addr["client"] = Idle /\ u # Idle THEN Find("client") ELSE addr["client"]
    IN  [userdb |-> u, client |-> c]

\* Dovecot's Authenticate and Exists.
Addrs(s) ==
    /\ auth[s].pc = "addrs"
    /\ addr' = getAddrs
    /\ IF Idle \in {addr'[k] : k \in Kind} THEN Answers(s, "error") ELSE Goes(s, "dial")

Socket(s) == addr[IF auth[s].op = "auth" THEN "client" ELSE "userdb"]

\* Mutant: no answer counts as a refusal.
Reply_No(s, answered) ==
    IF answered THEN Verdict(DovecotUsers, auth[s]) ELSE "no"
Reply(s, answered) ==
    IF answered THEN Verdict(DovecotUsers, auth[s]) ELSE "error"

\* The dial, the handshake, the request and its answer. They have a timeout,
\* and may fail at any point.
Exchange(s) ==
    /\ auth[s].pc = "dial"
    /\ \/ Socket(s) \in live /\ Answers(s, Reply(s, TRUE))
       \/ Answers(s, Reply(s, FALSE))
    /\ UNCHANGED addr

\* The deferred delay, and the return.
AuthReturn(s) ==
    /\ auth[s].pc = "delay" /\ Goes(s, "returned")
    /\ UNCHANGED addr

AuthStep(s) == Backend(s) \/ Addrs(s) \/ Exchange(s) \/ AuthReturn(s)

\* Dovecot starts, stops, or has its sockets elsewhere.
DovecotMoves ==
    /\ moves < MaxMoves /\ moves' = moves + 1
    /\ \E l \in SUBSET Sockets : l # live /\ live' = l
    /\ UNCHANGED fallback

----------------------------------------------------------------------------
Correct(a) == Says(mem, a) \/ (fallback /\ Says(DovecotUsers, a))

\* Every step notes what the right answer is after it.
Watch == seen' = [s \in Session |->
            IF auth'[s].pc \in {"idle", "delay", "returned"} THEN seen[s]
            ELSE (IF auth'[s].pc = "backend" /\ auth[s].pc # "backend" THEN {} ELSE seen[s])
                 \cup {Correct(auth[s])'}]

(* Authenticate and Exists (auth.go): the answer was the right one at some   *)
(* moment of the call, for the database of the server and Dovecot together,  *)
(* however often the database is replaced meanwhile; and when Dovecot does   *)
(* not answer, or has moved its sockets, the caller gets an error and never  *)
(* a refusal.                                                                *)
AuthAnswer ==
    \A s \in Session : auth[s].pc = "returned" =>
        /\ auth[s].ok = "yes" => TRUE \in seen[s]
        /\ auth[s].ok = "no" => FALSE \in seen[s]
============================================================================
