------------------------------- MODULE Server -------------------------------
(***************************************************************************)
(* The process (chasquid.go, internal/smtpsrv/server.go): what main sets up  *)
(* and in which order, the goroutines it starts, signals, the two kinds of   *)
(* reload, and the RPC server for chasquid-util (internal/localrpc). The     *)
(* service manager starts the process again whenever it ends.                *)
(***************************************************************************)
EXTENDS Users

CONSTANTS Client,       \* the callers of the RPC server
          Flaw,         \* what may be wrong with the configuration
          MaxFlaws, MaxSignals, MaxCrashes, MaxCalls

\* "no certs" is a directory without the files of a certificate, which is
\* skipped; "port" is an address that cannot be listened on.
Flaws == {"config", "log", "maillog", "certs", "no certs", "users", "aliases", "dkim",
          "dinfo", "sts", "queue", "address", "port", "rpc"}
Methods == {"AliasResolve", "DomaininfoClear"}

ASSUME ServerAssumption ==
    /\ Flaw \subseteq Flaws
    /\ Reloader = {"signal", "tick"}
    /\ {MaxFlaws, MaxSignals, MaxCrashes, MaxCalls} \subseteq Nat

VARIABLES main,      \* where main is
          loaded,    \* the parts of the server that are set up
          notified,  \* signal.Notify was called
          signals,   \* the channel of signalHandler
          handler,   \* where signalHandler is
          ticking,   \* periodicallyReload runs
          rpcServer, \* where ListenAndServe of localrpc is
          handlers,  \* its methods
          rpc,       \* the calls of its clients
          flaws,     \* what is wrong with the configuration
          broken, signalled, crashes, calls,  \* how often that happened
          (* What happened; no guard reads it. *)
          asked      \* the last SIGHUP that no complete reload has followed

procVars == <<main, loaded, notified, signals, handler, ticking, rpcServer, handlers, asked>>
boundVars == <<broken, signalled, crashes, calls>>
serverVars == <<procVars, rpc, flaws, boundVars>>

Up == main # "down"
Serving == main \in {"serving", "up"}
NoRpc == [pc |-> "idle", name |-> "none", got |-> "none"]

ServerInit ==
    /\ UsersInit
    /\ main = "down" /\ loaded = {}
    /\ notified = FALSE /\ signals = "none" /\ handler = "off" /\ ticking = FALSE
    /\ rpcServer = "off" /\ handlers = {} /\ rpc = [c \in Client |-> NoRpc]
    /\ flaws \in {{}} \cup {{f} : f \in Flaw}
    /\ broken = 0 /\ signalled = 0 /\ crashes = 0 /\ calls = 0
    /\ asked = "no"

\* The process ends. Its connections are closed.
Exit ==
    /\ main' = "down" /\ loaded' = {}
    /\ notified' = FALSE /\ signals' = "none" /\ handler' = "off" /\ ticking' = FALSE
    /\ rpcServer' = "off" /\ handlers' = {}
    /\ rpc' = [c \in Client |-> IF rpc[c].pc \in {"sent", "handler"}
                                THEN [rpc[c] EXCEPT !.pc = "closed"] ELSE rpc[c]]
    /\ asked' = "no"
    /\ mem' = NoUsers /\ addr' = NoAddr
    /\ rl' = [r \in Reloader |-> [pc |-> "idle", db |-> NoUsers]]
    /\ auth' = [s \in Session |-> NoAuth]

\* log.Fatalf if one of these is flawed.
Fatal(fs) == fs \cap flaws # {} /\ Exit

Set(part) == loaded' = loaded \cup {part}
Goroutines == UNCHANGED <<notified, signals, handler, ticking, rpcServer, handlers,
                          rpc, asked, rl, auth>>
OnlyMain == Goroutines /\ UNCHANGED <<mem, addr>>

----------------------------------------------------------------------------
(* main *)
At1(pc, next) == main = pc /\ main' = next
Sets(pc, next, fs, part) ==
    /\ main = pc
    /\ \/ Fatal(fs)
       \/ fs \cap flaws = {} /\ At1(pc, next) /\ Set(part) /\ OnlyMain

\* The service manager starts the process again.
Start == At1("down", "config") /\ OnlyMain /\ UNCHANGED loaded

\* config.Load and Chdir.
loadConfig == Sets("config", "maillog", {"config"}, "config")
initMailLog == Sets("maillog", "dovecot", {"maillog"}, "maillog")

\* An error of Check is only logged.
loadDovecot ==
    /\ At1("dovecot", "certs")
    /\ addr' = IF fallback THEN getAddrs ELSE addr
    /\ Goroutines /\ UNCHANGED <<loaded, mem>>

loadCert ==
    /\ main = "certs"
    /\ \/ Fatal({"certs"})
       \/ /\ "certs" \notin flaws /\ At1("certs", "domains")
          /\ IF "no certs" \in flaws THEN UNCHANGED loaded ELSE Set("certs")
          /\ OnlyMain

\* Mutant: errors of DKIM keys are not fatal.
loadDKIM_Logged == FALSE
\* loadDKIM and AddDKIMSigner fail.
loadDKIM == "dkim" \in flaws

loadDomain ==
    /\ main = "domains"
    /\ \/ Fatal({"users", "aliases"}) \/ (loadDKIM /\ Exit)
       \/ /\ {"users", "aliases"} \cap flaws = {} /\ ~loadDKIM
          /\ At1("domains", "dinfo")
          /\ loaded' = loaded \cup {"users", "aliases"} \cup ({"dkim"} \ flaws)
          /\ mem' = Load(file)
          /\ Goroutines /\ UNCHANGED addr

openDomaininfo == Sets("dinfo", "sts", {"dinfo"}, "dinfo")
openSTS == Sets("sts", "queue", {"sts"}, "sts")
InitQueue == Sets("queue", "limits", {"queue"}, "queue")
SetQueueLimits == Sets("limits", "addresses", {}, "limits")
loadAddresses == Sets("addresses", "rpc", {"address"}, "addresses")

\* go localrpc.DefaultServer.ListenAndServe, go signalHandler
startGoroutines ==
    /\ At1("rpc", "listen")
    /\ rpcServer' = "starting" /\ handler' = "starting"
    /\ UNCHANGED <<loaded, notified, signals, ticking, handlers, rpc, asked, rl, auth, mem, addr>>

\* ListenAndServe, up to the first Register.
checkCerts ==
    /\ main = "listen"
    /\ \/ "certs" \notin loaded /\ Exit
       \/ /\ "certs" \in loaded /\ At1("listen", "AliasResolve")
          /\ OnlyMain /\ UNCHANGED loaded

\* In these states main is writing the map of handlers.
Register(name, next) ==
    /\ At1(name, next)
    /\ handlers' = handlers \cup {name}
    /\ UNCHANGED <<loaded, notified, signals, handler, ticking, rpcServer, rpc, asked,
                   rl, auth, mem, addr>>

goReload ==
    /\ At1("tick", "first")
    /\ ticking' = TRUE
    /\ UNCHANGED <<loaded, notified, signals, handler, rpcServer, handlers, rpc, asked,
                   rl, auth, mem, addr>>

\* Connections are accepted while the next address is still to be opened.
listen(pc, next) ==
    /\ main = pc
    /\ \/ Fatal({"port"})
       \/ "port" \notin flaws /\ At1(pc, next) /\ OnlyMain /\ UNCHANGED loaded

MainStep ==
    \/ Start \/ loadConfig \/ initMailLog \/ loadDovecot \/ loadCert \/ loadDomain
    \/ openDomaininfo \/ openSTS \/ InitQueue \/ SetQueueLimits \/ loadAddresses
    \/ startGoroutines \/ checkCerts
    \/ Register("AliasResolve", "DomaininfoClear") \/ Register("DomaininfoClear", "tick")
    \/ goReload \/ listen("first", "serving") \/ listen("serving", "up")

----------------------------------------------------------------------------
(* Signals and reloads *)
ProcRest == UNCHANGED <<main, loaded, ticking, rpcServer, handlers, rpc, mem, addr, auth>>

Notify ==
    /\ handler = "starting" /\ handler' = "wait" /\ notified' = TRUE
    /\ ProcRest /\ UNCHANGED <<signals, asked, rl>>

\* Mutant: the channel has no buffer.
Delivered_Unbuffered(sig) == IF handler = "wait" /\ signals = "none" THEN sig ELSE signals
\* Notify does not block: a signal that finds the channel full is dropped.
Delivered(sig) == IF signals = "none" THEN sig ELSE signals

\* Before Notify, both signals end the process.
Signal(sig) ==
    /\ Up /\ signalled < MaxSignals /\ signalled' = signalled + 1
    /\ \/ ~notified /\ Exit
       \/ /\ notified /\ signals' = Delivered(sig)
          /\ asked' = IF sig = "TERM" THEN asked
                      ELSE IF asked \in {"begun", "again"} THEN "again" ELSE "asked"
          /\ ProcRest /\ UNCHANGED <<notified, handler, rl>>

HandlerTakes ==
    /\ handler = "wait" /\ signals # "none"
    /\ \/ signals = "TERM" /\ Exit
       \/ /\ signals = "HUP" /\ signals' = "none" /\ handler' = "reopen"
          /\ asked' = "begun"
          /\ ProcRest /\ UNCHANGED <<notified, rl>>

\* A call of Server.Reload, up to the end of the aliases.
ReloadAliases(r) == rl' = [rl EXCEPT ![r].pc = "users"]

\* The logs are opened again and domaininfo is loaded, then Reload is called.
HandlerReopens ==
    /\ handler = "reopen"
    /\ \/ Fatal({"log", "maillog", "dinfo", "aliases"})
       \/ /\ {"log", "maillog", "dinfo", "aliases"} \cap flaws = {}
          /\ handler' = "reload" /\ ReloadAliases("signal")
          /\ ProcRest /\ UNCHANGED <<notified, signals, asked>>

periodicallyReload ==
    /\ ticking /\ rl["tick"].pc = "idle"
    /\ \/ Fatal({"aliases"})
       \/ /\ "aliases" \notin flaws /\ ReloadAliases("tick")
          /\ ProcRest /\ UNCHANGED <<notified, signals, handler, asked>>

ReloadUsers(r) ==
    /\ rl[r].pc = "users"
    /\ \/ Fatal({"users"})
       \/ /\ "users" \notin flaws /\ ReloadRead(r)
          /\ ProcRest /\ UNCHANGED <<notified, signals, handler, asked>>

\* Reload returns, and the signal handler to its loop.
ReloadEnds(r) ==
    /\ ReloadSwap(r)
    /\ handler' = IF r = "signal" THEN "wait" ELSE handler
    /\ asked' = IF r # "signal" THEN asked ELSE IF asked = "again" THEN "asked" ELSE "no"
    /\ UNCHANGED <<main, loaded, ticking, rpcServer, handlers, rpc, addr, auth,
                   notified, signals>>

HandlerStep == Notify \/ HandlerTakes \/ HandlerReopens
               \/ ReloadUsers("signal") \/ ReloadEnds("signal")
TickStep == periodicallyReload \/ ReloadUsers("tick") \/ ReloadEnds("tick")

----------------------------------------------------------------------------
(* localrpc *)
RpcRest == UNCHANGED <<main, loaded, notified, signals, handler, ticking, handlers, asked,
                       mem, addr, rl, auth>>
Ends(c, pc, got) == rpc' = [rpc EXCEPT ![c].pc = pc, ![c].got = got]

\* An error of Listen is returned to nobody.
RpcListen ==
    /\ rpcServer = "starting"
    /\ rpcServer' = IF "rpc" \in flaws THEN "failed" ELSE "up"
    /\ RpcRest /\ UNCHANGED rpc

\* Client.Call: the dial and the request.
Call(c, name) ==
    /\ rpc[c].pc \in {"idle", "returned"} /\ calls < MaxCalls /\ calls' = calls + 1
    /\ rpc' = [rpc EXCEPT ![c] = IF rpcServer = "up"
                                 THEN [pc |-> "sent", name |-> name, got |-> "none"]
                                 ELSE [pc |-> "returned", name |-> name, got |-> "error"]]
    /\ RpcRest /\ UNCHANGED rpcServer

\* Mutant: the connection stays open.
UnknownMethod_Open(c) == Ends(c, "open", "none")
UnknownMethod(c) == Ends(c, "written", "500")

\* handleConn, up to the handler. A read of the map during a write of main may
\* see it or not, or the runtime ends the process.
Racy == main \in Methods
Visible(c) == IF Racy THEN {FALSE, rpc[c].name \in handlers \cup {main}}
                      ELSE {rpc[c].name \in handlers}

HandleConn(c) ==
    /\ rpc[c].pc = "sent"
    /\ \/ /\ \E found \in Visible(c) :
              IF found THEN Ends(c, "handler", "none") ELSE UnknownMethod(c)
          /\ RpcRest /\ UNCHANGED rpcServer
       \/ Racy /\ Exit
       \/ Ends(c, "closed", "none") /\ RpcRest /\ UNCHANGED rpcServer

\* aliasResolveRPC or dinfoClearRPC, and the response. After five seconds the
\* connection takes no response any more.
RunHandler(c) ==
    /\ rpc[c].pc = "handler"
    /\ \/ \E got \in {"200", "500"} : Ends(c, "written", got)
       \/ Ends(c, "closed", "none")
    /\ RpcRest /\ UNCHANGED rpcServer

ClientReturns(c) ==
    /\ rpc[c].pc \in {"written", "closed"}
    /\ Ends(c, "returned", IF rpc[c].pc = "closed" THEN "error" ELSE rpc[c].got)
    /\ RpcRest /\ UNCHANGED rpcServer

RpcStep(c) == HandleConn(c) \/ RunHandler(c) \/ ClientReturns(c)

----------------------------------------------------------------------------
(* Faults *)
Panics == Up /\ crashes < MaxCrashes /\ crashes' = crashes + 1 /\ Exit

\* Authenticate calls Int64N with a fifth of the delay, which may be zero.
DelayPanics(s) == auth[s].pc = "delay" /\ auth[s].op = "auth" /\ Panics

\* An administrator makes a mistake, and corrects it.
Break == /\ broken < MaxFlaws /\ broken' = broken + 1
         /\ \E f \in Flaw \ flaws : flaws' = flaws \cup {f}
Repair == flaws # {} /\ flaws' = {} /\ UNCHANGED broken

----------------------------------------------------------------------------
NoProc == UNCHANGED <<procVars, rpc, mem, rl, addr, auth>>
NoBounds == UNCHANGED boundVars

SessionStep(s) ==
    /\ Serving
    /\ AuthStep(s) \/ \E op \in {"auth", "exists"}, u \in User, p \in Password : Ask(s, op, u, p)
    /\ UNCHANGED <<procVars, rpc, mem, rl>>

ServerStep ==
    \/ (MainStep \/ HandlerStep \/ TickStep \/ RpcListen) /\ NoBounds
    \/ \E c \in Client : RpcStep(c) /\ NoBounds
    \/ \E s \in Session : SessionStep(s) /\ NoBounds

ServerNext ==
    /\ \/ ServerStep /\ UNCHANGED <<toolVars, dovecotVars, flaws>>
       \/ ToolNext /\ NoProc /\ UNCHANGED <<dovecotVars, flaws, boundVars>>
       \/ DovecotMoves /\ NoProc /\ UNCHANGED <<toolVars, flaws, boundVars>>
       \/ /\ Break \/ Repair
          /\ NoProc /\ UNCHANGED <<toolVars, dovecotVars, signalled, crashes, calls>>
       \/ /\ \E sig \in {"HUP", "TERM"} : Signal(sig)
          /\ UNCHANGED <<toolVars, dovecotVars, flaws, broken, crashes, calls>>
       \/ /\ \E s \in Session : DelayPanics(s)
          /\ UNCHANGED <<toolVars, dovecotVars, flaws, broken, signalled, calls>>
       \/ /\ \E c \in Client, name \in Methods : Call(c, name)
          /\ UNCHANGED <<toolVars, dovecotVars, flaws, broken, signalled, crashes>>
    /\ Watch

\* The service manager and the scheduler let the goroutines go on, ticks come,
\* and a connection of the RPC server has a deadline.
ServerFairness ==
    /\ WF_main(MainStep)
    /\ WF_<<main, handler, rl>>(HandlerStep) /\ WF_<<main, rl>>(TickStep)
    /\ WF_rpcServer(RpcListen)
    /\ \A c \in Client : WF_<<main, rpc>>(RpcStep(c))

ServerSpec == ServerInit /\ [][ServerNext]_<<userVars, serverVars>> /\ ServerFairness

----------------------------------------------------------------------------
Parts == {"config", "maillog", "certs", "users", "aliases", "dkim", "dinfo", "sts",
          "queue", "limits", "addresses"}

(* chasquid.go: an error in any part of the configuration ends the process   *)
(* ("fail hard to make sure this is noticed"), so that no client is served   *)
(* by a server that lacks a part, also when the mistake is corrected, or a   *)
(* new one made, between two steps of main.                                  *)
NeverHalfStarted == Serving => loaded = Parts /\ handlers = Methods

(* chasquid-util(1) and periodicallyReload: when the configuration has no    *)
(* mistakes any more, the server comes up and stays, and knows the users as  *)
(* the commands that succeeded left them, unless two commands ran at the     *)
(* same time: whatever was killed, failed or signalled before, and though    *)
(* two goroutines may reload at the same time and the older reading win.     *)
CommandsTakeEffect ==
    <>[](flaws = {}) =>
        <>[](main = "up" /\ mem = Load(file) /\ (overlap \/ mem = want))

(* signalHandler: every SIGHUP is followed by a complete reload that began   *)
(* after it, or by the end of the process, though the channel holds one      *)
(* signal and others come during a reload.                                   *)
HupReloads == asked # "no" ~> asked = "no"

(* localrpc: every call of a client returns, also when it comes before the   *)
(* methods are registered, or the process ends under it.                     *)
RpcReturns == \A c \in Client : rpc[c].pc = "sent" ~> rpc[c].pc = "returned"
============================================================================
