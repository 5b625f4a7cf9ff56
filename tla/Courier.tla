------------------------------- MODULE Courier -------------------------------
(***************************************************************************)
(* The couriers (internal/courier/smtp.go, mda.go, internal/smtp/smtp.go)  *)
(* on top of the database of security levels, DomainInfo.                  *)
(*                                                                         *)
(* The queue calls Deliver or Forward once for a recipient and an attempt  *)
(* to send it; calls for different recipients run at the same time.  A     *)
(* call is a process: it finds the mail servers of the domain, fetches the *)
(* MTA-STS policy, and tries the servers in order, each over a connection  *)
(* whose security it checks against the policy and against DomainInfo.     *)
(* The servers, DNS and the network may answer anything at any step, and   *)
(* connections, reloads and administrators use DomainInfo meanwhile.       *)
(***************************************************************************)
EXTENDS DomainInfo, Sequences

CONSTANTS
  Attempt,     \* the calls of Deliver and Forward
  Policy,      \* MTA-STS policies: [mode |-> ..., mx |-> a set of hosts]
  Records,     \* the lists of hosts DNS may answer with, sorted by priority
  Servers,     \* the lists of servers a "via" alias may give
  MaxMXs       \* how many hosts lookupMXs keeps

(* A domain without MX records is its own mail server. *)
Host == Domain \cup UNION {{r[i] : i \in DOMAIN r} : r \in Records \cup Servers}

ASSUME CourierAssumption ==
  /\ MaxMXs \in Nat \ {0}
  /\ Records \cup Servers \subseteq Seq(Host)
  /\ None \notin Policy
  /\ \A p \in Policy : p.mode \in {"enforce", "testing", "none"}

VARIABLES
  att,         \* the calls of Deliver and Forward with their variables; wire,
               \* floor and tries are not in the code: the true level of the
               \* connection, what the domain had shown when it was opened, and
               \* how many there have been to the host
  log          \* what happened in a call; no guard reads it

courierVars == <<att, log>>
allVars == <<vars, courierVars>>

(* Replies to MAIL, RCPT, DATA and the final dot; "599" are the errors     *)
(* prepareForSMTPUTF8 makes up, "io" is any error that is not a reply.     *)
Reply == {"250", "4xx", "5xx", "599", "io"}

IsPermanent_4xx(reply) == reply # "io"
IsPermanent(reply) == reply \in {"5xx", "599"}

NewAttempt ==
  [pc |-> "idle", dom |-> None, hosts |-> <<>>, policy |-> None,
   skipTLS |-> FALSE, secLevel |-> 0, result |-> None,
   wire |-> 0, floor |-> 0, tries |-> 0]

NewLog == [copies |-> 0, lost |-> 0, refused |-> FALSE]

CourierInit ==
  /\ Init
  /\ att = [a \in Attempt |-> NewAttempt]
  /\ log = [a \in Attempt |-> NewLog]

At(a, pc) == att[a].pc = pc

Goto(a, pc) == att' = [att EXCEPT ![a].pc = pc]

(* Deliver or Forward returns; its variables are gone. *)
Return(a, result) ==
  att' = [att EXCEPT ![a] = [NewAttempt EXCEPT !.pc = "done", !.result = result]]

(* What is remembered of a call: a copy somebody took, an answer that got  *)
(* lost, a refusal for good.                                               *)
Ended(a, copy, lost, refused) ==
  log' = [log EXCEPT ![a] =
    [NewLog EXCEPT !.copies = log[a].copies + copy, !.lost = log[a].lost + lost,
                   !.refused = refused]]

(* attempt.deliver returns a transient error: on to the next server. *)
NextHost_Same(a) ==
  att' = [att EXCEPT ![a].pc = "next", ![a].skipTLS = FALSE, ![a].secLevel = 0,
                     ![a].wire = 0, ![a].floor = 0, ![a].tries = 0]
NextHost(a) ==
  att' = [att EXCEPT ![a].pc = "next", ![a].hosts = Tail(@),
                     ![a].skipTLS = FALSE, ![a].secLevel = 0,
                     ![a].wire = 0, ![a].floor = 0, ![a].tries = 0]

(***************************************************************************)
(* lookupMXs.  A domain that DNS does not know to have MXs is its own, an  *)
(* error may be temporary, and an empty list of records says that the      *)
(* domain takes no mail.                                                   *)
(***************************************************************************)
LookupError == {"idna", "notDNS", "temporary", "fatal"}

Cap_None(hosts) == hosts
Cap(hosts) == IF Len(hosts) > MaxMXs THEN SubSeq(hosts, 1, MaxMXs) ELSE hosts

Permanent(err) == err \in {"idna", "fatal"}

(* SMTP.Deliver, to the point where the hosts are known. *)
Deliver(a, d) ==
  /\ Running /\ At(a, "idle")
  /\ \/ \E err \in LookupError :
          /\ Return(a, IF Permanent(err) THEN "permanent" ELSE "transient")
          /\ Ended(a, 0, 0, err \in {"idna", "fatal"})
     \/ \E records \in Records \cup {<<d>>} :
          IF records = <<>>
          THEN Return(a, "permanent") /\ Ended(a, 0, 0, TRUE)
          ELSE /\ att' = [att EXCEPT ![a].pc = "sts", ![a].dom = d,
                                     ![a].hosts = Cap(records)]
               /\ UNCHANGED log
  /\ UNCHANGED vars

(* fetchSTSPolicy: any policy the cache has for the domain, nil on errors. *)
fetchSTSPolicy(a) ==
  /\ At(a, "sts")
  /\ \E p \in Policy \cup {None} :
       att' = [att EXCEPT ![a].pc = "next", ![a].policy = p]
  /\ UNCHANGED <<vars, log>>

(* SMTP.Forward: the servers come from the alias and have no policy. *)
Forward(a, d) ==
  /\ Running /\ At(a, "idle")
  /\ \E servers \in Servers :
       att' = [att EXCEPT ![a].pc = "next", ![a].dom = d, ![a].hosts = servers]
  /\ UNCHANGED <<vars, log>>

Enforced(p) == p # None /\ p.mode = "enforce"

(* Policy.MXIsAllowed *)
MXIsAllowed(p, host) == Enforced(p) => host \in p.mx

(* The loops of Deliver and Forward over the servers. *)
NextMX(a) ==
  /\ At(a, "next")
  /\ IF att[a].hosts = <<>>
     THEN Return(a, "transient") /\ Ended(a, 0, 0, FALSE)
     ELSE IF ~MXIsAllowed(att[a].policy, Head(att[a].hosts))
     THEN NextHost(a) /\ UNCHANGED log
     ELSE Goto(a, "dial") /\ UNCHANGED log
  /\ UNCHANGED vars

(***************************************************************************)
(* attempt.deliver, from the label "retry": dial and say hello.  Whether   *)
(* the server offers STARTTLS is up to it, each time anew.  The connection *)
(* is a plain one and secLevel says so, whatever a previous try left in it. *)
(***************************************************************************)
Dial_KeepLevel(a) ==
  /\ At(a, "dial")
  /\ \/ NextHost(a)
     \/ \E startTLS \in BOOLEAN :
          att' = [att EXCEPT
            ![a].pc = IF startTLS /\ ~att[a].skipTLS THEN "tls" ELSE "check",
            ![a].floor = shown[att[a].dom]["outgoing"],
            ![a].tries = @ + 1]
  /\ UNCHANGED <<vars, log>>
Dial(a) ==
  /\ At(a, "dial")
  /\ \/ NextHost(a)
     \/ \E startTLS \in BOOLEAN :
          att' = [att EXCEPT
            ![a].pc = IF startTLS /\ ~att[a].skipTLS THEN "tls" ELSE "check",
            ![a].secLevel = 0,
            ![a].floor = shown[att[a].dom]["outgoing"],
            ![a].tries = @ + 1]
  /\ UNCHANGED <<vars, log>>

(***************************************************************************)
(* StartTLS.  verifyConnection sets the level during the handshake, which  *)
(* may fail before or after that; the retry is without TLS.                *)
(***************************************************************************)
StartTLS(a) ==
  /\ At(a, "tls")
  /\ \E level \in Level("outgoing") :
       \/ /\ level > 0
          /\ att' = [att EXCEPT ![a].pc = "check", ![a].secLevel = level,
                                ![a].wire = level]
       \/ att' = [att EXCEPT ![a].pc = "dial", ![a].secLevel = level,
                             ![a].skipTLS = TRUE]
  /\ UNCHANGED <<vars, log>>

(* OutgoingSecLevel, then the check of the level against the policy. *)
CheckLevel_NoPolicy(a) ==
  /\ At(a, "check")
  /\ CheckSecLevel(att[a].dom, "outgoing", att[a].secLevel)
  /\ IF Allowed(att[a].dom, "outgoing", att[a].secLevel)
     THEN Goto(a, "mail")
     ELSE NextHost(a)
  /\ UNCHANGED log
CheckLevel(a) ==
  /\ At(a, "check")
  /\ CheckSecLevel(att[a].dom, "outgoing", att[a].secLevel)
  /\ IF /\ Allowed(att[a].dom, "outgoing", att[a].secLevel)
        /\ Enforced(att[a].policy) => att[a].secLevel = 3
     THEN Goto(a, "mail")
     ELSE NextHost(a)
  /\ UNCHANGED log

(* Client.MailAndRcpt.  The "599" are the addresses prepareForSMTPUTF8     *)
(* cannot convert for the server.                                          *)
MailAndRcpt(a) ==
  /\ At(a, "mail")
  /\ \E reply \in Reply :
       IF reply = "250"
       THEN Goto(a, "data") /\ UNCHANGED log
       ELSE IF IsPermanent(reply)
       THEN Return(a, "permanent") /\ Ended(a, 0, 0, reply \in {"5xx", "599"})
       ELSE NextHost(a) /\ UNCHANGED log
  /\ UNCHANGED vars

(***************************************************************************)
(* Data, Write and Close.  A server that accepts the message may do so     *)
(* without its reply getting here.                                         *)
(***************************************************************************)
Data(a) ==
  /\ At(a, "data")
  /\ \/ Return(a, "sent") /\ Ended(a, 1, 0, FALSE)
     \/ /\ NextHost(a)
        /\ log' = [log EXCEPT ![a].copies = @ + 1, ![a].lost = @ + 1]
     \/ \E reply \in {"4xx", "io", "5xx"} :
          IF IsPermanent(reply)
          THEN Return(a, "permanent") /\ Ended(a, 0, 0, reply = "5xx")
          ELSE NextHost(a) /\ UNCHANGED log
  /\ UNCHANGED vars

(***************************************************************************)
(* MDA.Deliver: the command runs to its end or until the timeout, with     *)
(* the message stored or not.  Forward of an MDA is a permanent error.     *)
(***************************************************************************)
MDADeliver(a) ==
  /\ Running /\ At(a, "idle")
  /\ Goto(a, "mda")
  /\ UNCHANGED <<vars, log>>

MDAForward(a) ==
  /\ Running /\ At(a, "idle")
  /\ Return(a, "permanent")
  /\ Ended(a, 0, 0, TRUE)
  /\ UNCHANGED vars

(* What cmd.Wait says, and what MDA.Deliver makes of it. *)
MDAResult == [ok |-> "sent", timeout |-> "transient", exit75 |-> "transient",
              fail |-> "permanent"]

MDARun(a) ==
  /\ At(a, "mda")
  /\ \E end \in DOMAIN MDAResult, stored \in BOOLEAN :
       /\ end = "ok" => stored
       /\ Return(a, MDAResult[end])
       /\ Ended(a, IF stored THEN 1 ELSE 0,
                IF stored /\ end # "ok" THEN 1 ELSE 0, end = "fail")
  /\ UNCHANGED vars

(***************************************************************************)
(* The rest of the server uses the database: connections, the RPC that     *)
(* clears a domain, SIGHUP.  Calls end with the process.                   *)
(***************************************************************************)
Incoming(d) ==
  /\ \E level \in Level("incoming") : CheckSecLevel(d, "incoming", level)
  /\ UNCHANGED courierVars

ClearDomain(d) ==
  /\ Clear(d)
  /\ att' = [a \in Attempt |->
       IF att[a].dom = d THEN [att[a] EXCEPT !.floor = 0] ELSE att[a]]
  /\ UNCHANGED log

Restart == New /\ UNCHANGED courierVars

SIGHUP == Reload /\ UNCHANGED courierVars

Stop ==
  /\ Exit
  /\ att' = [a \in Attempt |->
       IF At(a, "idle") \/ At(a, "done") THEN att[a]
       ELSE [NewAttempt EXCEPT !.pc = "dead"]]
  /\ log' = [a \in Attempt |->
       IF At(a, "idle") \/ At(a, "done") THEN log[a] ELSE NewLog]

AttemptStep(a) ==
  \/ fetchSTSPolicy(a) \/ NextMX(a) \/ Dial(a) \/ StartTLS(a) \/ CheckLevel(a)
  \/ MailAndRcpt(a) \/ Data(a) \/ MDARun(a)

CourierNext ==
  \/ \E a \in Attempt : \/ \E d \in Domain : Deliver(a, d) \/ Forward(a, d)
                        \/ MDADeliver(a) \/ MDAForward(a)
                        \/ AttemptStep(a)
  \/ \E d \in Domain : Incoming(d) \/ ClearDomain(d)
  \/ Restart \/ SIGHUP \/ Stop

(***************************************************************************)
(* A call that is under way goes on: each step waits for DNS, a dial, the  *)
(* connection or a command, all of which time out.                         *)
(***************************************************************************)
CourierSpec ==
  /\ CourierInit /\ [][CourierNext]_allVars
  /\ \A a \in Attempt : WF_allVars(AttemptStep(a))

(***************************************************************************)
(* Properties                                                              *)
(***************************************************************************)

Talking(a) == At(a, "mail") \/ At(a, "data")

(* Nothing of a message is said to a server that the enforced MTA-STS      *)
(* policy of the call does not allow, or over a connection that is not     *)
(* validated TLS, whatever attempt.deliver tried before.                   *)
PolicyEnforced ==
  \A a \in Attempt :
    Talking(a) /\ Enforced(att[a].policy) =>
      /\ Head(att[a].hosts) \in att[a].policy.mx
      /\ att[a].wire = 3

(* The level attempt.deliver had checked and recorded is the one of the    *)
(* connection the message goes over, and it is not below what the domain   *)
(* had shown to any call when this connection was opened, unless an        *)
(* administrator cleared the domain or a load lost its level.              *)
CheckedLevel ==
  \A a \in Attempt : Talking(a) =>
    /\ att[a].wire = att[a].secLevel
    /\ att[a].dom \notin forgot => att[a].wire >= att[a].floor

(* What Deliver, Forward and the MDA return is true: "sent" means that one *)
(* server, and only one, took the message and said so; any further copy is *)
(* one whose reply got lost; an error is permanent just when DNS, a server *)
(* or the command refused for good.                                        *)
TrueAnswer ==
  \A a \in Attempt : At(a, "done") =>
    /\ log[a].copies = log[a].lost + (IF att[a].result = "sent" THEN 1 ELSE 0)
    /\ att[a].result = "permanent" <=> log[a].refused

(* Deliver opens at most two connections to a host, and to at most MaxMXs  *)
(* hosts: with the timeouts of a connection, a call is bounded in time.    *)
ConnectionsBounded ==
  \A a \in Attempt :
    /\ att[a].tries <= 2
    /\ At(a, "sts") => Len(att[a].hosts) \in 1..MaxMXs

(* Every call returns while the process lives: the retry without TLS and   *)
(* the loops over the servers end, whatever the servers do.                *)
EveryCallReturns ==
  \A a \in Attempt :
    ~At(a, "idle") ~> (At(a, "done") \/ At(a, "dead"))
=============================================================================
