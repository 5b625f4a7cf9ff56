-------------------------------- MODULE Conn --------------------------------
(***************************************************************************)
(* An incoming SMTP session (internal/smtpsrv/conn.go).                    *)
(*                                                                         *)
(* One goroutine runs Handle: it reads a command, runs the handler of the  *)
(* command, and writes the reply.  Each handler is one action; what the    *)
(* client sent, what the DNS, the user database, the hook and the queue    *)
(* answered, and whether the reply reached the client, are choices inside  *)
(* it.  Time passes beside it.                                             *)
(***************************************************************************)
EXTENDS Integers, Sequences

CONSTANTS
  Mode,     \* the socket modes to check, of ModeSMTP, ModeSubmission, ...TLS
  Sender,   \* the sender addresses
  MaxRcpt,  \* the 100 of RCPT
  MaxMsgs   \* how many times the client gets to send message data

ModeSMTP == "SMTP"
ModeSubmission == "submission"
ModeSubmissionTLS == "submission+TLS"
IsSubmission(m) == m # ModeSMTP

NoSender == ""
NullSender == "<>"

ASSUME ConnAssumption ==
  /\ Mode \subseteq {ModeSMTP, ModeSubmission, ModeSubmissionTLS}
  /\ NoSender \notin Sender /\ NullSender \notin Sender
  /\ MaxRcpt \in Nat /\ MaxMsgs \in Nat

VARIABLES
  pc,                \* where Handle is: "accepted", "top", "reading",
                     \* "command" or "closed"
  mode, onTLS, tlsConnState, ehloDomain, isESMTP, completedAuth,
  envelope,          \* mailFrom, rcptTo, spfResult, and the transport of MAIL
  dkimVerifyResult,  \* nil is 0, and n is the result for message number n
  errCount,
  buffered,          \* the transport of the bytes that wait in c.reader
  writer,            \* "ok", or "broken" after a Flush that failed
  late,              \* c.deadline has passed
  (* The rest records what happened; no guard reads it. *)
  via,               \* the transport that the current command came over
  authVia,           \* the transport of the AUTH that succeeded
  msgs,              \* how many times message data was asked for
  put,               \* what the last command put in the queue
  queued,            \* the messages in the queue
  answer,            \* what the client was told about each message
  lateCommands       \* commands read after c.deadline, counted up to 2

session == <<mode, onTLS, tlsConnState, ehloDomain, isESMTP>>
auth == <<completedAuth, authVia>>
history == <<msgs, put, queued>>
vars == <<pc, session, auth, envelope, dkimVerifyResult, errCount, buffered,
          writer, late, via, history, answer, lateCommands>>

Transport == {"plain", "tls"}
SPFResult == {"", "pass", "fail", "other"}
NoSPF == [result |-> "", of |-> NoSender]
NoEnvelope == [mailFrom |-> NoSender, rcptTo |-> <<>>, spfResult |-> NoSPF,
               via |-> "none"]
NoMsg == [id |-> 0]

(* A recipient, with the sender and the transport its RCPT came with. *)
Rcpt == [kind : {"local", "remote"}, from : Sender \cup {NullSender},
         via : Transport]

Envelope == [mailFrom : Sender \cup {NoSender, NullSender}, rcptTo : Seq(Rcpt),
             spfResult : [result : SPFResult, of : Sender \cup {NoSender}],
             via : Transport \cup {"none"}]

(* A message as it gets to Queue.Put, with what its new headers say. *)
Msg == [id : 1..MaxMsgs, from : Sender \cup {NullSender}, to : Seq(Rcpt),
        fromVia : Transport, onTLS : BOOLEAN, auth : BOOLEAN,
        spf : [result : SPFResult, of : Sender \cup {NoSender}],
        dkim : 0..MaxMsgs]

TypeOK ==
  /\ pc \in {"accepted", "top", "reading", "command", "closed"}
  /\ mode \in Mode
  /\ onTLS \in BOOLEAN /\ tlsConnState \in BOOLEAN
  /\ ehloDomain \in BOOLEAN /\ isESMTP \in BOOLEAN
  /\ completedAuth \in BOOLEAN
  /\ envelope \in Envelope
  /\ Len(envelope.rcptTo) <= MaxRcpt + 1
  /\ dkimVerifyResult \in 0..MaxMsgs
  /\ errCount \in 0..3
  /\ buffered \in Transport \cup {"none"}
  /\ writer \in {"ok", "broken"}
  /\ late \in BOOLEAN
  /\ via \in Transport
  /\ authVia \in Transport \cup {"none"}
  /\ msgs \in 0..MaxMsgs
  /\ put = NoMsg \/ put \in Msg
  /\ queued \in SUBSET (1..MaxMsgs)
  /\ answer \in [1..MaxMsgs -> {"none", "accepted", "refused"}]
  /\ lateCommands \in 0..2

(* Server.serve: a connection is accepted on a socket of some mode. *)
Init ==
  /\ pc = "accepted"
  /\ mode \in Mode
  /\ onTLS = (mode = ModeSubmissionTLS)
  /\ tlsConnState = FALSE /\ ehloDomain = FALSE /\ isESMTP = FALSE
  /\ completedAuth = FALSE
  /\ envelope = NoEnvelope
  /\ dkimVerifyResult = 0
  /\ errCount = 0
  /\ buffered = "none" /\ writer = "ok" /\ late = FALSE
  /\ via = "plain" /\ authVia = "none"
  /\ msgs = 0 /\ put = NoMsg /\ queued = {}
  /\ answer = [m \in 1..MaxMsgs |-> "none"]
  /\ lateCommands = 0

(***************************************************************************)
(* The loop of Handle                                                      *)
(***************************************************************************)

(* The TLS handshake and the proxy header, which may fail, and the greeting, *)
(* which may get lost: printfLine ignores errors.                          *)
Greet ==
  /\ pc = "accepted"
  /\ \/ /\ pc' = "closed"
        /\ UNCHANGED <<tlsConnState, writer>>
     \/ /\ pc' = "top"
        /\ tlsConnState' = onTLS
        /\ writer' \in {"ok", "broken"}
  /\ UNCHANGED <<mode, onTLS, ehloDomain, isESMTP, auth, envelope,
                 dkimVerifyResult, errCount, buffered, late, via, history,
                 answer, lateCommands>>

(* The top of the loop: the check of c.deadline, before the next read. *)
PastDeadline_Never == FALSE
PastDeadline == late

CheckDeadline ==
  /\ pc = "top"
  /\ pc' = IF PastDeadline THEN "closed" ELSE "reading"
  /\ UNCHANGED <<session, auth, envelope, dkimVerifyResult, errCount, buffered,
                 writer, late, via, history, answer, lateCommands>>

(* readCommand: from the buffer of c.reader when it has something, else    *)
(* from the connection, with whatever the client sent behind the command.  *)
ReadCommand ==
  /\ pc = "reading"
  /\ pc' = "command"
  /\ via' = IF buffered # "none" THEN buffered
            ELSE IF onTLS THEN "tls" ELSE "plain"
  /\ buffered' \in {"none", via'}
  /\ put' = NoMsg
  /\ lateCommands' = lateCommands + IF late /\ lateCommands < 2 THEN 1 ELSE 0
  /\ UNCHANGED <<session, auth, envelope, dkimVerifyResult, errCount, writer,
                 late, msgs, queued, answer>>

(* readCommand fails: the client is gone or silent for commandTimeout, or  *)
(* the line is too long.                                                   *)
ReadError ==
  /\ pc = "reading"
  /\ pc' = "closed"
  /\ UNCHANGED <<session, auth, envelope, dkimVerifyResult, errCount, buffered,
                 writer, late, via, history, answer, lateCommands>>

(* Time passes. *)
Deadline ==
  /\ pc # "closed" /\ ~late
  /\ late' = TRUE
  /\ UNCHANGED <<pc, session, auth, envelope, dkimVerifyResult, errCount,
                 buffered, writer, via, history, answer, lateCommands>>

(***************************************************************************)
(* The end of the loop: an error counts, and the third closes the session; *)
(* else the reply is written to w, the writer as the handler left it.  A   *)
(* reply whose Flush fails is lost, and only the next write returns the    *)
(* error.  The reply is about message m, or about none when m is 0.        *)
(***************************************************************************)
Reply(w, error, m) ==
  \E arrives \in IF w = "ok" THEN BOOLEAN ELSE {FALSE} :
    /\ errCount' = errCount + IF error THEN 1 ELSE 0
    /\ pc' = IF w = "broken" \/ (error /\ errCount' >= 3) THEN "closed" ELSE "top"
    /\ writer' = IF arrives THEN w ELSE "broken"
    /\ answer' = IF m = 0 \/ ~arrives THEN answer
                 ELSE [answer EXCEPT ![m] = IF error THEN "refused" ELSE "accepted"]
    /\ UNCHANGED <<late, via, lateCommands>>

Says(error) == Reply(writer, error, 0)

(***************************************************************************)
(* The handlers                                                            *)
(***************************************************************************)
resetEnvelope_KeepsRcpts(e) == [NoEnvelope EXCEPT !.rcptTo = e.rcptTo]
resetEnvelope(e) == NoEnvelope

(* HELO and EHLO, with a name or without; EHLO makes the session ESMTP. *)
HELO ==
  /\ pc = "command"
  /\ \/ Says(TRUE) /\ UNCHANGED <<ehloDomain, isESMTP>>
     \/ /\ Says(FALSE)
        /\ ehloDomain' = TRUE
        /\ \/ UNCHANGED isESMTP
           \/ isESMTP' = TRUE
  /\ UNCHANGED <<mode, onTLS, tlsConnState, auth, envelope, dkimVerifyResult,
                 buffered, history>>

(* HELP and NOOP succeed; VRFY, EXPN and unknown commands are errors. *)
NOOP ==
  /\ pc = "command"
  /\ \E error \in BOOLEAN : Says(error)
  /\ UNCHANGED <<session, auth, envelope, dkimVerifyResult, buffered, history>>

RSET ==
  /\ pc = "command"
  /\ envelope' = resetEnvelope(envelope)
  /\ Says(FALSE)
  /\ UNCHANGED <<session, auth, dkimVerifyResult, buffered, history>>

(* QUIT, and the commands of HTTP: a reply that may get lost, and the end. *)
QUIT ==
  /\ pc = "command"
  /\ pc' = "closed"
  /\ UNCHANGED <<session, auth, envelope, dkimVerifyResult, errCount, buffered,
                 writer, late, via, history, answer, lateCommands>>

(***************************************************************************)
(* MAIL                                                                    *)
(***************************************************************************)
MayMail == ~IsSubmission(mode) \/ completedAuth

(* checkSPF: what it may return for the connection as it is. *)
checkSPF == IF completedAuth THEN {""} ELSE SPFResult

(* secLevelCheck: it asks the domaininfo database only after an SPF pass. *)
secLevelCheck(result) == IF result = "pass" THEN BOOLEAN ELSE {TRUE}

MailFrom(s, spf) ==
  [resetEnvelope(envelope) EXCEPT !.mailFrom = s, !.spfResult = spf, !.via = via]

MAIL ==
  /\ pc = "command"
  /\ \/ Says(TRUE) /\ UNCHANGED envelope         \* before the reset
     \/ /\ MayMail
        /\ \/ Says(TRUE) /\ envelope' = resetEnvelope(envelope)
           \/ Says(FALSE) /\ envelope' = MailFrom(NullSender, NoSPF)
           \/ \E s \in Sender, result \in checkSPF :
                \E level \in secLevelCheck(result), idna \in BOOLEAN :
                  LET ok == result # "fail" /\ level /\ idna
                      spf == [result |-> result, of |-> s]
                  IN /\ Says(~ok)
                     /\ envelope' =
                          IF ok THEN MailFrom(s, spf)
                          ELSE [resetEnvelope(envelope) EXCEPT !.spfResult = spf]
  /\ UNCHANGED <<session, auth, dkimVerifyResult, buffered, history>>

(***************************************************************************)
(* RCPT                                                                    *)
(***************************************************************************)
MayRelay_Anyone == TRUE
MayRelay == completedAuth

Full_OffByOne == Len(envelope.rcptTo) > MaxRcpt + 1
Full == Len(envelope.rcptTo) > MaxRcpt

(* localUserExists: an alias or a user, neither, or an error on the way. *)
localUserExists == {"yes", "no", "error"}

RCPT ==
  /\ pc = "command"
  /\ \/ (* a parameter it cannot use, or no room, or no sender *)
        Says(TRUE) /\ UNCHANGED envelope
     \/ /\ envelope.mailFrom # NoSender /\ ~Full
        /\ \E kind \in {"local", "remote"}, exists \in localUserExists :
             LET ok == IF kind = "local" THEN exists = "yes" ELSE MayRelay
             IN /\ Says(~ok)
                /\ envelope' =
                     IF ~ok THEN envelope
                     ELSE [envelope EXCEPT !.rcptTo = Append(@,
                            [kind |-> kind, from |-> envelope.mailFrom, via |-> via])]
  /\ UNCHANGED <<session, auth, dkimVerifyResult, buffered, history>>

(***************************************************************************)
(* DATA                                                                    *)
(***************************************************************************)
(* What the steps of DATA may return. *)
readUntilDot == {"data", "error", "invalid line ending"}
checkData == BOOLEAN
dkimSign == IF completedAuth THEN BOOLEAN ELSE {TRUE}
runPostDataHook == BOOLEAN

(* dkimVerify: the result for message m, or nil when the mail is malformed. *)
dkimVerify_KeepsOld(m) == {dkimVerifyResult, m}
dkimVerify(m) == {0, m}

(* addReceivedHeader and Queue.Put: message m as it is queued, when dkim is *)
(* the content of dkimVerifyResult.                                        *)
Message(m, dkim) ==
  [id |-> m, from |-> envelope.mailFrom, to |-> envelope.rcptTo,
   fromVia |-> envelope.via, onTLS |-> onTLS, auth |-> completedAuth,
   spf |-> envelope.spfResult, dkim |-> dkim]

MayData == ehloDomain /\ envelope.mailFrom # NoSender /\ envelope.rcptTo # <<>>

(* A failure of the last step, Queue.Put, is an error like the others. *)
PutFails_Ignored(stored) == FALSE
PutFails(stored) == ~stored

DataRefused(m, w) ==
  /\ Reply(w, TRUE, m)
  /\ UNCHANGED <<envelope, put, queued>>

(* An invalid line ending: a 521 that may get lost, and the end. *)
DataInvalid(m, w) ==
  /\ pc' = "closed"
  /\ writer' \in {"broken", w}
  /\ answer' = IF writer' = "ok" THEN [answer EXCEPT ![m] = "refused"] ELSE answer
  /\ UNCHANGED <<envelope, put, queued, errCount, late, via, lateCommands>>

(* The message is signed or verified, and goes through the hook to the     *)
(* queue; the envelope is reset only when all went well.                   *)
DataQueue(m, w) ==
  \E signed \in dkimSign, hook \in runPostDataHook, stored \in BOOLEAN :
    /\ dkimVerifyResult' \in IF completedAuth THEN {dkimVerifyResult} ELSE dkimVerify(m)
    /\ \/ ~signed /\ DataRefused(m, w)
       \/ signed /\ ~hook /\ DataRefused(m, w)
       \/ /\ signed /\ hook
          /\ Reply(w, PutFails(stored), m)
          /\ queued' = IF stored THEN queued \cup {m} ELSE queued
          /\ put' = IF stored THEN Message(m, dkimVerifyResult') ELSE put
          /\ envelope' = IF PutFails(stored) THEN envelope ELSE resetEnvelope(envelope)

(* The part of DATA that follows the 354, which left the writer as w.      *)
(* Replies are lost once c.deadline, which is now the deadline of the      *)
(* connection, has passed.                                                 *)
DataFor(m, w) ==
  /\ msgs' = m
  /\ \E read \in readUntilDot, parsed \in checkData :
       \/ /\ read = "invalid line ending"
          /\ DataInvalid(m, w) /\ UNCHANGED dkimVerifyResult
       \/ /\ read = "error" \/ (read = "data" /\ ~parsed)
          /\ DataRefused(m, w) /\ UNCHANGED dkimVerifyResult
       \/ /\ read = "data" /\ parsed
          /\ DataQueue(m, w)
  /\ late => writer' = "broken"

DATA ==
  /\ pc = "command"
  /\ \/ /\ ~MayData \/ writer = "broken"
        /\ Says(TRUE)
        /\ UNCHANGED <<envelope, dkimVerifyResult, history>>
     \/ /\ MayData /\ writer = "ok" /\ msgs < MaxMsgs
        /\ \E w \in {"ok", "broken"} : DataFor(msgs + 1, w)
  /\ UNCHANGED <<session, auth, buffered>>

(***************************************************************************)
(* STARTTLS.  After the handshake a new reader and a new writer replace    *)
(* the old ones, and what the old reader had buffered is gone.             *)
(***************************************************************************)
NewReader_Kept == buffered
NewReader == "none"

STARTTLS ==
  /\ pc = "command"
  /\ \/ /\ onTLS \/ writer = "broken"
        /\ Says(TRUE)
        /\ UNCHANGED <<onTLS, tlsConnState, envelope, buffered>>
     \/ /\ ~onTLS /\ writer = "ok"
        /\ \E w \in {"ok", "broken"} : Reply(w, TRUE, 0)   \* no handshake
        /\ UNCHANGED <<onTLS, tlsConnState, envelope, buffered>>
     \/ /\ ~onTLS /\ writer = "ok"
        /\ onTLS' = TRUE /\ tlsConnState' = TRUE
        /\ envelope' = resetEnvelope(envelope)
        /\ buffered' = NewReader
        /\ pc' = "top"
        /\ UNCHANGED <<errCount, writer, late, via, answer, lateCommands>>
  /\ UNCHANGED <<mode, ehloDomain, isESMTP, auth, dkimVerifyResult, history>>

(***************************************************************************)
(* AUTH.  The response may be in the command or in the next line, which    *)
(* the same reader reads.                                                  *)
(***************************************************************************)
MayAuth == onTLS /\ ~completedAuth

AUTH ==
  /\ pc = "command"
  /\ \/ Says(TRUE) /\ UNCHANGED auth
     \/ /\ MayAuth
        /\ \E w \in {writer, "broken"}, error \in BOOLEAN :  \* after the 334, if any
             Reply(w, error, 0)
             /\ IF error THEN UNCHANGED auth
                ELSE completedAuth' = TRUE /\ authVia' = via
  /\ UNCHANGED <<session, envelope, dkimVerifyResult, buffered, history>>

Handler == HELO \/ NOOP \/ RSET \/ QUIT \/ MAIL \/ RCPT \/ DATA \/ STARTTLS \/ AUTH
Handle == Greet \/ CheckDeadline \/ ReadCommand \/ ReadError \/ Handler

Next == Handle \/ Deadline

Spec == Init /\ [][Next]_vars

(* The goroutine runs, reads end after commandTimeout, and time passes. *)
FairSpec == Spec /\ WF_vars(Handle) /\ WF_vars(Deadline)

(***************************************************************************)
(* Properties                                                              *)
(***************************************************************************)

(* A message is queued from a submission socket, or for a recipient that   *)
(* is not local, only when the client authenticated, and the client        *)
(* authenticated only over TLS: no order of MAIL, RCPT, AUTH, STARTTLS,    *)
(* RSET and failing DATA commands gets around the checks of MAIL and RCPT. *)
RelayNeedsAuth ==
  /\ put # NoMsg
  /\ IsSubmission(mode) \/ \E i \in DOMAIN put.to : put.to[i].kind = "remote"
  => put.auth /\ put.onTLS

(* The sender, the recipients and the SPF result that Put gets belong to   *)
(* one another, however MAIL, RCPT, RSET, STARTTLS and DATA were mixed     *)
(* before: no recipient was given for another sender, and the SPF result   *)
(* is that of the sender and is not a failure.                             *)
OneTransaction ==
  put # NoMsg =>
    /\ \A i \in DOMAIN put.to : put.to[i].from = put.from
    /\ put.spf.of \in {put.from, NoSender}
    /\ put.spf.result # "fail"

(* Once the session is on TLS, nothing counts that came in the clear, not  *)
(* even commands sent together with STARTTLS: the envelope and the         *)
(* authentication were read through TLS, and the Received header, which    *)
(* looks at onTLS and at tlsConnState, does not contradict itself.         *)
NothingFromPlaintext ==
  pc \in {"top", "reading", "command"} =>
    /\ tlsConnState = onTLS
    /\ completedAuth => authVia = "tls"
    /\ onTLS => /\ envelope.via \in {"tls", "none"}
                /\ \A i \in DOMAIN envelope.rcptTo : envelope.rcptTo[i].via = "tls"

(* The client is told that a message was accepted only if it is in the     *)
(* queue, and is never told that a queued message was refused, whatever    *)
(* replies are lost and whichever step of DATA fails.                      *)
AnswerIsTrue ==
  \A m \in 1..MaxMsgs :
    /\ answer[m] = "accepted" => m \in queued
    /\ answer[m] = "refused" => m \notin queued

(* The DKIM results in the Authentication-Results header of a message from *)
(* a client that did not authenticate are those of this message.           *)
VerifiedOwnDKIM ==
  put # NoMsg /\ ~put.auth => put.dkim \in {0, put.id}

(* addReceivedHeader reports DKIM results only if there is anything to     *)
(* report on the message.                                                  *)
OwnDKIM ==
  put # NoMsg => put.dkim \in {0, put.id}

(* At most one command is served after the deadline of the connection: the *)
(* one that the session was waiting for when the deadline passed.          *)
OneLateCommand == lateCommands <= 1

(* Every session ends, however long the client keeps sending commands.     *)
SessionEnds == <>(pc = "closed")
=============================================================================
