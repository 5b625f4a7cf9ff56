----------------------------- MODULE ConnProofs -----------------------------
(***************************************************************************)
(* Proofs of the safety properties of an SMTP session, for any set of      *)
(* modes and senders and any number of recipients and messages.            *)
(***************************************************************************)
EXTENDS Conn, TLAPS

(* An open session has made fewer than three errors. *)
Strikes == pc # "closed" => errCount <= 2

(* The recipients belong to the sender, remote ones were given by an       *)
(* authenticated client, and on TLS all of it came over TLS.               *)
RcptOK(r) ==
  /\ r.from = envelope.mailFrom
  /\ r.kind = "remote" => completedAuth
  /\ onTLS => r.via = "tls"

EnvelopeOK ==
  /\ \A i \in DOMAIN envelope.rcptTo : RcptOK(envelope.rcptTo[i])
  /\ envelope.mailFrom # NoSender =>
       /\ envelope.spfResult.of \in {envelope.mailFrom, NoSender}
       /\ envelope.spfResult.result # "fail"
       /\ IsSubmission(mode) => completedAuth
       /\ envelope.via \in Transport
  /\ onTLS => envelope.via \in {"tls", "none"}

(* What is read on TLS came over TLS, and authentication needs TLS. *)
TLSOK ==
  /\ pc \in {"top", "reading", "command"} => tlsConnState = onTLS
  /\ completedAuth => onTLS /\ authVia = "tls"
  /\ onTLS => buffered # "plain"
  /\ pc = "command" /\ onTLS => via = "tls"

PutOK == RelayNeedsAuth /\ OneTransaction /\ VerifiedOwnDKIM

(* Messages that were not sent yet are not queued and not answered. *)
AnswerOK ==
  /\ AnswerIsTrue
  /\ \A m \in 1..MaxMsgs : m > msgs => answer[m] = "none" /\ m \notin queued

LateOK ==
  /\ lateCommands > 0 => late /\ pc \notin {"accepted", "reading"}
  /\ lateCommands <= 1

IInv == TypeOK /\ Strikes /\ EnvelopeOK /\ TLSOK /\ PutOK /\ AnswerOK /\ LateOK

-----------------------------------------------------------------------------
(* What every reply about message m does to the variables of Handle. *)
Replied(error, m) ==
  /\ errCount' \in 0..3
  /\ pc' \in {"top", "closed"}
  /\ pc' = "top" => errCount' <= 2
  /\ writer' \in {"ok", "broken"}
  /\ \/ answer' = answer
     \/ m # 0 /\ answer' = [answer EXCEPT ![m] = IF error THEN "refused" ELSE "accepted"]
  /\ late' = late /\ via' = via /\ lateCommands' = lateCommands

(* Reply counts errors up to three and answers at most message m. *)
LEMMA ReplyFacts ==
  ASSUME IInv, pc = "command", NEW w \in {"ok", "broken"}, NEW error \in BOOLEAN,
         NEW m, Reply(w, error, m)
  PROVE  Replied(error, m)
<1>1. errCount \in 0..2
  BY DEF IInv, TypeOK, Strikes
<1>2. PICK arrives \in BOOLEAN :
        /\ errCount' = errCount + IF error THEN 1 ELSE 0
        /\ pc' = IF w = "broken" \/ (error /\ errCount' >= 3) THEN "closed" ELSE "top"
        /\ writer' = IF arrives THEN w ELSE "broken"
        /\ answer' = IF m = 0 \/ ~arrives THEN answer
                     ELSE [answer EXCEPT ![m] = IF error THEN "refused" ELSE "accepted"]
        /\ UNCHANGED <<late, via, lateCommands>>
  BY DEF Reply
<1>3. errCount' \in 0..3 /\ (pc' = "top" => errCount' <= 2)
  BY <1>1, <1>2
<1>4. pc' \in {"top", "closed"} /\ writer' \in {"ok", "broken"}
  BY <1>2
<1> QED BY <1>2, <1>3, <1>4 DEF Replied

(* A handler that changes only the envelope, and leaves a good one. *)
LEMMA EnvelopeStep ==
  ASSUME IInv, pc = "command", NEW error \in BOOLEAN, Replied(error, 0),
         UNCHANGED <<mode, onTLS, tlsConnState, auth, dkimVerifyResult, buffered, history>>,
         ehloDomain' \in BOOLEAN, isESMTP' \in BOOLEAN,
         envelope' \in Envelope, Len(envelope'.rcptTo) <= MaxRcpt + 1, EnvelopeOK'
  PROVE  IInv'
<1>1. answer' = answer /\ late' = late /\ lateCommands' = lateCommands /\ via' = via
  BY DEF Replied
<1>2. UNCHANGED <<completedAuth, authVia, msgs, put, queued>>
  BY DEF auth, history
<1>3. TypeOK'
  BY <1>1, <1>2 DEF IInv, TypeOK, Replied
<1>4. Strikes'
  BY DEF Strikes, Replied
<1>5. TLSOK'
  BY <1>1, <1>2 DEF IInv, TLSOK, Replied
<1>6. PutOK'
  BY <1>2 DEF IInv, PutOK, RelayNeedsAuth, OneTransaction, VerifiedOwnDKIM
<1>7. AnswerOK'
  BY <1>1, <1>2 DEF IInv, AnswerOK, AnswerIsTrue
<1>8. LateOK'
  BY <1>1 DEF IInv, LateOK, Replied
<1> QED BY <1>3, <1>4, <1>5, <1>6, <1>7, <1>8 DEF IInv

(* EnvelopeOK depends on nothing but what it names. *)
LEMMA EnvelopeKept ==
  ASSUME EnvelopeOK, UNCHANGED <<envelope, mode, onTLS>>,
         completedAuth => completedAuth'
  PROVE  EnvelopeOK'
BY DEF EnvelopeOK, RcptOK

(* An empty envelope, and one that has only a sender, are good. *)
LEMMA EmptyEnvelope ==
  /\ NoEnvelope \in Envelope
  /\ NoEnvelope.rcptTo = <<>> /\ NoEnvelope.mailFrom = NoSender
  /\ NoEnvelope.via = "none" /\ NoEnvelope.spfResult = NoSPF
  /\ NoSPF \in [result : SPFResult, of : Sender \cup {NoSender}]
BY DEF NoEnvelope, Envelope, NoSPF, SPFResult, Transport

LEMMA InitHolds == Init => IInv
<1> SUFFICES ASSUME Init PROVE IInv OBVIOUS
<1>1. TypeOK
  <2>1. envelope \in Envelope /\ Len(envelope.rcptTo) <= MaxRcpt + 1
    BY EmptyEnvelope, ConnAssumption DEF Init
  <2>2. onTLS \in BOOLEAN
    BY DEF Init
  <2>3. answer \in [1..MaxMsgs -> {"none", "accepted", "refused"}] /\ queued \in SUBSET (1..MaxMsgs)
    BY DEF Init
  <2>4. dkimVerifyResult \in 0..MaxMsgs /\ msgs \in 0..MaxMsgs /\ errCount \in 0..3
        /\ lateCommands \in 0..2
    BY ConnAssumption DEF Init
  <2>5. /\ pc \in {"accepted", "top", "reading", "command", "closed"} /\ mode \in Mode
        /\ tlsConnState \in BOOLEAN /\ ehloDomain \in BOOLEAN /\ isESMTP \in BOOLEAN
        /\ completedAuth \in BOOLEAN /\ late \in BOOLEAN
    BY DEF Init
  <2>6. /\ buffered \in Transport \cup {"none"} /\ writer \in {"ok", "broken"}
        /\ via \in Transport /\ authVia \in Transport \cup {"none"} /\ put = NoMsg
    BY DEF Init, Transport
  <2> QED BY <2>1, <2>2, <2>3, <2>4, <2>5, <2>6 DEF TypeOK
<1>2. Strikes /\ TLSOK
  BY DEF Init, Strikes, TLSOK
<1>3. EnvelopeOK
  BY EmptyEnvelope DEF Init, EnvelopeOK
<1>4. PutOK /\ LateOK
  BY DEF Init, PutOK, RelayNeedsAuth, OneTransaction, VerifiedOwnDKIM, LateOK
<1>5. AnswerOK
  BY DEF Init, AnswerOK, AnswerIsTrue
<1> QED BY <1>1, <1>2, <1>3, <1>4, <1>5 DEF IInv

-----------------------------------------------------------------------------
(* Greet, CheckDeadline, ReadCommand, ReadError, QUIT and the passing of   *)
(* the deadline leave the envelope, the messages and the answers alone.    *)
LEMMA LoopStep ==
  ASSUME IInv, Greet \/ CheckDeadline \/ ReadCommand \/ ReadError \/ QUIT \/ Deadline
  PROVE  IInv'
<1>1. UNCHANGED <<mode, onTLS, ehloDomain, isESMTP, completedAuth, authVia, envelope,
                  dkimVerifyResult, errCount, msgs, queued, answer>>
  BY DEF Greet, CheckDeadline, ReadCommand, ReadError, QUIT, Deadline, session, auth, history
<1>2. put' = put \/ put' = NoMsg
  BY DEF Greet, CheckDeadline, ReadCommand, ReadError, QUIT, Deadline, history
<1>3. pc' \in {"accepted", "top", "reading", "command", "closed"} /\ pc # "closed"
  BY DEF Greet, CheckDeadline, ReadCommand, ReadError, QUIT, Deadline, IInv, TypeOK
<1>4. tlsConnState' \in BOOLEAN /\ writer' \in {"ok", "broken"} /\ late' \in BOOLEAN
  BY DEF Greet, CheckDeadline, ReadCommand, ReadError, QUIT, Deadline, session, IInv, TypeOK
<1>5. via' \in Transport /\ buffered' \in Transport \cup {"none"}
  BY DEF Greet, CheckDeadline, ReadCommand, ReadError, QUIT, Deadline, IInv, TypeOK, Transport
<1>6. LateOK' /\ lateCommands' \in 0..2
  <2>1. CASE ReadCommand
    BY <2>1 DEF IInv, LateOK, TypeOK, ReadCommand
  <2>2. CASE CheckDeadline
    BY <2>2 DEF IInv, LateOK, TypeOK, CheckDeadline, PastDeadline
  <2>3. CASE Greet \/ ReadError \/ QUIT \/ Deadline
    BY <2>3 DEF IInv, LateOK, TypeOK, Greet, ReadError, QUIT, Deadline
  <2> QED BY <2>1, <2>2, <2>3
<1>7. TypeOK'
  BY <1>1, <1>2, <1>3, <1>4, <1>5, <1>6 DEF IInv, TypeOK
<1>8. Strikes'
  BY <1>1, <1>3 DEF IInv, Strikes
<1>9. EnvelopeOK'
  BY <1>1, EnvelopeKept DEF IInv
<1>10. TLSOK'
  <2>1. CASE ReadCommand
    BY <2>1 DEF IInv, TLSOK, TypeOK, Transport, ReadCommand, session, auth
  <2>2. CASE Greet
    BY <2>2, <1>1 DEF IInv, TLSOK, Greet
  <2>3. CASE CheckDeadline \/ ReadError \/ QUIT \/ Deadline
    BY <2>3, <1>1 DEF IInv, TLSOK, CheckDeadline, ReadError, QUIT, Deadline, session
  <2> QED BY <2>1, <2>2, <2>3
<1>11. PutOK'
  BY <1>1, <1>2 DEF IInv, PutOK, RelayNeedsAuth, OneTransaction, VerifiedOwnDKIM
<1>12. AnswerOK'
  BY <1>1 DEF IInv, AnswerOK, AnswerIsTrue
<1> QED BY <1>6, <1>7, <1>8, <1>9, <1>10, <1>11, <1>12 DEF IInv

(* Handlers that leave the envelope alone. *)
LEMMA GreetingsKeep == ASSUME IInv, HELO \/ NOOP PROVE IInv'
<1>1. pc = "command"
  BY DEF HELO, NOOP
<1>2. PICK error \in BOOLEAN : Says(error)
  BY DEF HELO, NOOP
<1>3. Replied(error, 0)
  BY <1>1, <1>2, ReplyFacts DEF Says, IInv, TypeOK
<1>4. UNCHANGED <<mode, onTLS, tlsConnState, auth, envelope, dkimVerifyResult, buffered, history>>
  BY DEF HELO, NOOP, session
<1>5. ehloDomain' \in BOOLEAN /\ isESMTP' \in BOOLEAN
  BY DEF HELO, NOOP, session, IInv, TypeOK
<1>6. EnvelopeOK'
  BY <1>4, EnvelopeKept DEF IInv, auth
<1> QED BY <1>1, <1>3, <1>4, <1>5, <1>6, EnvelopeStep DEF IInv, TypeOK

LEMMA RSETKeeps == ASSUME IInv, RSET PROVE IInv'
<1>1. Replied(FALSE, 0)
  BY ReplyFacts DEF RSET, Says, IInv, TypeOK
<1>2. envelope' = NoEnvelope
  BY DEF RSET, resetEnvelope
<1>3. EnvelopeOK'
  BY <1>2, EmptyEnvelope DEF EnvelopeOK
<1>4. envelope' \in Envelope /\ Len(envelope'.rcptTo) <= MaxRcpt + 1
  BY <1>2, EmptyEnvelope, ConnAssumption
<1>5. UNCHANGED <<mode, onTLS, tlsConnState, ehloDomain, isESMTP>>
  BY DEF RSET, session
<1> QED BY <1>1, <1>3, <1>4, <1>5, EnvelopeStep DEF RSET, IInv, TypeOK

(* MAIL leaves an empty envelope, the old one, or one of its sender only.  *)
LEMMA MAILKeeps == ASSUME IInv, MAIL PROVE IInv'
<1>1. pc = "command"
  BY DEF MAIL
<1>2. PICK error \in BOOLEAN : Says(error)
  BY DEF MAIL
<1>3. Replied(error, 0)
  BY <1>1, <1>2, ReplyFacts DEF Says, IInv, TypeOK
<1>4. UNCHANGED <<mode, onTLS, tlsConnState, ehloDomain, isESMTP>>
      /\ UNCHANGED <<auth, dkimVerifyResult, buffered, history>>
  BY DEF MAIL, session
<1>5. completedAuth' = completedAuth
  BY <1>4 DEF auth
<1>6. /\ envelope' \in Envelope /\ Len(envelope'.rcptTo) <= MaxRcpt + 1
      /\ EnvelopeOK'
  <2>1. CASE envelope' = envelope
    BY <2>1, <1>4, <1>5, EnvelopeKept DEF IInv, TypeOK
  <2>2. CASE \E spf \in [result : SPFResult, of : Sender \cup {NoSender}] :
               envelope' = [NoEnvelope EXCEPT !.spfResult = spf]
    <3>1. PICK spf \in [result : SPFResult, of : Sender \cup {NoSender}] :
            envelope' = [NoEnvelope EXCEPT !.spfResult = spf]
      BY <2>2
    <3>2. envelope' = [mailFrom |-> NoSender, rcptTo |-> <<>>, spfResult |-> spf, via |-> "none"]
      BY <3>1 DEF NoEnvelope
    <3>3. envelope' \in Envelope /\ Len(envelope'.rcptTo) <= MaxRcpt + 1
      BY <3>2, ConnAssumption DEF Envelope
    <3>4. EnvelopeOK'
      BY <3>2 DEF EnvelopeOK
    <3> QED BY <3>3, <3>4
  <2>3. CASE /\ MayMail
             /\ \E s \in Sender \cup {NullSender},
                   spf \in [result : SPFResult, of : Sender \cup {NoSender}] :
                  /\ spf.of \in {s, NoSender} /\ spf.result # "fail"
                  /\ envelope' = MailFrom(s, spf)
    <3>1. PICK s \in Sender \cup {NullSender},
               spf \in [result : SPFResult, of : Sender \cup {NoSender}] :
                 /\ spf.of \in {s, NoSender} /\ spf.result # "fail"
                 /\ envelope' = MailFrom(s, spf)
      BY <2>3
    <3>2. envelope' = [mailFrom |-> s, rcptTo |-> <<>>, spfResult |-> spf, via |-> via]
      BY <3>1 DEF MailFrom, resetEnvelope, NoEnvelope
    <3>3. envelope' \in Envelope
      BY <3>2 DEF IInv, TypeOK, Envelope
    <3>4. Len(envelope'.rcptTo) <= MaxRcpt + 1
      BY <3>2, ConnAssumption
    <3>5. EnvelopeOK'
      BY <3>1, <3>2, <2>3, <1>1, <1>4, <1>5 DEF EnvelopeOK, MayMail, IInv, TLSOK, TypeOK
    <3> QED BY <3>3, <3>4, <3>5
  <2>4. \/ envelope' = envelope
        \/ envelope' = NoEnvelope
        \/ MayMail /\ envelope' = MailFrom(NullSender, NoSPF)
        \/ /\ MayMail
           /\ \E s \in Sender, result \in SPFResult : \E ok \in BOOLEAN :
                LET spf == [result |-> result, of |-> s]
                IN /\ ok => result # "fail"
                   /\ envelope' = IF ok THEN MailFrom(s, spf)
                                  ELSE [NoEnvelope EXCEPT !.spfResult = spf]
    BY DEF MAIL, resetEnvelope, checkSPF, SPFResult
  <2>5. CASE envelope' = NoEnvelope
    BY <2>5, EmptyEnvelope, ConnAssumption DEF EnvelopeOK
  <2>6. CASE MayMail /\ envelope' = MailFrom(NullSender, NoSPF)
    BY <2>6, <2>3, EmptyEnvelope DEF NoSPF
  <2>7. ASSUME MayMail, NEW s \in Sender, NEW result \in SPFResult, NEW ok \in BOOLEAN,
               ok => result # "fail",
               envelope' = IF ok THEN MailFrom(s, [result |-> result, of |-> s])
                           ELSE [NoEnvelope EXCEPT !.spfResult = [result |-> result, of |-> s]]
        PROVE  /\ envelope' \in Envelope /\ Len(envelope'.rcptTo) <= MaxRcpt + 1
               /\ EnvelopeOK'
    <3>1. [result |-> result, of |-> s] \in [result : SPFResult, of : Sender \cup {NoSender}]
      OBVIOUS
    <3>2. CASE ok
      BY <2>7, <3>1, <3>2, <2>3
    <3>3. CASE ~ok
      BY <2>7, <3>1, <3>3, <2>2
    <3> QED BY <3>2, <3>3
  <2> QED BY <2>1, <2>4, <2>5, <2>6, <2>7
<1> QED BY <1>1, <1>3, <1>4, <1>6, EnvelopeStep DEF IInv, TypeOK

(* RCPT adds a recipient of the sender, a remote one after AUTH only. *)
LEMMA RCPTKeeps == ASSUME IInv, RCPT PROVE IInv'
<1>1. pc = "command"
  BY DEF RCPT
<1>2. PICK error \in BOOLEAN : Says(error)
  BY DEF RCPT
<1>3. Replied(error, 0)
  BY <1>1, <1>2, ReplyFacts DEF Says, IInv, TypeOK
<1>4. UNCHANGED <<mode, onTLS, tlsConnState, ehloDomain, isESMTP>>
      /\ UNCHANGED <<auth, dkimVerifyResult, buffered, history>>
  BY DEF RCPT, session
<1>5. completedAuth' = completedAuth
  BY <1>4 DEF auth
<1>6. /\ envelope' \in Envelope /\ Len(envelope'.rcptTo) <= MaxRcpt + 1
      /\ EnvelopeOK'
  <2>1. CASE envelope' = envelope
    BY <2>1, <1>4, <1>5, EnvelopeKept DEF IInv, TypeOK
  <2>2. ASSUME envelope.mailFrom # NoSender, ~Full, NEW kind \in {"local", "remote"},
               kind = "remote" => completedAuth,
               envelope' = [envelope EXCEPT !.rcptTo = Append(@,
                             [kind |-> kind, from |-> envelope.mailFrom, via |-> via])]
        PROVE  /\ envelope' \in Envelope /\ Len(envelope'.rcptTo) <= MaxRcpt + 1
               /\ EnvelopeOK'
    <3> DEFINE r == [kind |-> kind, from |-> envelope.mailFrom, via |-> via]
    <3>1. envelope \in Envelope /\ envelope.rcptTo \in Seq(Rcpt)
      BY DEF IInv, TypeOK, Envelope
    <3>2. r \in Rcpt
      BY <2>2 DEF IInv, TypeOK, Envelope, Rcpt
    <3>3. /\ envelope'.mailFrom = envelope.mailFrom /\ envelope'.via = envelope.via
          /\ envelope'.spfResult = envelope.spfResult
          /\ envelope'.rcptTo = Append(envelope.rcptTo, r)
      BY <2>2, <3>1 DEF Envelope
    <3>4. Append(envelope.rcptTo, r) \in Seq(Rcpt)
      BY <3>1, <3>2
    <3>5. envelope' \in Envelope
      BY <2>2, <3>1, <3>4 DEF Envelope
    <3>6. Len(envelope'.rcptTo) <= MaxRcpt + 1
      BY <2>2, <3>1, <3>3, ConnAssumption DEF Full
    <3>7. ASSUME NEW i \in DOMAIN envelope'.rcptTo PROVE RcptOK(envelope.rcptTo[i])'
      <4>1. CASE i = Len(envelope.rcptTo) + 1
        <5>1. envelope'.rcptTo[i] = r
          BY <4>1, <3>1, <3>2, <3>3
        <5> QED BY <5>1, <2>2, <3>3, <1>1, <1>4, <1>5 DEF RcptOK, IInv, TLSOK
      <4>2. CASE i # Len(envelope.rcptTo) + 1
        <5>1. i \in DOMAIN envelope.rcptTo /\ envelope'.rcptTo[i] = envelope.rcptTo[i]
          BY <4>2, <3>1, <3>2, <3>3
        <5> QED BY <5>1, <3>3, <1>4, <1>5 DEF RcptOK, IInv, EnvelopeOK
      <4> QED BY <4>1, <4>2
    <3>8. EnvelopeOK'
      BY <3>3, <3>7, <1>4, <1>5 DEF EnvelopeOK, IInv
    <3> QED BY <3>5, <3>6, <3>8
  <2>3. \/ envelope' = envelope
        \/ /\ envelope.mailFrom # NoSender /\ ~Full
           /\ \E kind \in {"local", "remote"} :
                /\ kind = "remote" => completedAuth
                /\ envelope' = [envelope EXCEPT !.rcptTo = Append(@,
                                 [kind |-> kind, from |-> envelope.mailFrom, via |-> via])]
    BY DEF RCPT, MayRelay
  <2> QED BY <2>1, <2>2, <2>3
<1> QED BY <1>1, <1>3, <1>4, <1>6, EnvelopeStep DEF IInv, TypeOK

(* AUTH succeeds on TLS only. *)
LEMMA AUTHKeeps == ASSUME IInv, AUTH PROVE IInv'
<1>1. pc = "command"
  BY DEF AUTH
<1>2. PICK w \in {"ok", "broken"}, error \in BOOLEAN : Reply(w, error, 0)
  BY DEF AUTH, Says, IInv, TypeOK
<1>3. Replied(error, 0)
  BY <1>1, <1>2, ReplyFacts
<1>4. UNCHANGED <<mode, onTLS, tlsConnState, ehloDomain, isESMTP>>
      /\ UNCHANGED <<envelope, dkimVerifyResult, buffered, msgs, put, queued>>
  BY DEF AUTH, session, history
<1>5. \/ completedAuth' = completedAuth /\ authVia' = authVia
      \/ onTLS /\ completedAuth' = TRUE /\ authVia' = via
  BY DEF AUTH, auth, MayAuth
<1>6. answer' = answer /\ late' = late /\ lateCommands' = lateCommands /\ via' = via
  BY <1>3 DEF Replied
<1>7. TypeOK'
  BY <1>3, <1>4, <1>5, <1>6 DEF IInv, TypeOK, Replied
<1>8. Strikes'
  BY <1>3 DEF Strikes, Replied
<1>9. EnvelopeOK'
  BY <1>4, <1>5, EnvelopeKept DEF IInv
<1>10. TLSOK'
  BY <1>1, <1>3, <1>4, <1>5 DEF IInv, TLSOK, Replied
<1>11. PutOK'
  BY <1>4 DEF IInv, PutOK, RelayNeedsAuth, OneTransaction, VerifiedOwnDKIM
<1>12. AnswerOK'
  BY <1>4, <1>6 DEF IInv, AnswerOK, AnswerIsTrue
<1>13. LateOK'
  BY <1>3, <1>6 DEF IInv, LateOK, Replied
<1> QED BY <1>7, <1>8, <1>9, <1>10, <1>11, <1>12, <1>13 DEF IInv

(* STARTTLS drops the envelope and what was buffered. *)
LEMMA STARTTLSKeeps == ASSUME IInv, STARTTLS PROVE IInv'
<1>1. pc = "command" /\ UNCHANGED <<mode, ehloDomain, isESMTP, completedAuth, authVia,
        dkimVerifyResult, msgs, put, queued>>
  BY DEF STARTTLS, auth, history
<1>2. CASE UNCHANGED <<onTLS, tlsConnState, envelope, buffered>>
           /\ \E w \in {"ok", "broken"} : Reply(w, TRUE, 0)
  <2>1. Replied(TRUE, 0)
    BY <1>1, <1>2, ReplyFacts
  <2>2. EnvelopeOK'
    BY <1>1, <1>2, EnvelopeKept DEF IInv
  <2> QED BY <1>1, <1>2, <2>1, <2>2, EnvelopeStep DEF IInv, TypeOK, auth, history
<1>3. CASE /\ ~onTLS /\ onTLS' = TRUE /\ tlsConnState' = TRUE
           /\ envelope' = NoEnvelope /\ buffered' = "none" /\ pc' = "top"
           /\ UNCHANGED <<errCount, writer, late, via, answer, lateCommands>>
  <2>1. Len(envelope'.rcptTo) <= MaxRcpt + 1
    BY <1>3, EmptyEnvelope, ConnAssumption
  <2>2. TypeOK'
    BY <1>1, <1>3, <2>1, EmptyEnvelope DEF IInv, TypeOK
  <2>3. Strikes' /\ LateOK'
    BY <1>1, <1>3 DEF IInv, Strikes, LateOK
  <2>4. EnvelopeOK'
    BY <1>3, EmptyEnvelope DEF EnvelopeOK
  <2>5. TLSOK'
    BY <1>1, <1>3 DEF IInv, TLSOK
  <2>6. PutOK' /\ AnswerOK'
    BY <1>1, <1>3 DEF IInv, PutOK, RelayNeedsAuth, OneTransaction, VerifiedOwnDKIM,
                      AnswerOK, AnswerIsTrue
  <2> QED BY <2>2, <2>3, <2>4, <2>5, <2>6 DEF IInv
<1> QED BY <1>2, <1>3 DEF STARTTLS, Says, IInv, TypeOK, resetEnvelope, NewReader

-----------------------------------------------------------------------------
(* The message that Put gets from a good envelope. *)
LEMMA MessageIsGood ==
  ASSUME IInv, MayData, NEW m \in 1..MaxMsgs, NEW dkim \in 0..MaxMsgs,
         ~completedAuth => dkim \in {0, m},
         put' = Message(m, dkim), mode' = mode
  PROVE  put' \in Msg /\ PutOK'
<1>1. envelope \in Envelope /\ envelope.rcptTo \in Seq(Rcpt)
  BY DEF IInv, TypeOK, Envelope
<1>2. /\ put'.id = m /\ put'.from = envelope.mailFrom /\ put'.to = envelope.rcptTo
      /\ put'.auth = completedAuth /\ put'.onTLS = onTLS
      /\ put'.spf = envelope.spfResult /\ put'.dkim = dkim
  BY DEF Message
<1>3. put' \in Msg
  BY <1>1 DEF Message, Msg, IInv, TypeOK, EnvelopeOK, MayData, Envelope
<1>4. RelayNeedsAuth'
  BY <1>2 DEF RelayNeedsAuth, IInv, EnvelopeOK, RcptOK, TLSOK, MayData
<1>5. OneTransaction'
  BY <1>2 DEF OneTransaction, IInv, EnvelopeOK, RcptOK, MayData
<1>6. VerifiedOwnDKIM'
  BY <1>2 DEF VerifiedOwnDKIM
<1> QED BY <1>3, <1>4, <1>5, <1>6 DEF PutOK

(* A DATA step that answers message m = msgs + 1, with what it did to it.  *)
LEMMA DataStep ==
  ASSUME IInv, pc = "command", NEW m \in 1..MaxMsgs, m = msgs + 1, msgs' = m,
         UNCHANGED <<session, auth, buffered, late, via, lateCommands>>,
         errCount' \in 0..3, pc' \in {"top", "closed"}, pc' = "top" => errCount' <= 2,
         writer' \in {"ok", "broken"}, dkimVerifyResult' \in 0..MaxMsgs,
         envelope' = envelope \/ envelope' = NoEnvelope,
         put' = put \/ (put' \in Msg /\ PutOK'),
         \/ queued' = queued /\ (answer' = answer \/ answer' = [answer EXCEPT ![m] = "refused"])
         \/ queued' = queued \cup {m}
            /\ (answer' = answer \/ answer' = [answer EXCEPT ![m] = "accepted"])
  PROVE  IInv'
<1>1. UNCHANGED <<mode, onTLS, tlsConnState, ehloDomain, isESMTP, completedAuth, authVia>>
  BY DEF session, auth
<1>2. Len(envelope'.rcptTo) <= MaxRcpt + 1 /\ envelope' \in Envelope
  BY EmptyEnvelope, ConnAssumption DEF IInv, TypeOK
<1>3. /\ answer' \in [1..MaxMsgs -> {"none", "accepted", "refused"}]
      /\ queued' \in SUBSET (1..MaxMsgs) /\ msgs' \in 0..MaxMsgs
  <2>1. answer \in [1..MaxMsgs -> {"none", "accepted", "refused"}] /\ queued \in SUBSET (1..MaxMsgs)
    BY DEF IInv, TypeOK
  <2>2. answer' \in [1..MaxMsgs -> {"none", "accepted", "refused"}]
    BY <2>1
  <2>3. queued' \in SUBSET (1..MaxMsgs)
    BY <2>1
  <2>4. msgs' \in 0..MaxMsgs
    BY ConnAssumption
  <2> QED BY <2>2, <2>3, <2>4
<1>4. TypeOK'
  BY <1>1, <1>2, <1>3 DEF IInv, TypeOK
<1>5. Strikes' /\ LateOK'
  BY DEF IInv, Strikes, LateOK
<1>6. EnvelopeOK'
  <2>1. CASE envelope' = envelope
    BY <1>1, <2>1, EnvelopeKept DEF IInv
  <2>2. CASE envelope' = NoEnvelope
    BY <2>2, EmptyEnvelope DEF EnvelopeOK
  <2> QED BY <2>1, <2>2
<1>7. TLSOK'
  BY <1>1 DEF IInv, TLSOK
<1>8. PutOK'
  BY <1>1 DEF IInv, PutOK, RelayNeedsAuth, OneTransaction, VerifiedOwnDKIM
<1>9. AnswerOK'
  <2> SUFFICES ASSUME NEW n \in 1..MaxMsgs
               PROVE  /\ answer'[n] = "accepted" => n \in queued'
                      /\ answer'[n] = "refused" => n \notin queued'
                      /\ n > msgs' => answer'[n] = "none" /\ n \notin queued'
    BY DEF AnswerOK, AnswerIsTrue
  <2>1. answer[m] = "none" /\ m \notin queued
    BY DEF IInv, AnswerOK, TypeOK
  <2>2. CASE n = m
    <3>1. ~(n > msgs')
      BY <2>2
    <3>2. answer \in [1..MaxMsgs -> {"none", "accepted", "refused"}]
      BY DEF IInv, TypeOK
    <3>3. CASE queued' = queued
      <4>1. answer'[n] # "accepted"
        BY <2>1, <2>2, <3>2, <3>3
      <4> QED BY <2>1, <2>2, <3>1, <3>3, <4>1
    <3>4. CASE queued' = queued \cup {m}
      <4>1. answer'[n] # "refused"
        BY <2>1, <2>2, <3>2, <3>4
      <4> QED BY <2>2, <3>1, <3>4, <4>1
    <3> QED BY <3>3, <3>4
  <2>3. CASE n # m
    <3>1. answer'[n] = answer[n] /\ (n \in queued' <=> n \in queued)
      BY <2>3 DEF IInv, TypeOK
    <3>2. n > msgs' => n > msgs
      BY DEF IInv, TypeOK
    <3> QED BY <3>1, <3>2 DEF IInv, AnswerOK, AnswerIsTrue
  <2> QED BY <2>2, <2>3
<1> QED BY <1>4, <1>5, <1>6, <1>7, <1>8, <1>9 DEF IInv

LEMMA DATAKeeps == ASSUME IInv, DATA PROVE IInv'
<1>1. pc = "command" /\ UNCHANGED <<session, auth, buffered>>
  BY DEF DATA
<1>2. CASE Says(TRUE) /\ UNCHANGED <<envelope, dkimVerifyResult, history>>
  <2>1. Replied(TRUE, 0)
    BY <1>1, <1>2, ReplyFacts DEF Says, IInv, TypeOK
  <2>2. EnvelopeOK'
    BY <1>1, <1>2, EnvelopeKept DEF IInv, session, auth
  <2> QED BY <1>1, <1>2, <2>1, <2>2, EnvelopeStep DEF IInv, TypeOK, session
<1>3. ASSUME MayData, msgs < MaxMsgs, NEW w \in {"ok", "broken"}, DataFor(msgs + 1, w)
      PROVE  IInv'
  <2> DEFINE m == msgs + 1
  <2>1. m \in 1..MaxMsgs /\ msgs' = m
    <3>1. msgs \in 0..MaxMsgs
      BY DEF IInv, TypeOK
    <3>2. msgs' = m
      BY <1>3 DEF DataFor
    <3> QED BY <1>3, <3>1, <3>2, ConnAssumption
  <2>2. m # 0
    BY <2>1
  <2>3. CASE DataInvalid(m, w) /\ UNCHANGED dkimVerifyResult
    <3>1. UNCHANGED <<envelope, put, queued, errCount, late, via, lateCommands>>
      BY <2>3 DEF DataInvalid
    <3>2. pc' = "closed" /\ writer' \in {"ok", "broken"}
      BY <2>3 DEF DataInvalid
    <3>3. answer' = answer \/ answer' = [answer EXCEPT ![m] = "refused"]
      BY <2>3 DEF DataInvalid
    <3> HIDE DEF m
    <3> QED BY <1>1, <2>1, <2>3, <3>1, <3>2, <3>3, DataStep DEF IInv, TypeOK, m
  <2>4. ASSUME DataRefused(m, w), dkimVerifyResult' \in 0..MaxMsgs PROVE IInv'
    <3>1. Replied(TRUE, m)
      BY <1>1, <2>4, ReplyFacts DEF DataRefused
    <3>2. UNCHANGED <<envelope, put, queued>>
      BY <2>4 DEF DataRefused
    <3>3. answer' = answer \/ answer' = [answer EXCEPT ![m] = "refused"]
      BY <3>1 DEF Replied
    <3> QED BY <1>1, <2>1, <2>4, <3>1, <3>2, <3>3, DataStep DEF Replied
  <2>5. CASE DataQueue(m, w)
    <3>1. dkimVerifyResult' \in 0..MaxMsgs /\ (~completedAuth => dkimVerifyResult' \in {0, m})
      BY <2>1, <2>5, ConnAssumption DEF DataQueue, dkimVerify, IInv, TypeOK
    <3>2. ASSUME NEW stored \in BOOLEAN, Reply(w, PutFails(stored), m),
                 queued' = IF stored THEN queued \cup {m} ELSE queued,
                 put' = IF stored THEN Message(m, dkimVerifyResult') ELSE put,
                 envelope' = IF PutFails(stored) THEN envelope ELSE resetEnvelope(envelope)
          PROVE  IInv'
      <4>1. Replied(~stored, m)
        BY <1>1, <3>2, ReplyFacts DEF PutFails
      <4>2. envelope' = envelope \/ envelope' = NoEnvelope
        BY <3>2 DEF resetEnvelope
      <4>3. put' = put \/ (put' \in Msg /\ PutOK')
        <5>1. mode' = mode
          BY <1>1 DEF session
        <5> QED BY <1>3, <2>1, <3>1, <3>2, <5>1, MessageIsGood
      <4>4. \/ queued' = queued /\ (answer' = answer \/ answer' = [answer EXCEPT ![m] = "refused"])
            \/ queued' = queued \cup {m}
               /\ (answer' = answer \/ answer' = [answer EXCEPT ![m] = "accepted"])
        BY <3>2, <4>1 DEF Replied
      <4> QED BY <1>1, <2>1, <3>1, <4>1, <4>2, <4>3, <4>4, DataStep DEF Replied
    <3> QED BY <2>4, <2>5, <3>1, <3>2 DEF DataQueue
  <2>6. dkimVerifyResult \in 0..MaxMsgs
    BY DEF IInv, TypeOK
  <2> QED BY <1>3, <2>3, <2>4, <2>5, <2>6 DEF DataFor
<1> QED BY <1>2, <1>3 DEF DATA

-----------------------------------------------------------------------------
(* The invariant is inductive. *)
THEOREM Inductive == Spec => []IInv
<1>1. ASSUME IInv, [Next]_vars PROVE IInv'
  <2>1. CASE UNCHANGED vars
    <3>1. UNCHANGED <<mode, onTLS, tlsConnState, ehloDomain, isESMTP, completedAuth, authVia,
                      envelope, msgs, put, queued, answer>>
      BY <2>1 DEF vars, session, auth, history
    <3>2. UNCHANGED <<pc, dkimVerifyResult, errCount, buffered, writer, late, via, lateCommands>>
      BY <2>1 DEF vars
    <3>3. TypeOK'
      BY <1>1, <3>1, <3>2 DEF IInv, TypeOK
    <3>4. EnvelopeOK' /\ Strikes' /\ LateOK' /\ TLSOK'
      BY <1>1, <3>1, <3>2, EnvelopeKept DEF IInv, Strikes, LateOK, TLSOK
    <3>5. PutOK' /\ AnswerOK'
      BY <1>1, <3>1 DEF IInv, PutOK, RelayNeedsAuth, OneTransaction, VerifiedOwnDKIM,
                        AnswerOK, AnswerIsTrue
    <3> QED BY <3>3, <3>4, <3>5 DEF IInv
  <2>2. CASE Next
    BY <1>1, <2>2, LoopStep, GreetingsKeep, RSETKeeps, MAILKeeps, RCPTKeeps, DATAKeeps,
       STARTTLSKeeps, AUTHKeeps DEF Next, Handle, Handler
  <2> QED BY <1>1, <2>1, <2>2
<1> QED BY <1>1, InitHolds, PTL DEF Spec

(* Every variable of a session keeps its type; a message has at most one   *)
(* recipient more than the number RCPT compares with.                      *)
THEOREM TypeCorrect == Spec => []TypeOK
<1>1. IInv => TypeOK
  BY DEF IInv
<1> QED BY <1>1, Inductive, PTL

(* No sequence of commands relays, or submits, without authentication over *)
(* TLS.                                                                    *)
THEOREM NoRelayWithoutAuth == Spec => []RelayNeedsAuth
<1>1. IInv => RelayNeedsAuth
  BY DEF IInv, PutOK
<1> QED BY <1>1, Inductive, PTL

(* No sequence of commands mixes the envelopes of two transactions. *)
THEOREM EnvelopesAreWhole == Spec => []OneTransaction
<1>1. IInv => OneTransaction
  BY DEF IInv, PutOK
<1> QED BY <1>1, Inductive, PTL

(* Nothing that was sent in the clear counts after STARTTLS. *)
THEOREM TLSIsClean == Spec => []NothingFromPlaintext
<1>1. IInv => NothingFromPlaintext
  BY DEF IInv, NothingFromPlaintext, TLSOK, EnvelopeOK, RcptOK
<1> QED BY <1>1, Inductive, PTL

(* The client is never told something false about a message. *)
THEOREM AnswersAreTrue == Spec => []AnswerIsTrue
<1>1. IInv => AnswerIsTrue
  BY DEF IInv, AnswerOK
<1> QED BY <1>1, Inductive, PTL

(* Unauthenticated messages carry their own DKIM results. *)
THEOREM DKIMResultsAreOwn == Spec => []VerifiedOwnDKIM
<1>1. IInv => VerifiedOwnDKIM
  BY DEF IInv, PutOK
<1> QED BY <1>1, Inductive, PTL

(* At most one command is served after the deadline. *)
THEOREM OneCommandTooLate == Spec => []OneLateCommand
<1>1. IInv => OneLateCommand
  BY DEF IInv, LateOK, OneLateCommand
<1> QED BY <1>1, Inductive, PTL
=============================================================================
