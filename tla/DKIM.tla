-------------------------------- MODULE DKIM --------------------------------
(***************************************************************************)
(* DKIM (internal/dkim): the life of one message. The server of the sender   *)
(* signs it with each of its keys, it passes through other servers, which    *)
(* may add header fields and signatures of their own, and the server of the  *)
(* recipient verifies the signatures it finds.                               *)
(*                                                                           *)
(* A header field has a name (letter case is folded), a value and a flag for *)
(* the white space and line folds in it. A value is a list of tags, each a   *)
(* list of words; an ordinary field has the one tag "text". Hashes are the   *)
(* data they stand for, and a signature is a name in the table "made" of     *)
(* what was signed with which key.                                           *)
(***************************************************************************)
EXTENDS Integers, Sequences, FiniteSets, SequencesExt

CONSTANTS headersToSign,        \* as in sign.go, fewer
          extraHeadersToSign,
          maxHeaders,           \* how many signatures are looked at
          Signers,              \* the keys of the sender's domain, in order
          Others,               \* signatures that other servers add
          Messages,             \* what the sender writes
          Zone,                 \* selector -> the TXT records of its key
          MaxHops,              \* bound on the changes on the way
          NoSig                 \* a signature that nobody made

\* sign.go:46: "If they're included here, they must be in headersToSign too."
ASSUME DKIMAssumption ==
    /\ Range(extraHeadersToSign) \subseteq Range(headersToSign)
    /\ "from" \in Range(headersToSign)
    /\ maxHeaders \in Nat /\ MaxHops \in Nat

VARIABLES msg,      \* the message: headers and body
          made,     \* selector -> what was signed under this name, or NoSig
          signed,   \* how many keys of the sender have signed
          stage,    \* "sign", "way", "verify" or "verified"
          hops,     \* changes made on the way
          altered,  \* selectors whose signatures need not hold any more
          results   \* VerifyResult.Results

dkimVars == <<msg, made, signed, stage, hops, altered, results>>

SigName == "dkim-signature"
Field(n, v) == [name |-> n, folded |-> FALSE, val |-> <<<<"text", <<v>>>>>>]

----------------------------------------------------------------------------
(* message.go and canonicalize.go *)
FindAll(hs, n) == SelectSeq(hs, LAMBDA h : h.name = n)

relaxHeader(h) == [h EXCEPT !.folded = FALSE]
canonHeader(c, h) == IF c = "relaxed" THEN relaxHeader(h) ELSE h

\* A body is a list of "x" (text), "_" (white space) and "/" (CRLF).
Cut(s, Keep(_)) ==
    FoldLeft(LAMBDA t, i : IF Keep(i) THEN Append(t, s[i]) ELSE t,
             <<>>, [i \in DOMAIN s |-> i])

wspBeforeCRLF(b) ==
    Cut(b, LAMBDA i : ~\E j \in (i+1)..Len(b) :
                          b[j] = "/" /\ \A k \in i..(j-1) : b[k] = "_")
repeatedWSP(b) == Cut(b, LAMBDA i : ~(i > 1 /\ b[i] = "_" /\ b[i-1] = "_"))
repeatedCRLFAtTheEnd(b) ==
    Cut(b, LAMBDA i : ~(i > 1 /\ \A k \in (i-1)..Len(b) : b[k] = "/"))
ensureCRLF(b) == IF b # <<>> /\ b[Len(b)] = "/" THEN b ELSE Append(b, "/")

simpleBody(b) == ensureCRLF(repeatedCRLFAtTheEnd(b))
\* Mutant: empty lines at the end stay.
relaxBody_KeepLines(b) ==
    LET r == repeatedWSP(wspBeforeCRLF(b)) IN IF r = <<>> THEN r ELSE ensureCRLF(r)
relaxBody(b) ==
    LET r == repeatedCRLFAtTheEnd(repeatedWSP(wspBeforeCRLF(b)))
    IN  IF r = <<>> THEN r ELSE ensureCRLF(r)
canonBody(c, b) == IF c = "relaxed" THEN relaxBody(b) ELSE simpleBody(b)

----------------------------------------------------------------------------
(* header.go *)
Words(val, t) ==
    LET at == {i \in DOMAIN val : val[i][1] = t}
    IN  IF at = {} THEN <<>> ELSE val[CHOOSE i \in at : TRUE][2]

parseTags(val) == \A i, j \in DOMAIN val :
                     val[i][1] # "" /\ (val[i][1] = val[j][1] => i = j)

keyTypeFromString(w) == w \in {"rsa", "ed25519"}
hashFromString(w) == w = "sha256"
stringToCanonicalization(w) == w \in {"simple", "relaxed"}

cH(val) == IF Words(val, "c") = <<>> THEN "simple" ELSE Words(val, "c")[1]
cB(val) == IF Len(Words(val, "c")) < 2 THEN "simple" ELSE Words(val, "c")[2]

\* i= is a user followed by the labels of a domain, d= the labels.
checkRequiredTags(val) ==
    /\ \A t \in {"b", "bh", "d", "h", "s"} : Words(val, t) # <<>>
    /\ "from" \in Range(Words(val, "h"))
    /\ Words(val, "i") # <<>> => IsSuffix(Words(val, "d"), Tail(Words(val, "i")))

dkimSignatureFromHeader(val) ==
    /\ parseTags(val)
    /\ Words(val, "v") = <<"1">>
    /\ LET a == Words(val, "a") IN
       Len(a) = 2 /\ keyTypeFromString(a[1]) /\ hashFromString(a[2])
    /\ stringToCanonicalization(cH(val)) /\ stringToCanonicalization(cB(val))
    /\ Words(val, "q") # <<>> => "dns/txt" \in Range(Words(val, "q"))
    /\ checkRequiredTags(val)

----------------------------------------------------------------------------
(* sign.go *)
times(n, w) == [i \in 1..n |-> w]

\* Mutant: without the extra names.
hsForHeader_NoExtra(hs) ==
    FlattenSeq([i \in DOMAIN headersToSign |->
                  times(Len(FindAll(hs, headersToSign[i])), headersToSign[i])])
hsForHeader(hs) ==
    FlattenSeq([i \in DOMAIN headersToSign |->
                  times(Len(FindAll(hs, headersToSign[i])), headersToSign[i])])
    \o extraHeadersToSign

\* The fields that Sign hashes, from the first to the last of each name.
signedFields(hs) ==
    FlattenSeq([i \in DOMAIN headersToSign |-> FindAll(hs, headersToSign[i])])

\* hash(b) is a hash in name only: it is never empty, and tells all bodies apart.
hash(b) == <<"sha256">> \o b

sigValue(s, m) ==
    <<<<"v", <<"1">>>>, <<"a", <<s.type, "sha256">>>>,
      <<"c", <<"relaxed", "relaxed">>>>, <<"d", s.domain>>, <<"s", <<s.selector>>>>,
      <<"h", hsForHeader(m.headers)>>, <<"bh", hash(relaxBody(m.body))>>, <<"b", <<>>>>>>

withB(val, b) == [i \in DOMAIN val |-> IF val[i][1] = "b" THEN <<"b", b>> ELSE val[i]]
sigHeader(val) == [name |-> SigName, folded |-> TRUE, val |-> val]

\* One turn of the loop of Conn.dkimSign.
Sign ==
    /\ stage = "sign" /\ signed < Len(Signers)
    /\ LET s == Signers[signed + 1]
           v == sigValue(s, msg)
           fields == signedFields(msg.headers)
       IN  /\ made' = [made EXCEPT ![s.selector] =
                 [key |-> s.key,
                  over |-> [i \in DOMAIN fields |-> relaxHeader(fields[i])]
                           \o <<relaxHeader(sigHeader(v))>>]]
           /\ msg' = [msg EXCEPT !.headers =
                 <<sigHeader(withB(v, <<s.selector>>))>> \o @]
    /\ signed' = signed + 1
    /\ UNCHANGED <<stage, hops, altered, results>>

Send == /\ stage = "sign" /\ signed = Len(Signers) /\ stage' = "way"
        /\ UNCHANGED <<msg, made, signed, hops, altered, results>>

----------------------------------------------------------------------------
(* Other servers, on the way. A signer that follows RFC 6376 hashes, for the *)
(* k-th time that a name is in h=, the k-th field of that name from below.   *)
Selected(hs, h) ==
    Cut([p \in DOMAIN h |->
           LET all == FindAll(hs, h[p])
               k == Cardinality({q \in 1..p : h[q] = h[p]})
           IN  IF k <= Len(all) THEN all[Len(all) - k + 1] ELSE Field("", "")],
        LAMBDA p : Cardinality({q \in 1..p : h[q] = h[p]}) <= Len(FindAll(hs, h[p])))

truncated(b, l) == IF l = 0 THEN b ELSE SubSeq(b, 1, l)

\* A signature o of another server. l= is at most the length of the body.
AddSignature(o) ==
    LET body == canonBody(cB(o.tags), msg.body)
        l == Len(Words(o.tags, "l"))
        v == o.tags \o <<<<"bh", hash(truncated(body, l))>>, <<"b", <<>>>>>>
        fields == Selected(msg.headers, Words(v, "h"))
        own == sigHeader(withB(v, <<o.selector>>))
        c(h) == canonHeader(cH(v), h)
    IN  /\ made[o.selector] = NoSig /\ l <= Len(body)
        /\ made' = [made EXCEPT ![o.selector] =
              [key |-> o.key,
               over |-> [i \in DOMAIN fields |-> c(fields[i])]
                        \o <<c([own EXCEPT !.val = v])>>]]
        /\ msg' = [msg EXCEPT !.headers = <<own>> \o @]
        /\ UNCHANGED altered

Own == {Signers[i].selector : i \in DOMAIN Signers}
Theirs == {o.selector : o \in Others}

\* A field on top. A signature names a field more often than it is there to
\* keep others from being added.
AddField(n) ==
    /\ msg' = [msg EXCEPT !.headers = <<Field(n, "added")>> \o @]
    /\ altered' = altered \cup Theirs
                  \cup (IF n \in Range(extraHeadersToSign) THEN Own ELSE {})
    /\ UNCHANGED made

\* A field that the sender wrote gets another value.
AlterField(i) ==
    /\ msg.headers[i].name # SigName
    /\ msg.headers[i].val # Field("", "added").val
    /\ msg' = [msg EXCEPT !.headers[i].val = <<<<"text", <<"altered">>>>>>]
    /\ altered' = altered \cup Theirs
                  \cup (IF msg.headers[i].name \in Range(headersToSign) THEN Own ELSE {})
    /\ UNCHANGED made

Refold(i) ==
    /\ msg' = [msg EXCEPT !.headers[i].folded = ~@]
    /\ altered' = altered \cup Theirs
    /\ UNCHANGED made

\* White space at the end of a line, or an empty line at the end of a text.
PadBody ==
    /\ \/ \E i \in DOMAIN msg.body :
             msg.body[i] = "/" /\ msg' = [msg EXCEPT !.body = InsertAt(@, i, "_")]
       \/ "x" \in Range(msg.body) /\ msg' = [msg EXCEPT !.body = Append(@, "/")]
    /\ altered' = altered \cup Theirs
    /\ UNCHANGED made

AlterBody ==
    /\ msg' = [msg EXCEPT !.body = <<"x">> \o @]
    /\ altered' = Own \cup Theirs
    /\ UNCHANGED made

Hop ==
    /\ stage = "way" /\ hops < MaxHops /\ hops' = hops + 1
    /\ \/ \E o \in Others : AddSignature(o)
       \/ \E n \in Range(headersToSign) \cup {"received"} : AddField(n)
       \/ \E i \in DOMAIN msg.headers : AlterField(i) \/ Refold(i)
       \/ PadBody
       \/ AlterBody
    /\ UNCHANGED <<signed, stage, results>>

Arrive == /\ stage = "way" /\ stage' = "verify"
          /\ UNCHANGED <<msg, made, signed, hops, altered, results>>

----------------------------------------------------------------------------
(* dns.go *)
\* A TXT record, after parsePublicKey: unusable ones are skipped.
parsePublicKey(r) ==
    r.v \in {"", "DKIM1"} /\ (r.k = "" \/ keyTypeFromString(r.k)) /\ r.p # ""

K(r) == IF r.k = "" THEN "rsa" ELSE r.k
H(r) == SelectSeq(r.h, hashFromString)

Matches(r, kt, h) == K(r) = kt /\ (H(r) # <<>> => h \in Range(H(r)))
StrictDomainCheck(r) == "s" \in Range(r.t)

findPublicKeys(sel) == SelectSeq(Zone[sel], parsePublicKey)

----------------------------------------------------------------------------
(* verify.go *)
headersToInclude(sigH, hTag, hs) ==
    FoldLeft(LAMBDA acc, n :
        LET all == Reverse(FindAll(hs, n))
            i == acc.seen[n]
        IN  IF i >= Len(all) THEN acc
            ELSE [seen |-> [acc.seen EXCEPT ![n] = @ + 1],
                  include |-> IF all[i+1] = sigH THEN acc.include
                              ELSE Append(acc.include, all[i+1])],
        [seen |-> [n \in Range(hTag) |-> 0], include |-> <<>>], hTag).include

Result(sel, state, error) == [selector |-> sel, state |-> state, error |-> error]

\* d is what the lookup of the key meets.
verifySignature(sigH, hs, body, d) ==
    LET val == sigH.val
        sel == Words(val, "s")[1]
        bodyC == truncated(canonBody(cB(val), body), Len(Words(val, "l")))
        fields == headersToInclude(sigH, Words(val, "h"), hs)
        c(h) == canonHeader(cH(val), h)
        bSum == [i \in DOMAIN fields |-> c(fields[i])]
                \o <<c([sigH EXCEPT !.val = withB(val, <<>>)])>>
        domain == Tail(Words(val, "i"))
        signs(pk) == /\ Matches(pk, Words(val, "a")[1], Words(val, "a")[2])
                     /\ \/ Words(val, "i") = <<>> \/ ~StrictDomainCheck(pk)
                        \/ domain = Words(val, "d")
                     /\ made[Words(val, "b")[1]] = [key |-> pk.p, over |-> bSum]
    IN  IF ~dkimSignatureFromHeader(val) THEN Result("", "PERMFAIL", "header")
        ELSE IF d # "found"
             THEN Result(sel, IF d = "temporary" THEN "TEMPFAIL" ELSE "PERMFAIL", "dns")
        ELSE IF hash(bodyC) # Words(val, "bh") THEN Result(sel, "PERMFAIL", "body hash")
        ELSE IF \E pk \in Range(findPublicKeys(sel)) : signs(pk)
             THEN Result(sel, "SUCCESS", "")
        ELSE Result(sel, "PERMFAIL", "verification")

signatures == FindAll(msg.headers, SigName)

\* One turn of the loop of VerifyMessage.
VerifyNext ==
    /\ stage = "verify" /\ Len(results) < Min({Len(signatures), maxHeaders})
    /\ \E d \in {"found", "temporary", "permanent"} :
         results' = Append(results,
            verifySignature(signatures[Len(results) + 1], msg.headers, msg.body, d))
    /\ UNCHANGED <<msg, made, signed, stage, hops, altered>>

VerifyDone ==
    /\ stage = "verify" /\ Len(results) = Min({Len(signatures), maxHeaders})
    /\ stage' = "verified"
    /\ UNCHANGED <<msg, made, signed, hops, altered, results>>

\* How AuthenticationResults reports a result.
Reported(r) ==
    CASE r.state = "SUCCESS" -> "pass"
      [] r.state = "TEMPFAIL" -> "temperror"
      [] r.error \in {"verification", "body hash"} -> "fail"
      [] OTHER -> "permerror"

DKIMInit == /\ msg \in Messages
            /\ made = [s \in Own \cup Theirs |-> NoSig]
            /\ signed = 0 /\ stage = "sign" /\ hops = 0
            /\ altered = {} /\ results = <<>>

DKIMNext == Sign \/ Send \/ Hop \/ Arrive \/ VerifyNext \/ VerifyDone

DKIMSpec == DKIMInit /\ [][DKIMNext]_dkimVars

----------------------------------------------------------------------------
Good == Own \cup {o.selector : o \in {x \in Others : x.good}}

(* A signature that nothing on the way invalidated is reported as valid,     *)
(* unless its key cannot be looked up: signer and verifier choose the same   *)
(* fields in the same order, and white space and other signatures do not     *)
(* disturb them.                                                             *)
SignaturesHold ==
    \A r \in Range(results) :
       r.selector \in Good \ altered /\ r.error # "dns" => Reported(r) = "pass"

(* A signature of ours is never reported as valid once what it covers was    *)
(* changed, or a field that extraHeadersToSign protects was added; nor is    *)
(* a signature that does not follow the rules.                               *)
ChangeDetected ==
    \A r \in Range(results) :
       r.selector \in (altered \cap Own) \cup (Theirs \ Good) => Reported(r) # "pass"
============================================================================
