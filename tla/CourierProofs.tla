---------------------------- MODULE CourierProofs ----------------------------
(***************************************************************************)
(* Proofs about the couriers on top of the database of security levels,    *)
(* whose own invariant (DomainInfoProofs) holds in every state of Courier: *)
(* for any number of calls, hosts, policies and domains, and any faults.   *)
(***************************************************************************)
EXTENDS Courier, DomainInfoProofs, SequenceTheorems

Pcs == {"idle", "sts", "next", "dial", "tls", "check", "mail", "data", "mda", "done", "dead"}

DomainOrNone == Domain \cup {None}
PolicyOrNone == Policy \cup {None}
Results == {"sent", "permanent", "transient", None}

Attempts ==
  [pc : Pcs, dom : DomainOrNone, hosts : Seq(Host), policy : PolicyOrNone,
   skipTLS : BOOLEAN, secLevel : Level("outgoing"), result : Results,
   wire : Level("outgoing"), floor : SecLevel, tries : Nat]

(* What the variables of a call say at each point of attempt.deliver. *)
Good(r) ==
  /\ r.pc \in {"sts", "next", "dial", "tls", "check", "mail", "data"} => r.dom \in Domain
  /\ r.pc = "sts" => Len(r.hosts) \in 1..MaxMXs
  /\ r.pc \in {"dial", "tls", "check", "mail", "data"} =>
       r.hosts # <<>> /\ MXIsAllowed(r.policy, Head(r.hosts))
  /\ r.pc \in {"idle", "sts", "next", "dial", "tls"} => r.wire = 0
  /\ r.pc \in {"idle", "sts", "next"} => r.tries = 0 /\ ~r.skipTLS
  /\ r.pc = "dial" => r.tries = IF r.skipTLS THEN 1 ELSE 0
  /\ r.pc = "tls" => r.tries = 1 /\ ~r.skipTLS
  /\ r.tries <= 2
  /\ r.pc \in {"check", "mail", "data"} => r.wire = r.secLevel
  /\ r.pc \in {"mail", "data"} /\ Enforced(r.policy) => r.wire = 3

(* What they say about the database. *)
Held(r) ==
  /\ r.pc \in {"tls", "check"} => r.floor <= shown[r.dom]["outgoing"]
  /\ r.pc \in {"mail", "data"} /\ r.dom \notin forgot => r.wire >= r.floor

CInv ==
  /\ att \in [Attempt -> Attempts]
  /\ \A a \in Attempt : Good(att[a]) /\ Held(att[a])

(* The database does not go below what it had shown for d. *)
Kept(d) ==
  /\ shown[d]["outgoing"] <= shown'[d]["outgoing"]
  /\ d \in forgot => d \in forgot'

(* NewAttempt is a call, at the level of a plain connection. *)
LEMMA NewCall == NewAttempt \in Attempts /\ 0 \in Level("outgoing")
BY DEF NewAttempt, Attempts, Pcs, SecLevel, Level, DomainOrNone, PolicyOrNone, Results

(* The first state of the couriers. *)
LEMMA CourierInitHolds == CourierInit => IInv /\ CInv
<1> SUFFICES ASSUME CourierInit PROVE IInv /\ CInv OBVIOUS
<1>1. IInv
  BY InitHolds DEF CourierInit
<1>2. NewAttempt \in Attempts
  BY NewCall
<1>3. Good(NewAttempt) /\ Held(NewAttempt)
  BY DEF NewAttempt, Good, Held
<1> QED BY <1>1, <1>2, <1>3 DEF CourierInit, CInv

(* No check of a level lowers what any domain has shown. *)
LEMMA CheckKeeps ==
  ASSUME IInv, NEW d \in Domain, NEW dir \in Dir, NEW level \in Level(dir),
         CheckSecLevel(d, dir, level), NEW e \in Domain
  PROVE  Kept(e)
<1>1. level \in SecLevel /\ shown[d] \in Entry /\ shown[e] \in Entry
  BY Levels DEF IInv, TypeOK
<1>2. Raised(shown[d], dir, level)["outgoing"] >= shown[d]["outgoing"]
  BY <1>1 DEF Raised, Entry, SecLevel, Dir
<1>3. shown'[e]["outgoing"] >= shown[e]["outgoing"]
  BY <1>1, <1>2 DEF CheckSecLevel, IInv, TypeOK, Entry, Dir, SecLevel
<1> QED BY <1>3, <1>1 DEF Kept, CheckSecLevel, Entry, Dir, SecLevel

(* Nor does the start or the end of the process, or a load. *)
LEMMA LoadsKeep ==
  ASSUME IInv, New \/ Reload \/ Exit \/ UNCHANGED vars, NEW e \in Domain
  PROVE  Kept(e)
<1>1. shown' = shown /\ forgot \subseteq forgot'
  BY DEF New, Reload, Exit, Loses, vars
<1>2. shown[e] \in Entry
  BY DEF IInv, TypeOK
<1> QED BY <1>1, <1>2 DEF Kept, Entry, Dir, SecLevel

(* A call that takes no step keeps its part of the invariant. *)
LEMMA Stays ==
  ASSUME CInv, IInv, IInv', NEW b \in Attempt, att'[b] = att[b], \A d \in Domain : Kept(d)
  PROVE  Good(att'[b]) /\ Held(att[b])'
<1>1. Good(att[b]) /\ Held(att[b]) /\ att[b] \in Attempts
  BY DEF CInv
<1>2. CASE att[b].pc \in {"tls", "check", "mail", "data"}
  <2>1. att[b].dom \in Domain
    BY <1>1, <1>2 DEF Good
  <2>2. Kept(att[b].dom)
    BY <2>1
  <2>3. shown[att[b].dom] \in Entry /\ shown'[att[b].dom] \in Entry
    BY <2>1 DEF IInv, TypeOK
  <2> QED BY <1>1, <2>2, <2>3 DEF Held, Kept, Attempts, Entry, Dir, SecLevel, Level
<1>3. CASE att[b].pc \notin {"tls", "check", "mail", "data"}
  BY <1>1, <1>3 DEF Held
<1> QED BY <1>1, <1>2, <1>3

(* A step of the call a, to a state that satisfies the invariant. *)
Moves(a) ==
  /\ att' \in [Attempt -> Attempts]
  /\ \A b \in Attempt \ {a} : att'[b] = att[b]
  /\ Good(att'[a]) /\ Held(att[a])'

(* It keeps the invariant of all calls. *)
LEMMA OneCall ==
  ASSUME CInv, IInv, IInv', NEW a \in Attempt, Moves(a), \A d \in Domain : Kept(d)
  PROVE  CInv'
BY Stays DEF CInv, Moves

(* A call that returns. *)
LEMMA ReturnMoves ==
  ASSUME CInv, NEW a \in Attempt, NEW result \in {"sent", "permanent", "transient"},
         Return(a, result)
  PROVE  Moves(a)
<1> DEFINE r == [NewAttempt EXCEPT !.pc = "done", !.result = result]
<1>1. r \in Attempts /\ r.pc = "done"
  BY NewCall DEF Attempts, Pcs, Results
<1>5. r.tries = 0
  BY DEF NewAttempt
<1>2. att' = [att EXCEPT ![a] = r]
  BY DEF Return
<1>3. att'[a] = r
  BY <1>2 DEF CInv
<1>4. Good(r) /\ Held(att[a])'
  BY <1>1, <1>3, <1>5 DEF Good, Held
<1> HIDE DEF r
<1> QED BY <1>1, <1>2, <1>3, <1>4 DEF CInv, Moves

(* A call that goes on to the next server. *)
LEMMA NextHostMoves ==
  ASSUME CInv, NEW a \in Attempt, att[a].hosts # <<>>, att[a].dom \in Domain, NextHost(a)
  PROVE  Moves(a)
<1>1. att' \in [Attempt -> Attempts]
  <2>1. att[a].hosts \in Seq(Host) /\ Tail(att[a].hosts) \in Seq(Host)
    BY DEF CInv, Attempts
  <2>2. 0 \in Level("outgoing") /\ 0 \in SecLevel
    BY NewCall DEF SecLevel
  <2> QED BY <2>1, <2>2 DEF CInv, Attempts, NextHost, Pcs
<1>2. /\ att'[a].pc = "next" /\ att'[a].wire = 0 /\ att'[a].tries = 0
      /\ ~att'[a].skipTLS /\ att'[a].dom = att[a].dom
  BY DEF CInv, Attempts, NextHost
<1>3. \A b \in Attempt \ {a} : att'[b] = att[b]
  BY DEF CInv, NextHost
<1>4. Good(att'[a]) /\ Held(att[a])'
  BY <1>2 DEF Good, Held
<1> QED BY <1>1, <1>3, <1>4 DEF Moves

(* A step of a call that leaves the database alone. *)
LEMMA QuietStep ==
  ASSUME CInv, IInv, UNCHANGED vars, NEW a \in Attempt, Moves(a)
  PROVE  CInv'
<1>1. IInv'
  BY NextKeeps
<1>2. \A d \in Domain : Kept(d)
  BY LoadsKeep
<1> QED BY <1>1, <1>2, OneCall

(* lookupMXs keeps at least one host and at most MaxMXs. *)
LEMMA CapHosts ==
  ASSUME NEW s \in Seq(Host), s # <<>>
  PROVE  Cap(s) \in Seq(Host) /\ Len(Cap(s)) \in 1..MaxMXs
<1>1. Len(s) \in Nat /\ Len(s) > 0
  BY EmptySeq
<1>2. CASE Len(s) > MaxMXs
  BY <1>1, <1>2, CourierAssumption, SubSeqProperties DEF Cap
<1>3. CASE ~(Len(s) > MaxMXs)
  BY <1>1, <1>3, CourierAssumption DEF Cap
<1> QED BY <1>2, <1>3

(* Deliver and Forward set the domain and the hosts. *)
LEMMA HostsType ==
  ASSUME CInv, NEW a \in Attempt, NEW pc \in Pcs, NEW d \in DomainOrNone, NEW h \in Seq(Host),
         att' = [att EXCEPT ![a].pc = pc, ![a].dom = d, ![a].hosts = h]
  PROVE  att' \in [Attempt -> Attempts]
BY DEF CInv, Attempts

(* Deliver sets the policy. *)
LEMMA PolicyType ==
  ASSUME CInv, NEW a \in Attempt, NEW pc \in Pcs, NEW p \in PolicyOrNone,
         att' = [att EXCEPT ![a].pc = pc, ![a].policy = p]
  PROVE  att' \in [Attempt -> Attempts]
BY DEF CInv, Attempts

(* Deliver, which returns or goes on with the hosts of the domain. *)
LEMMA DeliverKeeps ==
  ASSUME CInv, IInv, NEW a \in Attempt, NEW d \in Domain, Deliver(a, d)
  PROVE  CInv'
<1>1. ASSUME NEW result \in {"permanent", "transient"}, Return(a, result) PROVE Moves(a)
  BY <1>1, ReturnMoves
<1>2. ASSUME NEW s \in Records \cup {<<d>>}, s # <<>>,
             att' = [att EXCEPT ![a].pc = "sts", ![a].dom = d, ![a].hosts = Cap(s)]
      PROVE  Moves(a)
  <2>1. s \in Seq(Host)
    <3>1. d \in Host
      BY DEF Host
    <3>2. <<d>> \in Seq(Host)
      BY <3>1
    <3> QED BY <3>2, CourierAssumption
  <2>2. Cap(s) \in Seq(Host) /\ Len(Cap(s)) \in 1..MaxMXs
    BY <1>2, <2>1, CapHosts
  <2>3. att' \in [Attempt -> Attempts]
    <3>1. d \in DomainOrNone /\ "sts" \in Pcs
      BY DEF DomainOrNone, Pcs
    <3> QED BY <1>2, <2>2, <3>1, HostsType
  <2>4. /\ att'[a].pc = "sts" /\ att'[a].dom = d /\ att'[a].hosts = Cap(s)
        /\ att'[a].wire = att[a].wire /\ att'[a].tries = att[a].tries
        /\ att'[a].skipTLS = att[a].skipTLS
    BY <1>2 DEF CInv, Attempts
  <2>5. Good(att[a]) /\ att[a].pc = "idle"
    BY DEF CInv, Deliver, At
  <2>6. Good(att'[a]) /\ Held(att[a])'
    BY <2>2, <2>4, <2>5 DEF Good, Held
  <2> QED BY <1>2, <2>3, <2>6 DEF Moves, CInv
<1>3. Moves(a)
  BY <1>1, <1>2 DEF Deliver
<1> QED BY <1>3, QuietStep DEF Deliver

(* fetchSTSPolicy leaves the call without a connection. *)
LEMMA PolicyKeeps ==
  ASSUME CInv, IInv, NEW a \in Attempt, fetchSTSPolicy(a)
  PROVE  CInv'
<1>1. PICK p \in Policy \cup {None} : att' = [att EXCEPT ![a].pc = "next", ![a].policy = p]
  BY DEF fetchSTSPolicy
<1>2. att' \in [Attempt -> Attempts]
  <2>1. p \in PolicyOrNone /\ "next" \in Pcs
    BY DEF PolicyOrNone, Pcs
  <2> QED BY <1>1, <2>1, PolicyType
<1>3. /\ att'[a].pc = "next" /\ att'[a].dom = att[a].dom /\ att'[a].hosts = att[a].hosts
      /\ att'[a].wire = att[a].wire /\ att'[a].tries = att[a].tries
      /\ att'[a].skipTLS = att[a].skipTLS
  BY <1>1 DEF CInv, Attempts
<1>4. Good(att[a]) /\ att[a].pc = "sts"
  BY DEF CInv, fetchSTSPolicy, At
<1>5. Good(att'[a]) /\ Held(att[a])'
  BY <1>3, <1>4 DEF Good, Held
<1>6. Moves(a)
  BY <1>1, <1>2, <1>5 DEF Moves, CInv
<1> QED BY <1>6, QuietStep DEF fetchSTSPolicy

(* Forward starts with the servers of the alias. *)
LEMMA ForwardKeeps ==
  ASSUME CInv, IInv, NEW a \in Attempt, NEW d \in Domain, Forward(a, d)
  PROVE  CInv'
<1>1. PICK h \in Seq(Host) :
        att' = [att EXCEPT ![a].pc = "next", ![a].dom = d, ![a].hosts = h]
  BY CourierAssumption DEF Forward
<1>2. att' \in [Attempt -> Attempts]
  <2>1. d \in DomainOrNone /\ "next" \in Pcs
    BY DEF DomainOrNone, Pcs
  <2> QED BY <1>1, <2>1, HostsType
<1>3. /\ att'[a].pc = "next" /\ att'[a].dom = d
      /\ att'[a].wire = att[a].wire /\ att'[a].tries = att[a].tries
      /\ att'[a].skipTLS = att[a].skipTLS
  BY <1>1 DEF CInv, Attempts
<1>4. Good(att[a]) /\ att[a].pc = "idle"
  BY DEF CInv, Forward, At
<1>5. Good(att'[a]) /\ Held(att[a])'
  BY <1>3, <1>4 DEF Good, Held
<1>6. Moves(a)
  BY <1>1, <1>2, <1>5 DEF Moves, CInv
<1> QED BY <1>6, QuietStep DEF Forward

(* A call that only goes to the state pc: its other variables stay. *)
LEMMA GotoFields ==
  ASSUME CInv, NEW a \in Attempt, NEW pc \in Pcs, Goto(a, pc)
  PROVE  /\ att' \in [Attempt -> Attempts]
         /\ \A b \in Attempt \ {a} : att'[b] = att[b]
         /\ att'[a].pc = pc /\ att'[a].dom = att[a].dom /\ att'[a].hosts = att[a].hosts
         /\ att'[a].policy = att[a].policy /\ att'[a].skipTLS = att[a].skipTLS
         /\ att'[a].secLevel = att[a].secLevel /\ att'[a].wire = att[a].wire
         /\ att'[a].floor = att[a].floor /\ att'[a].tries = att[a].tries
<1>1. att' \in [Attempt -> Attempts]
  BY DEF CInv, Attempts, Goto
<1> QED BY <1>1 DEF CInv, Attempts, Goto

(* The loop over the servers passes by those the policy does not allow. *)
LEMMA NextMXKeeps ==
  ASSUME CInv, IInv, NEW a \in Attempt, NextMX(a)
  PROVE  CInv'
<1>1. Good(att[a]) /\ att[a].pc = "next"
  BY DEF CInv, NextMX, At
<1>2. CASE att[a].hosts = <<>>
  BY <1>2, ReturnMoves, QuietStep DEF NextMX
<1>3. CASE att[a].hosts # <<>> /\ ~MXIsAllowed(att[a].policy, Head(att[a].hosts))
  <2>1. NextHost(a) /\ att[a].dom \in Domain
    BY <1>1, <1>3 DEF NextMX, Good
  <2> QED BY <1>3, <2>1, NextHostMoves, QuietStep DEF NextMX
<1>4. CASE att[a].hosts # <<>> /\ MXIsAllowed(att[a].policy, Head(att[a].hosts))
  <2>1. Goto(a, "dial") /\ "dial" \in Pcs
    BY <1>4 DEF NextMX, Pcs
  <2>2. Good(att'[a]) /\ Held(att[a])'
    BY <1>1, <1>4, <2>1, GotoFields DEF Good, Held
  <2>3. Moves(a)
    BY <2>1, <2>2, GotoFields DEF Moves
  <2> QED BY <2>3, QuietStep DEF NextMX
<1> QED BY <1>2, <1>3, <1>4

(* A new connection: plain, with the level the domain has shown by now. *)
LEMMA DialKeeps ==
  ASSUME CInv, IInv, NEW a \in Attempt, Dial(a)
  PROVE  CInv'
<1>1. Good(att[a]) /\ att[a].pc = "dial" /\ att[a] \in Attempts /\ att[a].dom \in Domain
  BY DEF CInv, Dial, At, Good
<1>2. CASE NextHost(a)
  <2>1. att[a].hosts # <<>>
    BY <1>1 DEF Good
  <2> QED BY <1>1, <1>2, <2>1, NextHostMoves, QuietStep DEF Dial
<1>3. CASE ~NextHost(a)
  <2>1. PICK pc \in {"tls", "check"} :
          /\ pc = "tls" => ~att[a].skipTLS
          /\ att' = [att EXCEPT ![a].pc = pc, ![a].secLevel = 0,
                                ![a].floor = shown[att[a].dom]["outgoing"],
                                ![a].tries = @ + 1]
    BY <1>3 DEF Dial
  <2>2. shown[att[a].dom]["outgoing"] \in SecLevel
    BY <1>1 DEF IInv, TypeOK, Entry, Dir
  <2>3. att' \in [Attempt -> Attempts]
    BY <2>1, <2>2, NewCall DEF CInv, Attempts, Pcs
  <2>4. /\ att'[a].pc = pc /\ att'[a].dom = att[a].dom /\ att'[a].hosts = att[a].hosts
        /\ att'[a].policy = att[a].policy /\ att'[a].skipTLS = att[a].skipTLS
        /\ att'[a].secLevel = 0 /\ att'[a].wire = att[a].wire
        /\ att'[a].floor = shown[att[a].dom]["outgoing"] /\ att'[a].tries = att[a].tries + 1
    BY <2>1 DEF CInv, Attempts
  <2>5. Good(att'[a])
    BY <1>1, <2>1, <2>4 DEF Good
  <2>6. shown' = shown
    BY DEF Dial, vars
  <2>7. Held(att[a])'
    BY <2>1, <2>2, <2>4, <2>6 DEF Held, SecLevel
  <2>8. Moves(a)
    BY <2>1, <2>3, <2>5, <2>7 DEF Moves, CInv
  <2> QED BY <2>8, QuietStep DEF Dial
<1> QED BY <1>2, <1>3

(* StartTLS sets the level, and uses it. *)
LEMMA LevelType ==
  ASSUME CInv, NEW a \in Attempt, NEW pc \in Pcs, NEW level \in Level("outgoing"),
         att' = [att EXCEPT ![a].pc = pc, ![a].secLevel = level, ![a].wire = level]
  PROVE  att' \in [Attempt -> Attempts]
BY DEF CInv, Attempts

(* Or it sets the level, and gives up TLS. *)
LEMMA SkipType ==
  ASSUME CInv, NEW a \in Attempt, NEW pc \in Pcs, NEW level \in Level("outgoing"),
         att' = [att EXCEPT ![a].pc = pc, ![a].secLevel = level, ![a].skipTLS = TRUE]
  PROVE  att' \in [Attempt -> Attempts]
BY DEF CInv, Attempts

(* StartTLS: a handshake that succeeds says what the connection is; after  *)
(* one that fails the next connection is plain, once.                      *)
LEMMA StartTLSKeeps ==
  ASSUME CInv, IInv, NEW a \in Attempt, StartTLS(a)
  PROVE  CInv'
<1>1. Good(att[a]) /\ Held(att[a]) /\ att[a].pc = "tls" /\ att[a] \in Attempts
  BY DEF CInv, StartTLS, At
<1>2. ASSUME NEW level \in Level("outgoing"),
             att' = [att EXCEPT ![a].pc = "check", ![a].secLevel = level, ![a].wire = level]
      PROVE  Moves(a)
  <2>1. att' \in [Attempt -> Attempts]
    <3>1. "check" \in Pcs
      BY DEF Pcs
    <3> QED BY <1>2, <3>1, LevelType
  <2>2. /\ att'[a].pc = "check" /\ att'[a].dom = att[a].dom /\ att'[a].hosts = att[a].hosts
        /\ att'[a].policy = att[a].policy /\ att'[a].floor = att[a].floor
        /\ att'[a].secLevel = level /\ att'[a].wire = level /\ att'[a].tries = att[a].tries
    BY <1>2 DEF CInv, Attempts
  <2>3. Good(att'[a])
    BY <1>1, <2>2 DEF Good
  <2>4. shown' = shown
    BY DEF StartTLS, vars
  <2>5. Held(att[a])'
    BY <1>1, <2>2, <2>4 DEF Held
  <2> QED BY <1>2, <2>1, <2>3, <2>5 DEF Moves, CInv
<1>3. ASSUME NEW level \in Level("outgoing"),
             att' = [att EXCEPT ![a].pc = "dial", ![a].secLevel = level, ![a].skipTLS = TRUE]
      PROVE  Moves(a)
  <2>1. att' \in [Attempt -> Attempts]
    <3>1. "dial" \in Pcs
      BY DEF Pcs
    <3> QED BY <1>3, <3>1, SkipType
  <2>2. /\ att'[a].pc = "dial" /\ att'[a].dom = att[a].dom /\ att'[a].hosts = att[a].hosts
        /\ att'[a].policy = att[a].policy /\ att'[a].skipTLS
        /\ att'[a].wire = att[a].wire /\ att'[a].tries = att[a].tries
    BY <1>3 DEF CInv, Attempts
  <2>3. Good(att'[a]) /\ Held(att[a])'
    BY <1>1, <2>2 DEF Good, Held
  <2> QED BY <1>3, <2>1, <2>3 DEF Moves, CInv
<1>4. Moves(a)
  BY <1>2, <1>3 DEF StartTLS
<1> QED BY <1>4, QuietStep DEF StartTLS

(* A call that said nothing yet checks its level.  What DomainInfo allows   *)
(* is not below what the domain had shown, by the invariant of DomainInfo. *)
LEMMA CheckLevelKeeps ==
  ASSUME CInv, IInv, NEW a \in Attempt, CheckLevel(a)
  PROVE  CInv'
<1> DEFINE d == att[a].dom
<1> DEFINE level == att[a].secLevel
<1>1. Good(att[a]) /\ Held(att[a]) /\ att[a].pc = "check" /\ att[a] \in Attempts
  BY DEF CInv, CheckLevel, At
<1>2. d \in Domain /\ att[a].hosts # <<>> /\ "outgoing" \in Dir /\ level \in Level("outgoing")
  BY <1>1 DEF Good, Dir, Attempts
<1>3. CheckSecLevel(d, "outgoing", level)
  BY DEF CheckLevel
<1>4. IInv'
  BY <1>2, <1>3, CheckSecLevelKeeps
<1>5. \A e \in Domain : Kept(e)
  BY <1>2, <1>3, CheckKeeps
<1>6. CASE Allowed(d, "outgoing", level) /\ (Enforced(att[a].policy) => level = 3)
  <2>1. Goto(a, "mail") /\ "mail" \in Pcs
    BY <1>6 DEF CheckLevel, Pcs
  <2>2. Good(att'[a])
    BY <1>1, <1>6, <2>1, GotoFields DEF Good
  <2>3. ASSUME d \notin forgot PROVE level >= att[a].floor
    <3>1. shown[d] = Known(d)
      BY <1>2, <1>3, <2>3 DEF IInv, Remembered, CheckSecLevel
    <3>2. level >= shown[d]["outgoing"]
      BY <1>6, <3>1 DEF Allowed
    <3>3. shown[d]["outgoing"] \in SecLevel /\ level \in SecLevel /\ att[a].floor \in SecLevel
      BY <1>1, <1>2, Levels DEF IInv, TypeOK, Entry, Attempts
    <3>4. att[a].floor <= shown[d]["outgoing"]
      BY <1>1 DEF Held
    <3> QED BY <3>2, <3>3, <3>4 DEF SecLevel
  <2>4. forgot' = forgot
    BY DEF CheckLevel, CheckSecLevel
  <2>5. att[a].wire = level
    BY <1>1 DEF Good
  <2>6. Held(att[a])'
    BY <2>1, <2>3, <2>4, <2>5, GotoFields DEF Held
  <2>7. Moves(a)
    BY <2>1, <2>2, <2>6, GotoFields DEF Moves
  <2> QED BY <1>4, <1>5, <2>7, OneCall
<1>7. CASE ~(Allowed(d, "outgoing", level) /\ (Enforced(att[a].policy) => level = 3))
  <2>1. NextHost(a)
    BY <1>7 DEF CheckLevel
  <2> QED BY <1>2, <1>4, <1>5, <2>1, NextHostMoves, OneCall
<1> QED BY <1>6, <1>7

(* The replies to MAIL and RCPT do not change the connection. *)
LEMMA MailKeeps ==
  ASSUME CInv, IInv, NEW a \in Attempt, MailAndRcpt(a)
  PROVE  CInv'
<1>1. Good(att[a]) /\ Held(att[a]) /\ att[a].pc = "mail"
  BY DEF CInv, MailAndRcpt, At
<1>2. att[a].hosts # <<>> /\ att[a].dom \in Domain
  BY <1>1 DEF Good
<1>3. ASSUME Goto(a, "data") PROVE Moves(a)
  <2>1. "data" \in Pcs
    BY DEF Pcs
  <2>2. Good(att'[a])
    BY <1>1, <1>3, <2>1, GotoFields DEF Good
  <2>3. forgot' = forgot
    BY DEF MailAndRcpt, vars
  <2>4. Held(att[a])'
    BY <1>1, <1>3, <2>1, <2>3, GotoFields DEF Held
  <2> QED BY <1>3, <2>1, <2>2, <2>4, GotoFields DEF Moves
<1>4. Moves(a)
  BY <1>2, <1>3, ReturnMoves, NextHostMoves DEF MailAndRcpt
<1> QED BY <1>4, QuietStep DEF MailAndRcpt

(* After the message the call returns or goes on to the next server. *)
LEMMA DataKeeps ==
  ASSUME CInv, IInv, NEW a \in Attempt, Data(a)
  PROVE  CInv'
<1>1. Good(att[a]) /\ att[a].pc = "data"
  BY DEF CInv, Data, At
<1>2. att[a].hosts # <<>> /\ att[a].dom \in Domain
  BY <1>1 DEF Good
<1>3. Moves(a)
  BY <1>2, ReturnMoves, NextHostMoves DEF Data
<1> QED BY <1>3, QuietStep DEF Data

(* The MDA opens no connection. *)
LEMMA MDAKeeps ==
  ASSUME CInv, IInv, NEW a \in Attempt, MDADeliver(a) \/ MDAForward(a) \/ MDARun(a)
  PROVE  CInv'
<1>1. CASE MDADeliver(a)
  <2>1. Good(att[a]) /\ att[a].pc = "idle" /\ Goto(a, "mda") /\ "mda" \in Pcs
    BY <1>1 DEF CInv, MDADeliver, At, Pcs
  <2>2. Good(att'[a]) /\ Held(att[a])'
    BY <2>1, GotoFields DEF Good, Held
  <2>3. Moves(a)
    BY <2>1, <2>2, GotoFields DEF Moves
  <2> QED BY <1>1, <2>3, QuietStep DEF MDADeliver
<1>2. CASE MDAForward(a)
  BY <1>2, ReturnMoves, QuietStep DEF MDAForward
<1>3. CASE MDARun(a)
  <2>1. \A end \in DOMAIN MDAResult : MDAResult[end] \in {"sent", "permanent", "transient"}
    BY DEF MDAResult
  <2>2. Moves(a)
    BY <1>3, <2>1, ReturnMoves DEF MDARun
  <2> QED BY <1>3, <2>2, QuietStep DEF MDARun
<1> QED BY <1>1, <1>2, <1>3

(* Other users of the database, and loads, do not disturb a call. *)
LEMMA OthersKeep ==
  ASSUME CInv, IInv, (\E d \in Domain : Incoming(d)) \/ Restart \/ SIGHUP
  PROVE  CInv' /\ IInv'
<1>1. att' = att
  BY DEF Incoming, Restart, SIGHUP, courierVars
<1>2. IInv' /\ \A e \in Domain : Kept(e)
  <2>1. CASE \E d \in Domain : Incoming(d)
    <3>1. PICK d \in Domain, level \in Level("incoming") : CheckSecLevel(d, "incoming", level)
      BY <2>1 DEF Incoming
    <3>2. "incoming" \in Dir
      BY DEF Dir
    <3> QED BY <3>1, <3>2, CheckSecLevelKeeps, CheckKeeps
  <2>2. CASE Restart \/ SIGHUP
    <3>1. New \/ Reload
      BY <2>2 DEF Restart, SIGHUP
    <3> QED BY <3>1, NextKeeps, LoadsKeep DEF Next
  <2> QED BY <2>1, <2>2
<1>3. \A b \in Attempt : Good(att'[b]) /\ Held(att[b])'
  BY <1>1, <1>2, Stays
<1> QED BY <1>1, <1>2, <1>3 DEF CInv

(* An administrator clears a domain: its calls owe it nothing any more. *)
LEMMA ClearDomainKeeps ==
  ASSUME CInv, IInv, NEW d \in Domain, ClearDomain(d)
  PROVE  CInv' /\ IInv'
<1>1. IInv'
  BY ClearKeeps DEF ClearDomain
<1>2. /\ shown' = [shown EXCEPT ![d] = NewEntry] /\ forgot' = forgot \ {d}
      /\ att' = [a \in Attempt |->
           IF att[a].dom = d THEN [att[a] EXCEPT !.floor = 0] ELSE att[a]]
  BY DEF ClearDomain, Clear
<1>3. 0 \in SecLevel
  BY DEF SecLevel
<1>4. ASSUME NEW r \in Attempts PROVE [r EXCEPT !.floor = 0] \in Attempts
  BY <1>3 DEF Attempts
<1>5. att' \in [Attempt -> Attempts]
  BY <1>2, <1>4 DEF CInv
<1>6. ASSUME NEW b \in Attempt PROVE Good(att'[b]) /\ Held(att[b])'
  <2>1. Good(att[b]) /\ Held(att[b]) /\ att[b] \in Attempts
    BY DEF CInv
  <2>2. CASE att[b].dom = d
    <3>1. att'[b] = [att[b] EXCEPT !.floor = 0]
      BY <1>2, <2>2
    <3>2. /\ att'[b].pc = att[b].pc /\ att'[b].dom = d /\ att'[b].hosts = att[b].hosts
          /\ att'[b].policy = att[b].policy /\ att'[b].skipTLS = att[b].skipTLS
          /\ att'[b].secLevel = att[b].secLevel /\ att'[b].wire = att[b].wire
          /\ att'[b].floor = 0 /\ att'[b].tries = att[b].tries
      BY <2>1, <2>2, <3>1 DEF Attempts
    <3>3. Good(att'[b])
      BY <2>1, <2>2, <3>2 DEF Good
    <3>4. shown'[d]["outgoing"] \in SecLevel /\ att[b].wire \in SecLevel
      BY <1>1, <2>1, Levels DEF IInv, TypeOK, Entry, Dir, Attempts
    <3>5. Held(att[b])'
      BY <3>2, <3>4 DEF Held, SecLevel
    <3> QED BY <3>3, <3>5
  <2>3. CASE att[b].dom # d
    <3>1. att'[b] = att[b]
      BY <1>2, <2>3
    <3>2. att[b].dom \in Domain => shown'[att[b].dom] = shown[att[b].dom]
      BY <1>2, <2>3 DEF IInv, TypeOK
    <3>3. att[b].pc \in {"tls", "check"} => att[b].dom \in Domain
      BY <2>1 DEF Good
    <3> QED BY <1>2, <2>1, <2>3, <3>1, <3>2, <3>3 DEF Held
  <2> QED BY <2>2, <2>3
<1> QED BY <1>1, <1>5, <1>6 DEF CInv

(* The end of the process ends the calls. *)
LEMMA StopKeeps ==
  ASSUME CInv, IInv, Stop
  PROVE  CInv' /\ IInv'
<1> DEFINE dead == [NewAttempt EXCEPT !.pc = "dead"]
<1>1. IInv' /\ \A e \in Domain : Kept(e)
  BY NextKeeps, LoadsKeep DEF Stop, Next
<1>2. dead \in Attempts /\ dead.pc = "dead"
  BY NewCall DEF Attempts, Pcs
<1>3. dead.tries = 0
  BY DEF NewAttempt
<1>4. \A b \in Attempt : att'[b] = att[b] \/ att'[b] = dead
  BY DEF Stop
<1>5. att' \in [Attempt -> Attempts]
  <2> HIDE DEF dead
  <2>1. att' = [a \in Attempt |-> att'[a]]
    BY DEF Stop
  <2> QED BY <1>2, <1>4, <2>1 DEF CInv
<1>6. ASSUME NEW b \in Attempt PROVE Good(att'[b]) /\ Held(att[b])'
  <2>1. CASE att'[b] = att[b]
    BY <2>1, <1>1, Stays
  <2>2. CASE att'[b] = dead
    <3> HIDE DEF dead
    <3> QED BY <2>2, <1>2, <1>3 DEF Good, Held
  <2> QED BY <1>4, <2>1, <2>2
<1> QED BY <1>1, <1>5, <1>6 DEF CInv

(* Each step of Courier is a step of DomainInfo or leaves it alone. *)
LEMMA CourierStep ==
  ASSUME IInv, CInv, [CourierNext]_allVars
  PROVE  IInv' /\ CInv'
<1>1. CASE UNCHANGED allVars
  <2>1. UNCHANGED vars /\ att' = att
    BY <1>1 DEF allVars, courierVars
  <2>2. IInv' /\ \A e \in Domain : Kept(e)
    BY <2>1, NextKeeps, LoadsKeep
  <2>3. \A b \in Attempt : Good(att'[b]) /\ Held(att[b])'
    BY <2>1, <2>2, Stays
  <2> QED BY <2>1, <2>2, <2>3 DEF CInv
<1>2. ASSUME NEW a \in Attempt, NEW d \in Domain, Deliver(a, d) \/ Forward(a, d)
      PROVE  IInv' /\ CInv'
  BY <1>2, DeliverKeeps, ForwardKeeps, NextKeeps DEF Deliver, Forward
<1>3. ASSUME NEW a \in Attempt, MDADeliver(a) \/ MDAForward(a) \/ MDARun(a)
      PROVE  IInv' /\ CInv'
  BY <1>3, MDAKeeps, NextKeeps DEF MDADeliver, MDAForward, MDARun
<1>4. ASSUME NEW a \in Attempt, AttemptStep(a)
      PROVE  IInv' /\ CInv'
  <2>1. CASE CheckLevel(a)
    <3>1. "outgoing" \in Dir /\ att[a].dom \in Domain /\ att[a].secLevel \in Level("outgoing")
      BY <2>1 DEF CInv, CheckLevel, At, Good, Attempts, Dir
    <3> QED BY <2>1, <3>1, CheckLevelKeeps, CheckSecLevelKeeps DEF CheckLevel
  <2>2. CASE fetchSTSPolicy(a) \/ NextMX(a) \/ Dial(a)
    BY <2>2, PolicyKeeps, NextMXKeeps, DialKeeps, NextKeeps DEF fetchSTSPolicy, NextMX, Dial
  <2>3. CASE StartTLS(a) \/ MailAndRcpt(a) \/ Data(a)
    BY <2>3, StartTLSKeeps, MailKeeps, DataKeeps, NextKeeps DEF StartTLS, MailAndRcpt, Data
  <2> QED BY <1>3, <1>4, <2>1, <2>2, <2>3 DEF AttemptStep
<1> QED BY <1>1, <1>2, <1>3, <1>4, OthersKeep, ClearDomainKeeps, StopKeeps DEF CourierNext

(* In every state of Courier the two invariants hold. *)
THEOREM CourierInductive == CourierSpec => [](IInv /\ CInv)
<1>1. CourierInit => IInv /\ CInv
  BY CourierInitHolds
<1>2. IInv /\ CInv /\ [CourierNext]_allVars => (IInv /\ CInv)'
  BY CourierStep
<1> QED BY <1>1, <1>2, PTL DEF CourierSpec

(* attempt.deliver says nothing of a message to a server an enforced       *)
(* MTA-STS policy forbids, or over less than validated TLS.                *)
THEOREM PolicyIsEnforced == CourierSpec => []PolicyEnforced
<1>1. CInv => PolicyEnforced
  BY DEF CInv, Good, PolicyEnforced, Talking, At, MXIsAllowed
<1> QED BY <1>1, CourierInductive, PTL

(* The level attempt.deliver checked is the level of the connection, and   *)
(* not below what the domain had shown when it was opened.                 *)
THEOREM LevelIsChecked == CourierSpec => []CheckedLevel
<1>1. CInv => CheckedLevel
  BY DEF CInv, Good, Held, CheckedLevel, Talking, At
<1> QED BY <1>1, CourierInductive, PTL

(* SMTP.Deliver makes at most two connections to a host and tries at most  *)
(* MaxMXs hosts.                                                           *)
THEOREM ConnectionsAreBounded == CourierSpec => []ConnectionsBounded
<1>1. CInv => ConnectionsBounded
  BY DEF CInv, Good, ConnectionsBounded, At
<1> QED BY <1>1, CourierInductive, PTL
=============================================================================
