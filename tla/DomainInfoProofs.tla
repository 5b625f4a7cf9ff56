-------------------------- MODULE DomainInfoProofs --------------------------
(***************************************************************************)
(* Proofs that the database of security levels keeps what it was shown,    *)
(* for any set of domains and any number of failing reads and writes.      *)
(***************************************************************************)
EXTENDS DomainInfo, TLAPS

(* While the process runs, its entry for a domain is what was shown. *)
Remembered == Running => \A d \in Domain \ forgot : shown[d] = Known(d)

IInv == TypeOK /\ Remembered /\ SavedLevel

(* NewEntry and the entries that Raised returns are entries. *)
LEMMA Entries ==
  /\ NewEntry \in Entry
  /\ \A e \in Entry, dir \in Dir, level \in SecLevel : Raised(e, dir, level) \in Entry
BY DEF NewEntry, Entry, Raised, SecLevel, Dir

(* The levels callers ask about are levels of the database. *)
LEMMA Levels == \A dir \in Dir : Level(dir) \subseteq SecLevel
BY DEF Level, SecLevel, Dir

(* Known returns an entry, also for a domain that is not in the map. *)
LEMMA KnownType == ASSUME TypeOK, NEW d \in Domain PROVE Known(d) \in Entry
BY Entries DEF TypeOK, Known

(* Init establishes the invariant. *)
LEMMA InitHolds == Init => IInv
<1> SUFFICES ASSUME Init PROVE IInv OBVIOUS
<1>1. TypeOK
  BY Entries, DomainInfoAssumption DEF Init, TypeOK
<1>2. Remembered
  BY DEF Init, Remembered, Running
<1>3. SavedLevel
  BY DEF Init, SavedLevel
<1> QED BY <1>1, <1>2, <1>3 DEF IInv

(* A check of a level keeps the invariant: what it saves and what it keeps  *)
(* in memory is what the domain has then shown.                            *)
LEMMA CheckSecLevelKeeps ==
  ASSUME IInv, NEW d \in Domain, NEW dir \in Dir, NEW level \in Level(dir),
         CheckSecLevel(d, dir, level)
  PROVE  IInv'
<1> DEFINE new == Raised(Known(d), dir, level)
<1>1. level \in SecLevel
  BY Levels
<1>2. Known(d) \in Entry /\ new \in Entry
  BY <1>1, Entries, KnownType DEF IInv
<1>3. info' = [info EXCEPT ![d] = new]
  BY DEF CheckSecLevel
<1>4. \/ disk' = [disk EXCEPT ![d] = new] /\ unsaved' = unsaved \ {d} /\ writeFaults' = writeFaults
      \/ disk' = disk /\ unsaved' = unsaved \cup {d} /\ writeFaults' = writeFaults + 1
         /\ writeFaults < MaxWriteFaults
      \/ disk' = disk /\ unsaved' = unsaved /\ writeFaults' = writeFaults
         /\ ~Saves(d, dir, level)
  BY DEF CheckSecLevel, Write
<1>5. shown' = IF Allowed(d, dir, level)
               THEN [shown EXCEPT ![d] = Raised(@, dir, level)] ELSE shown
  BY DEF CheckSecLevel
<1>6. server' = server /\ readFaults' = readFaults /\ forgot' = forgot
  BY DEF CheckSecLevel
<1>7. TypeOK'
  <2>1. info' \in [Domain -> Entry \cup {None}]
    BY <1>2, <1>3 DEF IInv, TypeOK
  <2>2. disk' \in [Domain -> Entry \cup {None}] /\ unsaved' \in SUBSET Domain
    BY <1>2, <1>4 DEF IInv, TypeOK
  <2>3. writeFaults' \in 0..MaxWriteFaults
    BY <1>4, DomainInfoAssumption DEF IInv, TypeOK
  <2>4. shown' \in [Domain -> Entry]
    BY <1>1, <1>5, Entries DEF IInv, TypeOK
  <2> QED BY <2>1, <2>2, <2>3, <2>4, <1>6 DEF IInv, TypeOK
<1>8. new # None
  BY <1>2, DomainInfoAssumption
<1>9. ASSUME d \notin forgot PROVE shown'[d] = new
  <2>1. shown[d] = Known(d)
    BY <1>9 DEF IInv, Remembered, CheckSecLevel
  <2>2. CASE Allowed(d, dir, level)
    BY <2>1, <2>2, <1>5 DEF IInv, TypeOK
  <2>3. CASE ~Allowed(d, dir, level)
    <3>1. new = Known(d)
      BY <2>3, <1>1, <1>2 DEF Allowed, Raised, Entry, SecLevel
    <3> QED BY <2>1, <2>3, <3>1, <1>5
  <2> QED BY <2>2, <2>3
<1>10. \A e \in Domain \ {d} : shown'[e] = shown[e] /\ info'[e] = info[e] /\ disk'[e] = disk[e]
  BY <1>3, <1>4, <1>5 DEF IInv, TypeOK
<1>11. Remembered'
  <2> SUFFICES ASSUME Running, NEW e \in Domain \ forgot PROVE shown'[e] = Known(e)'
    BY <1>6 DEF Remembered, Running
  <2>1. CASE e = d
    BY <2>1, <1>3, <1>8, <1>9 DEF Known, IInv, TypeOK
  <2>2. CASE e # d
    BY <2>2, <1>10 DEF Known, IInv, Remembered
  <2> QED BY <2>1, <2>2
<1>12. SavedLevel'
  <2> SUFFICES ASSUME NEW e \in Domain, e \notin unsaved', e \notin forgot
               PROVE  shown'[e] = IF disk'[e] = None THEN NewEntry ELSE disk'[e]
    BY <1>6 DEF SavedLevel
  <2>1. CASE e # d
    BY <2>1, <1>4, <1>10 DEF IInv, SavedLevel
  <2>2. CASE e = d /\ disk' = [disk EXCEPT ![d] = new]
    BY <2>2, <1>8, <1>9 DEF IInv, TypeOK
  <2>3. CASE e = d /\ disk' = disk /\ unsaved' = unsaved /\ ~Saves(d, dir, level)
    <3>1. new = Known(d)
      BY <2>3, <1>1, <1>2 DEF Saves, Raised, Entry, SecLevel
    <3>2. shown[d] = Known(d)
      BY <2>3 DEF IInv, Remembered, CheckSecLevel
    <3> QED BY <2>3, <3>1, <3>2, <1>9 DEF IInv, SavedLevel
  <2> QED BY <2>1, <2>2, <2>3, <1>4
<1> QED BY <1>7, <1>11, <1>12 DEF IInv

(* Clear keeps the invariant, also when its write fails. *)
LEMMA ClearKeeps ==
  ASSUME IInv, NEW d \in Domain, Clear(d)
  PROVE  IInv'
<1>1. NewEntry \in Entry /\ NewEntry # None
  BY Entries, DomainInfoAssumption
<1>2. \/ disk' = [disk EXCEPT ![d] = NewEntry] /\ unsaved' = unsaved \ {d}
         /\ writeFaults' = writeFaults
      \/ disk' = disk /\ unsaved' = unsaved \cup {d} /\ writeFaults' = writeFaults + 1
         /\ writeFaults < MaxWriteFaults
  BY DEF Clear, Write
<1>3. TypeOK'
  <2>1. disk' \in [Domain -> Entry \cup {None}] /\ unsaved' \in SUBSET Domain
    BY <1>1, <1>2 DEF IInv, TypeOK
  <2>2. writeFaults' \in 0..MaxWriteFaults
    BY <1>2, DomainInfoAssumption DEF IInv, TypeOK
  <2> QED BY <2>1, <2>2, <1>1 DEF IInv, TypeOK, Clear
<1>4. Remembered'
  BY <1>1 DEF IInv, TypeOK, Clear, Remembered, Known, Running
<1>5. SavedLevel'
  BY <1>1, <1>2 DEF IInv, TypeOK, Clear, SavedLevel
<1> QED BY <1>3, <1>4, <1>5 DEF IInv

(* A load leaves out only domains it then counts as forgotten. *)
LEMMA LoadKeeps ==
  ASSUME IInv, NEW S \in SUBSET Stored, Load(S), Loses(S),
         shown' = shown, disk' = disk
  PROVE  /\ info' \in [Domain -> Entry \cup {None}]
         /\ unsaved' \in SUBSET Domain /\ forgot' \in SUBSET Domain
         /\ \A d \in Domain \ forgot' : shown'[d] = Known(d)'
         /\ SavedLevel'
<1>1. info' \in [Domain -> Entry \cup {None}]
  BY DEF IInv, TypeOK, Load
<1>2. unsaved' \in SUBSET Domain /\ forgot' \in SUBSET Domain
  BY DEF IInv, TypeOK, Loses, Stored
<1>3. SavedLevel'
  BY DEF IInv, SavedLevel, Loses
<1>4. ASSUME NEW d \in Domain \ forgot' PROVE shown'[d] = Known(d)'
  <2>1. d \notin forgot \cup unsaved
    BY DEF Loses
  <2>2. d \in S \/ disk[d] = None
    BY DEF Loses, Stored
  <2> QED BY <2>1, <2>2 DEF IInv, SavedLevel, Load, Known
<1> QED BY <1>1, <1>2, <1>3, <1>4

(* The start of the process, with or without an unreadable file. *)
LEMMA NewKeeps == ASSUME IInv, New PROVE IInv'
<1>1. CASE Load(Stored) /\ Loses(Stored) /\ server' = "up" /\ readFaults' = readFaults
  BY <1>1, LoadKeeps DEF New, IInv, TypeOK, Remembered
<1>2. CASE /\ readFaults < MaxReadFaults /\ readFaults' = readFaults + 1
           /\ UNCHANGED <<server, info, unsaved, forgot>>
  <2>1. readFaults' \in 0..MaxReadFaults
    BY <1>2, DomainInfoAssumption DEF IInv, TypeOK
  <2>2. TypeOK'
    BY <1>2, <2>1 DEF New, IInv, TypeOK
  <2>3. Remembered' /\ SavedLevel'
    BY <1>2 DEF New, IInv, Remembered, SavedLevel, Running
  <2> QED BY <2>2, <2>3 DEF IInv
<1> QED BY <1>1, <1>2 DEF New

(* A reload, complete or cut short. *)
LEMMA ReloadKeeps == ASSUME IInv, Reload PROVE IInv'
<1>1. CASE Load(Stored) /\ Loses(Stored) /\ UNCHANGED <<server, readFaults>>
  BY <1>1, LoadKeeps DEF Reload, IInv, TypeOK, Remembered
<1>2. ASSUME NEW S \in SUBSET Stored, readFaults < MaxReadFaults,
             readFaults' = readFaults + 1, Load(S), Loses(S), server' = "exiting"
      PROVE  IInv'
  <2>1. readFaults' \in 0..MaxReadFaults
    BY <1>2, DomainInfoAssumption DEF IInv, TypeOK
  <2> QED BY <1>2, <2>1, LoadKeeps DEF Reload, IInv, TypeOK, Remembered
<1> QED BY <1>1, <1>2 DEF Reload

(* The end of the process. *)
LEMMA ExitKeeps == ASSUME IInv, Exit PROVE IInv'
BY DEF Exit, IInv, TypeOK, Remembered, SavedLevel, Running

(* Every step of the database keeps the invariant. *)
LEMMA NextKeeps == ASSUME IInv, [Next]_vars PROVE IInv'
<1>1. CASE UNCHANGED vars
  BY <1>1 DEF IInv, TypeOK, Remembered, SavedLevel, Running, Known, vars
<1>2. CASE Next
  BY <1>2, NewKeeps, ReloadKeeps, ExitKeeps, ClearKeeps, CheckSecLevelKeeps DEF Next
<1> QED BY <1>1, <1>2

(* The invariant is inductive. *)
THEOREM Inductive == Spec => []IInv
BY InitHolds, NextKeeps, PTL DEF Spec

(* Every variable keeps its type, whatever reads and writes fail. *)
THEOREM TypeCorrect == Spec => []TypeOK
<1>1. IInv => TypeOK
  BY DEF IInv
<1> QED BY <1>1, Inductive, PTL

(* IncomingSecLevel and OutgoingSecLevel allow exactly the levels not below *)
(* what the domain has shown, but for the domains a load has forgotten.    *)
THEOREM LevelsAreExact == Spec => []ExactLevel
<1>1. IInv => ExactLevel
  BY DEF IInv, ExactLevel, Remembered, Allowed
<1> QED BY <1>1, Inductive, PTL

(* The files hold what the domains have shown, so that a restart at any    *)
(* moment brings it back, but for failed writes.                           *)
THEOREM LevelsAreSaved == Spec => []SavedLevel
<1>1. IInv => SavedLevel
  BY DEF IInv
<1> QED BY <1>1, Inductive, PTL
=============================================================================
