----------------------------- MODULE DomainInfo -----------------------------
(***************************************************************************)
(* The database of security levels (internal/domaininfo/domaininfo.go).    *)
(*                                                                         *)
(* Connections ask it about the level of a sender's domain and couriers    *)
(* about the level of a recipient's, and a level higher than the recorded  *)
(* one is recorded, in memory and in a file per domain.  Every operation   *)
(* holds the mutex of the DB from its first read of the map to the end of  *)
(* its write, so each is one action.  The process may stop at any time;    *)
(* writes and reads of files may fail.                                     *)
(***************************************************************************)
EXTENDS Integers, FiniteSets

CONSTANTS
  Domain,          \* the domains mail comes from and goes to
  MaxWriteFaults,  \* how many writes of a file may fail
  MaxReadFaults,   \* how many loads may meet a file they cannot read
  None             \* no entry, no file

(***************************************************************************)
(* SecLevel of domaininfo.proto: PLAIN, TLS_CLIENT, TLS_INSECURE and       *)
(* TLS_SECURE.  Connections use the first two, couriers all but the second. *)
(***************************************************************************)
Dir == {"incoming", "outgoing"}
Level(dir) == IF dir = "incoming" THEN {0, 1} ELSE {0, 2, 3}
SecLevel == 0..3

Entry == [Dir -> SecLevel]
NewEntry == [dir \in Dir |-> 0]

ASSUME DomainInfoAssumption ==
  /\ MaxWriteFaults \in Nat /\ MaxReadFaults \in Nat
  /\ None \notin Entry

VARIABLES
  server,       \* "down", "up", or "exiting": Reload failed, Fatalf is next
  info,         \* DB.info: what the process knows, None for an absent key
  disk,         \* the files of DB.store
  writeFaults,
  readFaults,
  (* The rest records what happened; no guard reads it. *)
  shown,        \* the highest level each domain was allowed at since Clear
  unsaved,      \* the domains whose last write failed
  forgot        \* the domains whose level a load did not bring back

vars == <<server, info, disk, writeFaults, readFaults, shown, unsaved, forgot>>

(* The entry an operation on d works with. *)
Known_Fresh(d) == NewEntry
Known(d) == IF info[d] = None THEN NewEntry ELSE info[d]

(* level >= d.IncomingSecLevel, level >= d.OutgoingSecLevel *)
Allowed(d, dir, level) == level >= Known(d)[dir]

(* An operation on d finds, or is about to add, an entry to be saved. *)
Saves_OnlyNew(d, dir, level) == info[d] = None
Saves(d, dir, level) == info[d] = None \/ level > Known(d)[dir]

Running == server \in {"up", "exiting"}

TypeOK ==
  /\ server \in {"down", "up", "exiting"}
  /\ info \in [Domain -> Entry \cup {None}]
  /\ disk \in [Domain -> Entry \cup {None}]
  /\ writeFaults \in 0..MaxWriteFaults
  /\ readFaults \in 0..MaxReadFaults
  /\ shown \in [Domain -> Entry]
  /\ unsaved \in SUBSET Domain
  /\ forgot \in SUBSET Domain

Init ==
  /\ server = "down"
  /\ info = [d \in Domain |-> None]
  /\ disk = [d \in Domain |-> None]
  /\ writeFaults = 0 /\ readFaults = 0
  /\ shown = [d \in Domain |-> NewEntry]
  /\ unsaved = {} /\ forgot = {}

(***************************************************************************)
(* DB.write: the new entry is in the file, or the error is traced and the  *)
(* old file stays.                                                         *)
(***************************************************************************)
Write(d, entry) ==
  \/ /\ disk' = [disk EXCEPT ![d] = entry]
     /\ unsaved' = unsaved \ {d}
     /\ UNCHANGED writeFaults
  \/ /\ writeFaults < MaxWriteFaults
     /\ writeFaults' = writeFaults + 1
     /\ unsaved' = unsaved \cup {d}
     /\ UNCHANGED disk

Raised_OffByOne(entry, dir, level) ==
  [entry EXCEPT ![dir] = level + 1]
Raised(entry, dir, level) ==
  IF level > entry[dir] THEN [entry EXCEPT ![dir] = level] ELSE entry

(***************************************************************************)
(* IncomingSecLevel and OutgoingSecLevel.  The deferred write runs after   *)
(* the level was raised and before the unlock, so it saves the new level.  *)
(***************************************************************************)
CheckSecLevel(d, dir, level) ==
  /\ Running
  /\ info' = [info EXCEPT ![d] = Raised(Known(d), dir, level)]
  /\ IF Saves(d, dir, level)
     THEN Write(d, Raised(Known(d), dir, level))
     ELSE UNCHANGED <<disk, writeFaults, unsaved>>
  /\ shown' = IF Allowed(d, dir, level)
              THEN [shown EXCEPT ![d] = Raised(@, dir, level)]
              ELSE shown
  /\ UNCHANGED <<server, readFaults, forgot>>

(* Clear, called by the DomaininfoClear RPC for an administrator. *)
Clear(d) ==
  /\ Running
  /\ info[d] # None
  /\ info' = [info EXCEPT ![d] = NewEntry]
  /\ Write(d, NewEntry)
  /\ shown' = [shown EXCEPT ![d] = NewEntry]
  /\ forgot' = forgot \ {d}
  /\ UNCHANGED <<server, readFaults>>

(***************************************************************************)
(* Reload clears the map and reads the files one after the other until one *)
(* cannot be read: S are the domains it got to.                            *)
(***************************************************************************)
Stored == {d \in Domain : disk[d] # None}

Load(S) ==
  info' = [d \in Domain |-> IF d \in S THEN disk[d] ELSE None]

Loses(S) ==
  /\ forgot' = forgot \cup unsaved \cup (Stored \ S)
  /\ unsaved' = {}

(* New, when the process starts: an error ends it before anyone can ask. *)
New ==
  /\ server = "down"
  /\ \/ /\ Load(Stored) /\ Loses(Stored)
        /\ server' = "up"
        /\ UNCHANGED readFaults
     \/ /\ readFaults < MaxReadFaults
        /\ readFaults' = readFaults + 1
        /\ UNCHANGED <<server, info, unsaved, forgot>>
  /\ UNCHANGED <<disk, writeFaults, shown>>

(***************************************************************************)
(* Reload on SIGHUP.  After an error the signal handler calls log.Fatalf,  *)
(* but the mutex is free from the return of Reload to the exit.            *)
(***************************************************************************)
Reload ==
  /\ server = "up"
  /\ \/ /\ Load(Stored) /\ Loses(Stored)
        /\ UNCHANGED <<server, readFaults>>
     \/ \E S \in SUBSET Stored :
          /\ readFaults < MaxReadFaults
          /\ readFaults' = readFaults + 1
          /\ Load(S) /\ Loses(S)
          /\ server' = "exiting"
  /\ UNCHANGED <<disk, writeFaults, shown>>

(* The process ends: log.Fatalf, a signal, or a crash. *)
Exit ==
  /\ Running
  /\ server' = "down"
  /\ info' = [d \in Domain |-> None]
  /\ UNCHANGED <<disk, writeFaults, readFaults, shown, unsaved, forgot>>

Next ==
  \/ New \/ Reload \/ Exit
  \/ \E d \in Domain : Clear(d)
  \/ \E d \in Domain, dir \in Dir : \E level \in Level(dir) :
       CheckSecLevel(d, dir, level)

Spec == Init /\ [][Next]_vars

(***************************************************************************)
(* Properties                                                              *)
(***************************************************************************)

(* A domain is accepted at exactly the levels that are not below what it   *)
(* showed since an administrator last cleared it: IncomingSecLevel and     *)
(* OutgoingSecLevel neither let a domain fall back nor refuse it for a     *)
(* level it never had.  This survives reloads and restarts; the exceptions *)
(* are the domains whose last write had failed, or whose file a failing    *)
(* reload did not get to.                                                  *)
ExactLevel ==
  Running =>
    \A d \in Domain \ forgot, dir \in Dir : \A level \in Level(dir) :
      Allowed(d, dir, level) <=> level >= shown[d][dir]

(* docs/sec-levels.md: once a domain shows it can establish secure         *)
(* connections, connections of a lower level are rejected, that is, the    *)
(* checks in domaininfo.go refuse every level below one they allowed.      *)
NoDowngrade ==
  server = "up" =>
    \A d \in Domain, dir \in Dir : \A level \in Level(dir) :
      Allowed(d, dir, level) => level >= shown[d][dir]

(* What a restart would read back is what the domain has shown: after any  *)
(* order of checks, Clear, reloads and restarts, the file of a domain      *)
(* whose last DB.write succeeded holds the level of ExactLevel.            *)
SavedLevel ==
  \A d \in Domain \ (unsaved \cup forgot) :
    shown[d] = IF disk[d] = None THEN NewEntry ELSE disk[d]
=============================================================================
