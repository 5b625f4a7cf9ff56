------------------------------- MODULE Queue -------------------------------
(***************************************************************************)
(* The mail queue (internal/queue/queue.go): the in-memory map of items,   *)
(* the item files in the queue directory, one SendLoop goroutine per item, *)
(* one sendOneRcpt goroutine per recipient and round, the Put calls of the *)
(* SMTP connections and of sendDSN, and the process that may stop at any   *)
(* point and load the directory again.                                     *)
(***************************************************************************)
EXTENDS Naturals, FiniteSets

CONSTANTS
  Conn,               \* SMTP connections, each calling Put from its goroutine
  Mail, Notice,       \* ids newID hands to connections, and to sendDSN
  Rcpt,               \* recipient slots of an item
  Pipe,               \* the slots that resolve to a pipe alias
  MailTo, NoticeTo,   \* what the recipients of a message, and the sender a DSN
                      \* goes to, can resolve to: sets of recipient slots
  MaxItems,           \* max_queue_items of the configuration
  DefaultMaxItems,    \* the value New puts in Queue.MaxItems
  GiveUpAfter,        \* give_up_send_after of the configuration
  DefaultGiveUpAfter, \* the value New puts in Queue.GiveUpAfter
  MaxCrashes,         \* bound: how often the process stops
  MaxFaults           \* bound: how many file operations or resolutions fail

Id == Mail \cup Notice
Thread == Conn \cup Id
NoId == "no id"
Null == "<>"
Status == {"PENDING", "SENT", "FAILED"}
LoopPc == {"none", "loop", "wait", "sleep", "dsn", "remove", "delete", "done"}
PutPc == {"idle", "put_write", "put_insert"}
MaxAge == IF GiveUpAfter > DefaultGiveUpAfter THEN GiveUpAfter ELSE DefaultGiveUpAfter

ASSUME QueueAssumption ==
  /\ Conn \cap Id = {} /\ Mail \cap Notice = {} /\ NoId \notin Id
  /\ Pipe \subseteq Rcpt
  /\ MailTo \subseteq SUBSET Rcpt /\ NoticeTo \subseteq SUBSET Rcpt
  /\ MaxItems \in Nat /\ DefaultMaxItems \in Nat
  /\ GiveUpAfter \in Nat /\ DefaultGiveUpAfter \in Nat
  /\ MaxCrashes \in Nat /\ MaxFaults \in Nat

VARIABLES
  server,    \* "down", "loaded" (limits not set yet) or "listening"
  pc,        \* where each connection and each SendLoop is
  newItem,   \* the item a Put in progress is building
  queue,     \* the keys of q.q
  mem,       \* Status of the recipients, in memory
  snd,       \* where the sendOneRcpt goroutine of a recipient is
  files,     \* the items that have a file in the queue directory
  disk,      \* Status of the recipients in that file
  from,      \* Item.From, immutable
  to,        \* the recipients of the item, immutable
  age,       \* time.Since(item.CreatedAt)
  crashes, faults,
  \* What the outside has seen, for the properties only:
  accepted,  \* items whose Put returned without error
  delivered, \* how often a recipient got the message
  notices,   \* how many DSNs about the item were queued
  dropped,   \* items whose DSN could not be queued
  discarded  \* items of the null sender given up with unsent recipients

volatile == <<server, pc, newItem, queue, mem, snd>>
stored == <<files, disk, from, to, age>>
seen == <<accepted, delivered, notices, dropped, discarded>>
vars == <<volatile, stored, crashes, faults, seen>>

TypeOK ==
  /\ server \in {"down", "loaded", "listening"}
  /\ pc \in [Thread -> LoopPc \cup PutPc]
  /\ newItem \in [Thread -> Id \cup {NoId}]
  /\ queue \subseteq Id /\ files \subseteq Id
  /\ mem \in [Id -> [Rcpt -> Status]] /\ disk \in [Id -> [Rcpt -> Status]]
  /\ snd \in [Id -> [Rcpt -> {"idle", "deliver", "write"}]]
  /\ from \in [Id -> {"sender", Null, "unset"}]
  /\ to \in [Id -> SUBSET Rcpt]
  /\ age \in [Id -> 0..MaxAge]
  /\ crashes \in 0..MaxCrashes /\ faults \in 0..MaxFaults
  /\ accepted \subseteq Id /\ dropped \subseteq Id /\ discarded \subseteq Id
  /\ delivered \in [Id -> [Rcpt -> Nat]]
  /\ notices \in [Id -> Nat]

AllPending == [r \in Rcpt |-> "PENDING"]
Idle == [r \in Rcpt |-> "idle"]
Resting == [t \in Thread |-> IF t \in Conn THEN "idle" ELSE "none"]

Init ==
  /\ server = "down"
  /\ pc = Resting
  /\ newItem = [t \in Thread |-> NoId]
  /\ queue = {} /\ files = {}
  /\ mem = [i \in Id |-> AllPending] /\ disk = [i \in Id |-> AllPending]
  /\ snd = [i \in Id |-> Idle]
  /\ from = [i \in Id |-> "unset"]
  /\ to = [i \in Id |-> {}]
  /\ age = [i \in Id |-> 0]
  /\ crashes = 0 /\ faults = 0
  /\ accepted = {} /\ dropped = {} /\ discarded = {}
  /\ delivered = [i \in Id |-> [r \in Rcpt |-> 0]]
  /\ notices = [i \in Id |-> 0]

-----------------------------------------------------------------------------
(* The limits: New sets the defaults, InitQueue loads the queue with them,  *)
(* and only then main calls SetQueueLimits.                                 *)
MaxItemsNow == IF server = "loaded" THEN DefaultMaxItems ELSE MaxItems
GiveUpNow == IF server = "loaded" THEN DefaultGiveUpAfter ELSE GiveUpAfter

Fault ==
  /\ faults < MaxFaults
  /\ faults' = faults + 1

\* ItemFromFile: the statuses in memory are those the file had.
ItemFromFile_Mutant(i) == AllPending
ItemFromFile(i) == disk[i]

\* Load: every file that reads back becomes an item with a running SendLoop;
\* the others are logged and skipped.
Load(unread) ==
  /\ server = "down"
  /\ unread \subseteq files
  /\ IF unread = {} THEN UNCHANGED faults ELSE Fault
  /\ server' = "loaded"
  /\ queue' = files \ unread
  /\ mem' = [i \in Id |-> IF i \in queue' THEN ItemFromFile(i) ELSE AllPending]
  /\ pc' = [t \in Thread |-> IF t \in queue' THEN "loop" ELSE Resting[t]]
  /\ UNCHANGED <<newItem, snd, stored, crashes, seen>>

\* main calls SetQueueLimits after InitQueue, and listens after that.
SetQueueLimits ==
  /\ server = "loaded"
  /\ server' = "listening"
  /\ UNCHANGED <<pc, newItem, queue, mem, snd, stored, crashes, faults, seen>>

\* The process ends (a signal, log.Fatalf, a panic): all that is in memory goes.
Crash ==
  /\ server # "down"
  /\ crashes < MaxCrashes
  /\ crashes' = crashes + 1
  /\ server' = "down"
  /\ pc' = Resting
  /\ newItem' = [t \in Thread |-> NoId]
  /\ queue' = {}
  /\ mem' = [i \in Id |-> AllPending]
  /\ snd' = [i \in Id |-> Idle]
  /\ UNCHANGED <<stored, faults, seen>>

\* Time passes for an item that is queued or stored.
Tick(i) ==
  /\ i \in queue \cup files
  /\ age[i] < MaxAge
  /\ age' = [age EXCEPT ![i] = @ + 1]
  /\ UNCHANGED <<volatile, files, disk, from, to, crashes, faults, seen>>

-----------------------------------------------------------------------------
(* Put. A connection calls it for a client, a SendLoop from sendDSN.        *)

CallsPut(t) ==
  \/ t \in Conn /\ pc[t] = "idle" /\ server = "listening"
  \/ t \in Id /\ pc[t] = "dsn"

\* Put returns an error: the client gets an error reply; sendDSN logs and returns.
PutError(t) ==
  /\ newItem' = [newItem EXCEPT ![t] = NoId]
  /\ pc' = [pc EXCEPT ![t] = IF t \in Conn THEN "idle" ELSE "remove"]
  /\ dropped' = dropped \cup ({t} \cap Id)

\* The length check; it is not repeated when the item is inserted.
PutBegin(t) ==
  /\ CallsPut(t)
  /\ \/ /\ Cardinality(queue) >= MaxItemsNow
        /\ PutError(t)
        /\ UNCHANGED from
     \/ /\ Cardinality(queue) < MaxItemsNow
        /\ \E i \in IF t \in Conn THEN Mail ELSE Notice :
             /\ from[i] = "unset"
             /\ \E f \in IF t \in Conn THEN {"sender", Null} ELSE {Null} :
                  from' = [from EXCEPT ![i] = f]
             /\ newItem' = [newItem EXCEPT ![t] = i]
        /\ pc' = [pc EXCEPT ![t] = "put_write"]
        /\ UNCHANGED dropped
  /\ UNCHANGED <<server, queue, mem, snd, files, disk, to, age, crashes, faults,
                 accepted, delivered, notices, discarded>>

\* WriteTo: the file of the item is in the directory, under its id.
WriteTo_NoRename(i) == files
WriteTo_NoId(i) == files \cup {NoId}
FilesWith(i) == files \cup {i}

\* Alias resolution and the first WriteTo; either may fail.
PutWrite(t) ==
  /\ pc[t] = "put_write"
  /\ \/ /\ Fault
        /\ PutError(t)
        /\ UNCHANGED <<mem, files, disk, to>>
     \/ /\ \E R \in IF t \in Conn THEN MailTo ELSE NoticeTo :
             to' = [to EXCEPT ![newItem[t]] = R]
        /\ files' = FilesWith(newItem[t])
        /\ pc' = [pc EXCEPT ![t] = "put_insert"]
        /\ UNCHANGED <<newItem, mem, disk, faults, dropped>>
  /\ UNCHANGED <<server, queue, snd, from, age, crashes,
                 accepted, delivered, notices, discarded>>

\* The item enters the map, its SendLoop starts, and Put returns its id.
PutInsert(t) ==
  /\ pc[t] = "put_insert"
  /\ queue' = queue \cup {newItem[t]}
  /\ newItem' = [newItem EXCEPT ![t] = NoId]
  /\ pc' = [pc EXCEPT ![newItem[t]] = "loop",
                      ![t] = IF t \in Conn THEN "idle" ELSE "remove"]
  /\ accepted' = accepted \cup {newItem[t]}
  /\ notices' = IF t \in Conn THEN notices ELSE [notices EXCEPT ![t] = @ + 1]
  /\ UNCHANGED <<server, mem, snd, stored, crashes, faults,
                 delivered, dropped, discarded>>

-----------------------------------------------------------------------------
(* SendLoop                                                                 *)

WithStatus(i, S) == {r \in to[i] : mem[i][r] \in S}

\* The conditions of SendLoop: of the for loop, of the goroutine for a
\* recipient, of wg.Wait, and of sendDSN.
GivesUp_Never(i) == FALSE
GivesUp(i) == age[i] >= GiveUpNow

ToSend_All(i) == to[i]
ToSend(i) == WithStatus(i, {"PENDING"})

SendersDone_NoWait(i) == TRUE
SendersDone(i) == snd[i] = Idle

Unsent_OnlyFailed(i) == WithStatus(i, {"FAILED"}) # {}
Unsent(i) == WithStatus(i, {"PENDING", "FAILED"}) # {}

HasSender_Any(i) == TRUE
HasSender(i) == from[i] # Null

\* What follows the for loop: a DSN if something was not sent, unless the
\* item is itself from the null sender.
LeaveLoop(i) ==
  /\ pc' = [pc EXCEPT ![i] = IF Unsent(i) /\ HasSender(i) THEN "dsn" ELSE "remove"]
  /\ discarded' = IF Unsent(i) /\ ~HasSender(i) THEN discarded \cup {i} ELSE discarded

\* The loop condition, and a goroutine for every pending recipient.
SendLoop(i) ==
  /\ pc[i] = "loop"
  /\ \/ /\ GivesUp(i)
        /\ LeaveLoop(i)
        /\ UNCHANGED snd
     \/ /\ ~GivesUp(i)
        /\ snd' = [snd EXCEPT ![i] = [r \in Rcpt |->
                     IF r \in ToSend(i) THEN "deliver" ELSE "idle"]]
        /\ pc' = [pc EXCEPT ![i] = "wait"]
        /\ UNCHANGED discarded
  /\ UNCHANGED <<server, newItem, queue, mem, stored, crashes, faults,
                 accepted, delivered, notices, dropped>>

\* wg.Wait returns: leave if nothing is pending, sleep otherwise.
SendLoopWait(i) ==
  /\ pc[i] = "wait"
  /\ SendersDone(i)
  /\ \/ /\ WithStatus(i, {"PENDING"}) = {}
        /\ LeaveLoop(i)
     \/ /\ WithStatus(i, {"PENDING"}) # {}
        /\ pc' = [pc EXCEPT ![i] = "sleep"]
        /\ UNCHANGED discarded
  /\ UNCHANGED <<server, newItem, queue, mem, snd, stored, crashes, faults,
                 accepted, delivered, notices, dropped>>

\* The nextDelay sleep is over.
SendLoopWake(i) ==
  /\ pc[i] = "sleep"
  /\ pc' = [pc EXCEPT ![i] = "loop"]
  /\ UNCHANGED <<server, newItem, queue, mem, snd, stored, crashes, faults, seen>>

\* What deliver can return: a pipe failure is always permanent.
Outcome(r) == {"SENT", "FAILED"} \cup (IF r \in Pipe THEN {} ELSE {"PENDING"})

\* sendOneRcpt up to the Unlock: the courier call and the status update.
SendOneRcpt(i, r) ==
  /\ snd[i][r] = "deliver"
  /\ \E s \in Outcome(r) :
       /\ mem' = [mem EXCEPT ![i][r] = s]
       /\ delivered' = IF s = "SENT" THEN [delivered EXCEPT ![i][r] = @ + 1]
                                     ELSE delivered
  /\ snd' = [snd EXCEPT ![i][r] = "write"]
  /\ UNCHANGED <<server, pc, newItem, queue, stored, crashes, faults,
                 accepted, notices, dropped, discarded>>

\* The WriteTo at its end: the whole item as it is now; an error is only logged.
WriteTo(i, r) ==
  /\ snd[i][r] = "write"
  /\ snd' = [snd EXCEPT ![i][r] = "idle"]
  /\ \/ /\ Fault
        /\ UNCHANGED <<files, disk>>
     \/ /\ files' = FilesWith(i)
        /\ disk' = [disk EXCEPT ![i] = mem[i]]
        /\ UNCHANGED faults
  /\ UNCHANGED <<server, pc, newItem, queue, mem, from, to, age, crashes, seen>>

\* Remove: the file first (an error is only logged) ...
RemoveFile(i) ==
  /\ pc[i] = "remove"
  /\ \/ Fault /\ UNCHANGED files
     \/ files' = files \ {i} /\ UNCHANGED faults
  /\ pc' = [pc EXCEPT ![i] = "delete"]
  /\ UNCHANGED <<server, newItem, queue, mem, snd, disk, from, to, age, crashes, seen>>

\* ... then the map entry.
RemoveEntry(i) ==
  /\ pc[i] = "delete"
  /\ queue' = queue \ {i}
  /\ pc' = [pc EXCEPT ![i] = "done"]
  /\ UNCHANGED <<server, newItem, mem, snd, stored, crashes, faults, seen>>

\* A listening server with no work waits for connections.
Waiting ==
  /\ server = "listening"
  /\ \A i \in Id : pc[i] \in {"none", "done"}
  /\ UNCHANGED vars

-----------------------------------------------------------------------------
Put(t) == PutBegin(t) \/ PutWrite(t) \/ PutInsert(t)

Loop(i) ==
  \/ SendLoop(i) \/ SendLoopWait(i) \/ SendLoopWake(i)
  \/ RemoveFile(i) \/ RemoveEntry(i)

Sender(i, r) == SendOneRcpt(i, r) \/ WriteTo(i, r)

Next ==
  \/ \E unread \in SUBSET files : Load(unread)
  \/ SetQueueLimits
  \/ Crash
  \/ \E t \in Thread : Put(t)
  \/ \E i \in Id : Loop(i) \/ Tick(i)
  \/ \E i \in Id, r \in Rcpt : Sender(i, r)
  \/ Waiting

Spec == Init /\ [][Next]_vars

(* The Go scheduler runs every goroutine, every courier call has a timeout, *)
(* the service manager restarts the process and time passes.  A client need *)
(* not send anything, but a Put it started runs to its end.                 *)
Fairness ==
  /\ WF_vars(\E unread \in SUBSET files : Load(unread))
  /\ WF_vars(SetQueueLimits)
  /\ \A t \in Conn : WF_vars(PutWrite(t) \/ PutInsert(t))
  /\ \A i \in Id : WF_vars(Put(i)) /\ WF_vars(Loop(i)) /\ WF_vars(Tick(i))
  /\ \A i \in Id, r \in Rcpt : WF_vars(Sender(i, r))

FairSpec == Spec /\ Fairness

-----------------------------------------------------------------------------
(* What the queue promises.                                                 *)

\* A recipient of an accepted item is accounted for when the message reached
\* it, or the sender was told (or could not be).
Settled(i, r) ==
  delivered[i][r] > 0 \/ notices[i] > 0 \/ i \in dropped \cup discarded

(* Mail that Put accepted is never silently lost, whatever crashes and file *)
(* errors happen in SendLoop, sendOneRcpt and Remove: until a recipient is  *)
(* settled, the item's file is in the directory and does not say SENT.      *)
NoMailLost ==
  \A i \in accepted : \A r \in to[i] :
    Settled(i, r) \/ (i \in files /\ disk[i][r] # "SENT")

(* A recipient gets a message, and a sender its DSN, at most once for each  *)
(* time the process ran: only a crash between the courier call and WriteTo, *)
(* or a file Remove could not delete, makes SendLoop repeat itself.         *)
OncePerProcess ==
  \A i \in Id : notices[i] <= crashes + 1 /\ \A r \in Rcpt : delivered[i][r] <= crashes + 1

(* No bounce of a bounce: the From check before sendDSN means that no item  *)
(* from the null sender, the DSNs included, ever causes a DSN.              *)
NoBounceOfBounce ==
  \A i \in Id : notices[i] > 0 \/ i \in dropped => from[i] # Null

(* The wait group keeps Remove after the last WriteTo: once the file of an  *)
(* item is gone, no late sendOneRcpt writes it back.                        *)
RemovedStaysRemoved ==
  [][\A i \in accepted : i \notin files => i \notin files']_vars

(* An outcome that reached the disk is final: whatever goroutines and       *)
(* restarts follow, WriteTo never undoes it and SendLoop never sends to     *)
(* that recipient again.                                                    *)
DurableOutcomeFinal ==
  [][\A i \in files \cap files' : \A r \in to[i] :
       disk[i][r] # "PENDING" => /\ disk'[i][r] = disk[i][r]
                                 /\ delivered'[i][r] = delivered[i][r]]_vars

(* Every accepted item is settled in the end: the retries of SendLoop end   *)
(* after GiveUpAfter even when the process crashes and starts again.  Only  *)
(* a file that Load could not read waits for the start after that.          *)
EventuallySettled ==
  \A i \in Id :
    i \in accepted ~> \/ \A r \in to[i] : Settled(i, r)
                      \/ server # "down" /\ i \in files \ queue

(* SendLoop always reaches Remove: no item stays in the map for ever, even  *)
(* when file operations fail.                                               *)
EventuallyLeaves ==
  \A i \in Id : i \in queue ~> i \notin queue

(* chasquid.conf(5), max_queue_items: "Maximum number of items in the       *)
(* queue".  Put checks the length and inserts in two critical sections.     *)
LengthBound == Cardinality(queue) <= MaxItems

(* chasquid.conf(5), give_up_send_after: "Once we give up, a DSN will be    *)
(* sent back to the sender".  sendDSN uses Put, which a full queue refuses. *)
FailureReported ==
  \A i \in Id :
    /\ pc[i] = "done"
    /\ HasSender(i)
    /\ Unsent(i)
    => notices[i] > 0

(* chasquid.conf(5), give_up_send_after: how long we keep retrying before   *)
(* we give up.  The loops that Load starts race with SetQueueLimits.        *)
GiveUpHonoured ==
  \A i \in Id :
    pc[i] \in {"dsn", "remove"} /\ WithStatus(i, {"PENDING"}) # {} => age[i] >= GiveUpAfter
=============================================================================
