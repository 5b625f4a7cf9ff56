---------------------------- MODULE QueueProofs ----------------------------
(***************************************************************************)
(* Every step of Queue preserves the inductive invariant, and what follows:*)
(* mail is never lost, nothing is sent or reported twice by one process, no*)
(* bounce of a bounce, and the files say what may still be done.           *)
(***************************************************************************)
EXTENDS QueueSendProofs

\* Deleting the map entry keeps the invariant.
LEMMA RemoveEntryKeeps ==
  ASSUME IInv, NEW j \in Id, RemoveEntry(j)
  PROVE  IInv'
<1> USE Apart DEF IInv, Thread, stored, seen, volatile, LoopPc, PutPc, AllPending, Idle, Untouched
<1>1. TypeOK'
  BY QueueAssumption DEF TypeOK, Status, MaxAge, RemoveEntry
<1>2. Fresh'
  BY DEF TypeOK, Fresh, FreshId, Building, Builds, Running, Runs, RemoveEntry
<1>3. Building'
  BY DEF TypeOK, Fresh, FreshId, Building, Builds, Running, Runs, RemoveEntry
<1>4. Running'
  BY DEF TypeOK, Fresh, FreshId, Building, Builds, Running, Runs, RemoveEntry
<1>5. Accounted'
  BY DEF TypeOK, Running, Runs, Accounted, Accounts, Settled, RemoveEntry
<1>6. Counted'
  BY DEF TypeOK, Running, Runs, Counted, Counts, RemoveEntry
<1>7. Bouncing'
  BY DEF TypeOK, Running, Runs, Bouncing, Bounces, RemoveEntry
<1> QED BY <1>1, <1>2, <1>3, <1>4, <1>5, <1>6, <1>7

\* Setting the limits keeps the invariant.
LEMMA SetQueueLimitsKeeps ==
  ASSUME IInv, SetQueueLimits
  PROVE  IInv'
<1> USE Apart DEF IInv, Thread, stored, seen, volatile, LoopPc, PutPc, AllPending, Idle, Untouched
<1>1. TypeOK'
  BY QueueAssumption DEF TypeOK, Status, MaxAge, SetQueueLimits
<1>2. Fresh'
  BY DEF TypeOK, Fresh, FreshId, Building, Builds, Running, Runs, SetQueueLimits
<1>3. Building'
  BY DEF TypeOK, Fresh, FreshId, Building, Builds, Running, Runs, SetQueueLimits
<1>4. Running'
  BY DEF TypeOK, Fresh, FreshId, Building, Builds, Running, Runs, SetQueueLimits
<1>5. Accounted'
  BY DEF TypeOK, Running, Runs, Accounted, Accounts, Settled, SetQueueLimits
<1>6. Counted'
  BY DEF TypeOK, Running, Runs, Counted, Counts, SetQueueLimits
<1>7. Bouncing'
  BY DEF TypeOK, Running, Runs, Bouncing, Bounces, SetQueueLimits
<1> QED BY <1>1, <1>2, <1>3, <1>4, <1>5, <1>6, <1>7

\* The passing of time keeps the invariant.
LEMMA TickKeeps ==
  ASSUME IInv, NEW j \in Id, Tick(j)
  PROVE  IInv'
<1> USE Apart DEF IInv, Thread, stored, seen, volatile, LoopPc, PutPc, AllPending, Idle, Untouched
<1>1. TypeOK'
  BY QueueAssumption DEF TypeOK, Status, MaxAge, Tick
<1>2. Fresh'
  BY DEF TypeOK, Fresh, FreshId, Building, Builds, Running, Runs, Tick
<1>3. Building'
  BY DEF TypeOK, Fresh, FreshId, Building, Builds, Running, Runs, Tick
<1>4. Running'
  BY DEF TypeOK, Fresh, FreshId, Building, Builds, Running, Runs, Tick
<1>5. Accounted'
  BY DEF TypeOK, Running, Runs, Accounted, Accounts, Settled, Tick
<1>6. Counted'
  BY DEF TypeOK, Running, Runs, Counted, Counts, Tick
<1>7. Bouncing'
  BY DEF TypeOK, Running, Runs, Bouncing, Bounces, Tick
<1> QED BY <1>1, <1>2, <1>3, <1>4, <1>5, <1>6, <1>7

\* The end of the process keeps the invariant.
LEMMA CrashKeeps ==
  ASSUME IInv, Crash
  PROVE  IInv'
<1> USE Apart DEF IInv, Thread, stored, seen, volatile, LoopPc, PutPc, AllPending, Idle, Untouched
<1>1. TypeOK'
  BY QueueAssumption DEF TypeOK, Status, MaxAge, Crash, Resting
<1>2. Fresh'
  BY DEF TypeOK, Fresh, FreshId, Building, Builds, Running, Runs, Crash, Resting
<1>3. Building'
  BY DEF TypeOK, Fresh, FreshId, Building, Builds, Running, Runs, Crash, Resting
<1>4. Running'
  BY DEF TypeOK, Fresh, FreshId, Building, Builds, Running, Runs, Crash, Resting
<1>5. Accounted'
  BY DEF TypeOK, Running, Runs, Accounted, Accounts, Settled, Crash, Resting
<1>6. Counted'
  BY DEF TypeOK, Running, Runs, Counted, Counts, Crash, Resting
<1>7. Bouncing'
  BY DEF TypeOK, Running, Runs, Bouncing, Bounces, Crash, Resting
<1> QED BY <1>1, <1>2, <1>3, <1>4, <1>5, <1>6, <1>7

\* Load keeps the invariant, whichever files it can read.
LEMMA LoadKeeps ==
  ASSUME IInv, NEW unread \in SUBSET files, Load(unread)
  PROVE  IInv'
<1> USE Apart DEF IInv, Thread, stored, seen, volatile, LoopPc, PutPc, AllPending, Idle, Untouched
<1>1. TypeOK'
  BY QueueAssumption DEF TypeOK, Status, MaxAge, Load, ItemFromFile, Fault, Resting
<1>2. Fresh'
  BY DEF TypeOK, Fresh, FreshId, Building, Builds, Running, Runs, Load, ItemFromFile, Fault, Resting
<1>3. Building'
  BY DEF TypeOK, Fresh, FreshId, Building, Builds, Running, Runs, Load, ItemFromFile, Fault, Resting
<1>4. Running'
  <2>1. \A i \in Id : snd[i] = Idle /\ pc[i] = "none"
    BY DEF Load, Running, Runs
  <2>2. ASSUME NEW i \in Id PROVE Runs(i)'
    BY <2>1 DEF TypeOK, Runs, Load, ItemFromFile, Resting
  <2> QED BY <2>2 DEF Running, Load
<1>5. Accounted'
  BY DEF TypeOK, Running, Runs, Accounted, Accounts, Settled, Load, ItemFromFile, Fault, Resting
<1>6. Counted'
  BY DEF TypeOK, Running, Runs, Counted, Counts, Load, ItemFromFile, Fault, Resting
<1>7. Bouncing'
  BY DEF TypeOK, Running, Runs, Bouncing, Bounces, Load, ItemFromFile, Fault, Resting
<1> QED BY <1>1, <1>2, <1>3, <1>4, <1>5, <1>6, <1>7

\* The invariant holds before the first start.
LEMMA InitOK == Init => IInv
<1> SUFFICES ASSUME Init PROVE IInv
  OBVIOUS
<1> USE Apart DEF Init, Thread, AllPending, Idle, Resting
<1>1. TypeOK BY QueueAssumption DEF TypeOK, Status, LoopPc, PutPc, MaxAge
<1>2. Fresh BY DEF Fresh, FreshId, Untouched
<1>3. Building BY DEF Building, Builds, PutPc
<1>4. Running BY DEF Running, Runs
<1>5. Accounted BY DEF Accounted, Accounts
<1>6. Counted BY DEF Counted, Counts
<1>7. Bouncing BY DEF Bouncing, Bounces
<1> QED BY <1>1, <1>2, <1>3, <1>4, <1>5, <1>6, <1>7 DEF IInv

\* So does a step that changes nothing.
LEMMA StutterKeeps ==
  ASSUME IInv, UNCHANGED vars
  PROVE  IInv'
<1> USE DEF IInv, vars, volatile, stored, seen
<1>1. TypeOK' BY DEF TypeOK
<1>2. Fresh' BY DEF Fresh, FreshId, Untouched
<1>3. Building' BY DEF Building, Builds, Untouched
<1>4. Running' BY DEF Running, Runs
<1>5. Accounted' BY DEF Accounted, Accounts, Settled
<1>6. Counted' BY DEF Counted, Counts
<1>7. Bouncing' BY DEF Bouncing, Bounces
<1> QED BY <1>1, <1>2, <1>3, <1>4, <1>5, <1>6, <1>7

\* Every step of the queue keeps the invariant.
LEMMA NextKeeps == IInv /\ [Next]_vars => IInv'
<1> SUFFICES ASSUME IInv, [Next]_vars PROVE IInv'
  OBVIOUS
<1>1. ASSUME NEW unread \in SUBSET files, Load(unread) PROVE IInv'
  BY <1>1, LoadKeeps
<1>2. ASSUME NEW t \in Thread, Put(t) PROVE IInv'
  BY <1>2, PutBeginKeeps, PutWriteKeeps, PutInsertKeeps DEF Put
<1>3. ASSUME NEW i \in Id, Loop(i) PROVE IInv'
  BY <1>3, SendLoopKeeps, SendLoopWaitKeeps, SendLoopWakeKeeps, RemoveFileKeeps,
     RemoveEntryKeeps DEF Loop
<1>4. ASSUME NEW i \in Id, NEW r \in Rcpt, Sender(i, r) PROVE IInv'
  BY <1>4, SendOneRcptKeeps, WriteToKeeps DEF Sender
<1>5. ASSUME UNCHANGED vars PROVE IInv'
  BY <1>5, StutterKeeps
<1>6. CASE SetQueueLimits BY <1>6, SetQueueLimitsKeeps
<1>7. CASE Crash BY <1>7, CrashKeeps
<1>8. ASSUME NEW i \in Id, Tick(i) PROVE IInv' BY <1>8, TickKeeps
<1> QED BY <1>1, <1>2, <1>3, <1>4, <1>5, <1>6, <1>7, <1>8 DEF Next, Waiting

\* The invariant holds throughout every run of the queue.
THEOREM Inductive == Spec => []IInv
  BY InitOK, NextKeeps, PTL DEF Spec

(* Every variable of the queue keeps its type.                              *)
THEOREM TypeCorrect == Spec => []TypeOK
<1>1. IInv => TypeOK BY DEF IInv
<1> QED BY <1>1, Inductive, PTL

(* Once Put has returned an id, and until the recipient got the message or  *)
(* its sender was told, the item's file is in the directory and does not    *)
(* say SENT for that recipient: SendLoop, sendOneRcpt, Remove and Load keep *)
(* this through every crash and every failed file operation.                *)
THEOREM MailIsNeverLost == Spec => []NoMailLost
<1>1. IInv => NoMailLost
  <2> SUFFICES ASSUME IInv, NEW i \in accepted, NEW r \in to[i], ~Settled(i, r)
               PROVE i \in files /\ disk[i][r] # "SENT"
    BY DEF NoMailLost
  <2>1. i \in Id /\ Accounts(i) BY DEF IInv, TypeOK, Accounted
  <2>2. r \in Rcpt BY <2>1, Types DEF IInv
  <2> QED BY <2>1, <2>2 DEF Accounts, Settled
<1> QED BY <1>1, Inductive, PTL

(* sendOneRcpt delivers to a recipient, and sendDSN reports an item, at     *)
(* most once in each life of the process.                                   *)
THEOREM AtMostOncePerProcess == Spec => []OncePerProcess
<1>1. IInv => OncePerProcess BY DEF IInv, Counted, Counts, OncePerProcess
<1> QED BY <1>1, Inductive, PTL

(* The check of From in SendLoop stops every DSN about an item of the null  *)
(* sender, the DSNs themselves included.                                    *)
THEOREM NullSenderNeverBounces == Spec => []NoBounceOfBounce
<1>1. IInv => NoBounceOfBounce BY DEF IInv, Bouncing, Bounces, NoBounceOfBounce, Null
<1> QED BY <1>1, Inductive, PTL

(* After Remove no late WriteTo of sendOneRcpt brings the file back: all of *)
(* them end before wg.Wait lets SendLoop get to Remove.                     *)
THEOREM RemovalIsFinal == Spec => RemovedStaysRemoved
<1> DEFINE Kept == \A i \in accepted : i \notin files => i \notin files'
<1>1. IInv /\ [Next]_vars => [Kept]_vars
  <2> SUFFICES ASSUME IInv, Next, NEW i \in accepted, i \notin files PROVE i \notin files'
    OBVIOUS
  <2>1. i \in Id BY SMTT(30) DEF IInv, TypeOK
  <2>2. ASSUME NEW t \in Thread, Put(t) PROVE i \notin files'
    <3>1. Builds(t) /\ (pc[t] = "put_write" => newItem[t] # i)
      BY DEF IInv, Building, Builds
    <3> QED BY <2>2, <3>1 DEF Put, PutBegin, PutWrite, PutInsert, FilesWith, stored
  <2>3. ASSUME NEW j \in Id, NEW r \in Rcpt, Sender(j, r) PROVE i \notin files'
    <3>1. snd[j][r] # "idle" BY <2>3 DEF Sender, SendOneRcpt, WriteTo
    <3>2. j \in files BY <3>1 DEF IInv, Running, Runs, Idle
    <3> QED BY <2>3, <3>2 DEF Sender, SendOneRcpt, WriteTo, FilesWith, stored
  <2> QED BY <2>2, <2>3 DEF Next, Load, SetQueueLimits, Crash, Tick, Loop, SendLoop, SendLoopWait,
             SendLoopWake, RemoveFile, RemoveEntry, Waiting, vars, stored
<1> QED BY <1>1, Inductive, PTL DEF Spec, RemovedStaysRemoved

(* A status that WriteTo stored is never stored differently, and the        *)
(* recipient is not sent the message again, in this process or after Load.  *)
THEOREM DurableOutcomesAreFinal == Spec => DurableOutcomeFinal
<1> DEFINE Final == \A i \in files \cap files' : \A r \in to[i] :
       disk[i][r] # "PENDING" => /\ disk'[i][r] = disk[i][r]
                                 /\ delivered'[i][r] = delivered[i][r]
<1>1. IInv /\ [Next]_vars => [Final]_vars
  <2> SUFFICES ASSUME IInv, Next, NEW i \in files, NEW r \in to[i], disk[i][r] # "PENDING"
               PROVE disk'[i][r] = disk[i][r] /\ delivered'[i][r] = delivered[i][r]
    OBVIOUS
  <2>1. i \in Id /\ r \in Rcpt BY Types DEF IInv, TypeOK
  <2>2. ASSUME NEW j \in Id, NEW q \in Rcpt, Sender(j, q)
        PROVE disk'[i][r] = disk[i][r] /\ delivered'[i][r] = delivered[i][r]
    <3>1. snd[j][q] # "idle" /\ Runs(j) BY <2>2 DEF Sender, SendOneRcpt, WriteTo, IInv, Running
    <3>2. j \in queue /\ j \in files BY <3>1 DEF Runs, Idle
    <3>3. mem[j][q] = "PENDING" => disk[j][q] = "PENDING" BY <3>1, <3>2 DEF Runs
    <3>4. CASE SendOneRcpt(j, q)
      <4>1. mem[j][q] = "PENDING" BY <3>1, <3>4 DEF SendOneRcpt, Runs
      <4>2. ~(j = i /\ q = r) BY <3>3, <4>1
      <4>3. delivered'[i][r] = delivered[i][r]
        BY <2>1, <4>2, <3>4 DEF SendOneRcpt, IInv, TypeOK
      <4> QED BY <4>3, <3>4 DEF SendOneRcpt, stored
    <3>5. CASE WriteTo(j, q)
      <4>1. disk'[i] = disk[i] \/ (i = j /\ disk'[i] = mem[i])
        BY <2>1, <3>5 DEF WriteTo, IInv, TypeOK
      <4> QED BY <2>1, <3>1, <3>2, <3>5, <4>1 DEF WriteTo, seen, Runs
    <3> QED BY <2>2, <3>4, <3>5 DEF Sender
  <2>3. ASSUME UNCHANGED <<disk, delivered>>
        PROVE disk'[i][r] = disk[i][r] /\ delivered'[i][r] = delivered[i][r]
    BY <2>3
  <2>4. ASSUME NEW t \in Thread, Put(t) PROVE UNCHANGED <<disk, delivered>>
    BY <2>4 DEF Put, PutBegin, PutWrite, PutInsert, stored
  <2>5. ASSUME NEW j \in Id, Loop(j) PROVE UNCHANGED <<disk, delivered>>
    BY <2>5 DEF Loop, SendLoop, SendLoopWait, SendLoopWake, RemoveFile, RemoveEntry, stored, seen
  <2>6. ASSUME \/ \E unread \in SUBSET files : Load(unread)
               \/ SetQueueLimits \/ Crash \/ Waiting \/ \E j \in Id : Tick(j)
        PROVE UNCHANGED <<disk, delivered>>
    BY <2>6 DEF Load, SetQueueLimits, Crash, Waiting, Tick, vars, stored, seen
  <2> QED BY <2>2, <2>3, <2>4, <2>5, <2>6 DEF Next
<1> QED BY <1>1, Inductive, PTL DEF Spec, DurableOutcomeFinal
=============================================================================
