-------------------------- MODULE QueueSendProofs --------------------------
(***************************************************************************)
(* The steps of SendLoop, sendOneRcpt and Remove preserve the inductive    *)
(* invariant of Queue.                                                     *)
(***************************************************************************)
EXTENDS QueuePutProofs

\* A step of the SendLoop of j that only moves it and its senders.
LEMMA LoopMoves ==
  ASSUME IInv, NEW j \in Id, NEW p \in {"loop", "wait", "sleep", "dsn", "remove"},
         pc[j] \in {"loop", "wait", "sleep"}, snd[j] = Idle,
         pc' = [pc EXCEPT ![j] = p],
         snd' \in [Id -> [Rcpt -> {"idle", "deliver", "write"}]],
         \A i \in Id : i # j => snd'[i] = snd[i],
         p # "wait" => snd'[j] = Idle,
         \A r \in Rcpt : snd'[j][r] = "deliver" => mem[j][r] = "PENDING",
         p = "dsn" => from[j] # Null,
         discarded \subseteq discarded', discarded' \subseteq Id,
         p = "remove" => \A r \in to[j] : Settled(j, r)',
         UNCHANGED <<server, newItem, queue, mem, stored, crashes, faults,
                     accepted, delivered, notices, dropped>>
  PROVE  IInv'
<1> USE Apart DEF IInv, stored
<1>1. TypeOK'
  BY DEF TypeOK, LoopPc, Thread
<1>2. /\ \A t \in Thread : t # j => pc'[t] = pc[t]
      /\ pc'[j] = p /\ j \in Thread
  BY DEF TypeOK, Thread
<1>3. server # "down" /\ Runs(j) /\ j \in queue /\ j \in files /\ from[j] \in {"sender", Null}
  BY <1>2, Types DEF Running, Fresh, FreshId, Runs
<1>a. \A i \in Id : Untouched(i)' = Untouched(i)
  BY DEF Untouched
<1>b. \A t \in Thread : Builds(t) /\ (newItem[t] # NoId => newItem[t] # j /\ newItem[t] \in Id)
  <2> TAKE t \in Thread
  <2>1. Builds(t) /\ newItem[t] \in Id \cup {NoId} BY Types DEF Building
  <2> QED BY <2>1 DEF Builds
<1>6. Fresh'
  <2> SUFFICES ASSUME NEW i \in Id, from[i] = "unset" PROVE FreshId(i)'
    BY DEF Fresh, FreshId
  <2>1. FreshId(i) /\ i \in Thread BY DEF Fresh, Thread
  <2>2. i # j BY <1>3 DEF Null
  <2> QED BY <2>1, <2>2, <1>2, <1>a DEF FreshId
<1>7. Building'
  <2>1. ASSUME NEW t \in Thread PROVE Builds(t)'
    <3>1. Builds(t) BY <1>b
    <3>2. CASE t = j BY <3>1, <3>2, <1>2, <1>b, <1>a DEF Builds
    <3>3. CASE t # j BY <3>1, <3>3, <1>2, <1>b, <1>a DEF Builds, Thread
    <3> QED BY <3>2, <3>3
  <2> QED BY <2>1 DEF Building
<1>8. Running'
  <2>1. ASSUME NEW i \in Id PROVE Runs(i)'
    <3>1. Runs(i) /\ i \in Thread BY DEF Running, Thread
    <3>2. CASE i = j BY <3>1, <3>2, <1>2, <1>3 DEF Runs
    <3>3. CASE i # j BY <3>1, <3>3, <1>2 DEF Runs
    <3> QED BY <3>2, <3>3
  <2> QED BY <2>1, <1>3 DEF Running
<1>9. Accounted'
  <2> SUFFICES ASSUME NEW i \in Id PROVE Accounts(i)'
    BY DEF Accounted
  <2>1. Accounts(i) /\ i \in Thread BY DEF Accounted, Thread
  <2>2. CASE i = j BY <2>1, <2>2, <1>2, <1>3 DEF Accounts
  <2>3. CASE i # j BY <2>1, <2>3, <1>2 DEF Accounts, Settled
  <2> QED BY <2>2, <2>3
<1>10. Counted'
  <2> SUFFICES ASSUME NEW i \in Id PROVE Counts(i)'
    BY DEF Counted
  <2>1. Counts(i) /\ i \in Thread BY DEF Counted, Thread
  <2>2. CASE i = j BY <2>1, <2>2, <1>2, <1>3 DEF Counts
  <2>3. CASE i # j BY <2>1, <2>3, <1>2 DEF Counts
  <2> QED BY <2>2, <2>3
<1>11. Bouncing'
  <2> SUFFICES ASSUME NEW i \in Id PROVE Bounces(i)'
    BY DEF Bouncing
  <2>1. Bounces(i) /\ i \in Thread BY DEF Bouncing, Thread
  <2> QED BY <2>1, <1>2, <1>3 DEF Bounces
<1> QED BY <1>1, <1>6, <1>7, <1>8, <1>9, <1>10, <1>11

\* What LeaveLoop does after the last round of SendLoop.
LEMMA LeaveLoopKeeps ==
  ASSUME IInv, NEW j \in Id, pc[j] \in {"loop", "wait"}, snd[j] = Idle,
         LeaveLoop(j), UNCHANGED snd,
         UNCHANGED <<server, newItem, queue, mem, stored, crashes, faults,
                     accepted, delivered, notices, dropped>>
  PROVE  IInv'
<1> DEFINE p == IF Unsent(j) /\ HasSender(j) THEN "dsn" ELSE "remove"
<1> USE DEF IInv
<1>1. /\ p \in {"dsn", "remove"} /\ pc' = [pc EXCEPT ![j] = p]
      /\ discarded' = IF Unsent(j) /\ ~HasSender(j) THEN discarded \cup {j} ELSE discarded
  BY DEF LeaveLoop
<1>2. discarded \subseteq discarded' /\ discarded' \subseteq Id
  BY <1>1 DEF TypeOK
<1>3. p = "remove" => \A r \in to[j] : Settled(j, r)'
  <2> SUFFICES ASSUME p = "remove", NEW r \in to[j] PROVE Settled(j, r)'
    OBVIOUS
  <2>1. CASE Unsent(j) BY <2>1, <1>1 DEF Settled
  <2>2. CASE ~Unsent(j)
    <3>1. r \in Rcpt /\ mem[j][r] \in Status /\ mem[j][r] \notin {"PENDING", "FAILED"}
      BY <2>2, Types DEF Unsent, WithStatus
    <3> QED BY <3>1 DEF Accounted, Accounts, Settled, Status
  <2> QED BY <2>1, <2>2
<1>4. p = "dsn" => from[j] # Null
  BY DEF HasSender
<1>5. /\ snd' \in [Id -> [Rcpt -> {"idle", "deliver", "write"}]]
      /\ \A i \in Id : i # j => snd'[i] = snd[i]
      /\ snd'[j] = Idle
      /\ \A r \in Rcpt : snd'[j][r] = "deliver" => mem[j][r] = "PENDING"
  BY DEF TypeOK, Idle
<1> HIDE DEF p
<1> QED BY <1>1, <1>2, <1>3, <1>4, <1>5, LoopMoves

\* A round of SendLoop, up to wg.Wait, keeps the invariant.
LEMMA SendLoopKeeps ==
  ASSUME IInv, NEW j \in Id, SendLoop(j)
  PROVE  IInv'
<1>1. snd[j] = Idle /\ pc[j] = "loop" BY DEF SendLoop, IInv, Running, Runs
<1>2. CASE LeaveLoop(j) /\ UNCHANGED snd
  BY <1>1, <1>2, LeaveLoopKeeps DEF SendLoop
<1>3. CASE /\ snd' = [snd EXCEPT ![j] = [r \in Rcpt |->
                        IF r \in ToSend(j) THEN "deliver" ELSE "idle"]]
           /\ pc' = [pc EXCEPT ![j] = "wait"]
           /\ UNCHANGED discarded
  <2>1. /\ snd' \in [Id -> [Rcpt -> {"idle", "deliver", "write"}]]
        /\ \A i \in Id : i # j => snd'[i] = snd[i]
        /\ \A r \in Rcpt : snd'[j][r] = "deliver" => mem[j][r] = "PENDING"
        /\ discarded' \subseteq Id /\ discarded \subseteq discarded'
    BY <1>3 DEF IInv, TypeOK, ToSend, WithStatus
  <2> QED BY <1>1, <1>3, <2>1, LoopMoves DEF SendLoop
<1> QED BY <1>2, <1>3 DEF SendLoop

\* The end of a round keeps the invariant.
LEMMA SendLoopWaitKeeps ==
  ASSUME IInv, NEW j \in Id, SendLoopWait(j)
  PROVE  IInv'
<1>1. snd[j] = Idle /\ pc[j] = "wait" /\ UNCHANGED snd BY DEF SendLoopWait, SendersDone
<1>2. CASE LeaveLoop(j)
  BY <1>1, <1>2, LeaveLoopKeeps DEF SendLoopWait
<1>3. CASE pc' = [pc EXCEPT ![j] = "sleep"] /\ UNCHANGED discarded
  <2>1. /\ snd' \in [Id -> [Rcpt -> {"idle", "deliver", "write"}]]
        /\ \A i \in Id : i # j => snd'[i] = snd[i]
        /\ \A r \in Rcpt : snd'[j][r] = "deliver" => mem[j][r] = "PENDING"
        /\ discarded' \subseteq Id /\ discarded \subseteq discarded'
    BY <1>1, <1>3 DEF IInv, TypeOK, Idle
  <2> QED BY <1>1, <1>3, <2>1, LoopMoves DEF SendLoopWait
<1> QED BY <1>2, <1>3 DEF SendLoopWait

\* The end of the sleep between rounds keeps the invariant.
LEMMA SendLoopWakeKeeps ==
  ASSUME IInv, NEW j \in Id, SendLoopWake(j)
  PROVE  IInv'
<1>1. snd[j] = Idle /\ pc[j] = "sleep" BY DEF SendLoopWake, IInv, Running, Runs
<1>2. /\ snd' \in [Id -> [Rcpt -> {"idle", "deliver", "write"}]]
      /\ \A i \in Id : i # j => snd'[i] = snd[i]
      /\ snd'[j] = Idle
      /\ \A r \in Rcpt : snd'[j][r] = "deliver" => mem[j][r] = "PENDING"
      /\ discarded' \subseteq Id /\ discarded \subseteq discarded'
  BY <1>1 DEF SendLoopWake, IInv, TypeOK, Idle, seen
<1> QED BY <1>1, <1>2, LoopMoves DEF SendLoopWake, seen

\* What a step of a sender of item j leaves alone.
LEMMA SenderKeeps ==
  ASSUME IInv, NEW j \in Id, NEW q \in Rcpt, snd[j][q] # "idle", TypeOK',
         UNCHANGED <<server, pc, newItem, queue, from, to, age, crashes,
                     accepted, notices, dropped, discarded>>,
         files' = files,
         \A i \in Id : i # j => /\ mem'[i] = mem[i] /\ disk'[i] = disk[i]
                                /\ snd'[i] = snd[i] /\ delivered'[i] = delivered[i],
         Runs(j)', Accounts(j)', Counts(j)'
  PROVE  IInv'
<1> USE Apart DEF IInv
<1>1. pc[j] = "wait" /\ server # "down" /\ from[j] # "unset"
  <2>1. Runs(j) /\ FreshId(j) /\ j \in Thread BY DEF Running, Fresh, Thread
  <2>2. pc[j] = "wait" BY <2>1 DEF Runs, Idle
  <2> QED BY <2>1, <2>2 DEF Running, FreshId
<1>2. \A i \in Id : i # j => Untouched(i)' = Untouched(i)
  BY DEF Untouched
<1>3. \A t \in Thread : Builds(t) /\ (newItem[t] # NoId => newItem[t] # j /\ newItem[t] \in Id)
  <2> TAKE t \in Thread
  <2>1. Builds(t) /\ newItem[t] \in Id \cup {NoId} BY Types DEF Building
  <2> QED BY <2>1, <1>1 DEF Builds
<1>4. Fresh'
  <2> SUFFICES ASSUME NEW i \in Id, from[i] = "unset" PROVE FreshId(i)'
    BY DEF Fresh, FreshId
  <2>1. FreshId(i) /\ i # j BY <1>1 DEF Fresh
  <2> QED BY <2>1, <1>2 DEF FreshId
<1>5. Building'
  <2>1. ASSUME NEW t \in Thread PROVE Builds(t)'
    <3>1. Builds(t) BY <1>3
    <3> QED BY <3>1, <1>2, <1>3 DEF Builds
  <2> QED BY <2>1 DEF Building
<1>6. Running'
  <2>1. ASSUME NEW i \in Id PROVE Runs(i)'
    <3>1. Runs(i) BY DEF Running
    <3> QED BY <3>1 DEF Runs
  <2> QED BY <2>1, <1>1 DEF Running
<1>7. Accounted'
  <2> SUFFICES ASSUME NEW i \in Id PROVE Accounts(i)'
    BY DEF Accounted
  <2>1. Accounts(i) BY DEF Accounted
  <2> QED BY <2>1 DEF Accounts, Settled
<1>8. Counted'
  <2> SUFFICES ASSUME NEW i \in Id PROVE Counts(i)'
    BY DEF Counted
  <2>1. Counts(i) BY DEF Counted
  <2> QED BY <2>1 DEF Counts
<1>9. Bouncing'
  BY DEF Bouncing, Bounces
<1> QED BY <1>4, <1>5, <1>6, <1>7, <1>8, <1>9

\* A delivery attempt and its status update keep the invariant.
LEMMA SendOneRcptKeeps ==
  ASSUME IInv, NEW j \in Id, NEW q \in Rcpt, SendOneRcpt(j, q)
  PROVE  IInv'
<1> USE Apart DEF IInv
<1> PICK s \in Outcome(q) :
      /\ mem' = [mem EXCEPT ![j][q] = s]
      /\ delivered' = IF s = "SENT" THEN [delivered EXCEPT ![j][q] = @ + 1] ELSE delivered
  BY DEF SendOneRcpt
<1>1. snd[j][q] = "deliver" /\ s \in Status /\ snd' = [snd EXCEPT ![j][q] = "write"]
  BY DEF SendOneRcpt, Outcome, Status
<1>2. UNCHANGED <<server, pc, newItem, queue, files, disk, from, to, age, crashes, faults,
                  accepted, notices, dropped, discarded>>
  BY DEF SendOneRcpt, stored
<1>3. TypeOK'
  <2>1. delivered' \in [Id -> [Rcpt -> Nat]]
    BY DEF TypeOK
  <2> QED BY <1>1, <1>2, <2>1 DEF TypeOK
<1>4. /\ \A i \in Id : i # j => mem'[i] = mem[i] /\ snd'[i] = snd[i] /\ delivered'[i] = delivered[i]
      /\ \A r \in Rcpt : r # q => /\ mem'[j][r] = mem[j][r] /\ snd'[j][r] = snd[j][r]
                                  /\ delivered'[j][r] = delivered[j][r]
      /\ mem'[j][q] = s /\ snd'[j][q] = "write"
      /\ delivered'[j][q] = IF s = "SENT" THEN delivered[j][q] + 1 ELSE delivered[j][q]
  BY <1>1 DEF TypeOK
<1>5. /\ Runs(j) /\ Accounts(j) /\ Counts(j) /\ pc[j] = "wait" /\ j \in queue /\ j \in files
      /\ mem[j][q] = "PENDING" /\ disk[j][q] = "PENDING"
  BY <1>1 DEF Running, Runs, Accounted, Counted, Idle
<1>6. Runs(j)'
  BY <1>2, <1>4, <1>5 DEF Runs
<1>7. delivered[j][q] \in Nat /\ crashes \in Nat
  BY Types
<1>8. Accounts(j)'
  BY <1>2, <1>4, <1>5, <1>7 DEF Accounts, Settled
<1>9. Counts(j)'
  <2>1. server # "down"
    BY <1>5 DEF Running, Thread
  <2>2. ASSUME NEW r \in Rcpt
        PROVE  /\ delivered'[j][r] <= crashes + 1
               /\ mem'[j][r] = "PENDING" => delivered'[j][r] <= crashes
    <3>1. CASE r = q BY <3>1, <1>4, <1>5, <1>7 DEF Counts
    <3>2. CASE r # q BY <3>2, <1>4, <1>5 DEF Counts
    <3> QED BY <3>1, <3>2
  <2> QED BY <2>1, <2>2, <1>2, <1>5 DEF Counts
<1> QED BY <1>1, <1>2, <1>3, <1>4, <1>6, <1>8, <1>9, SenderKeeps

\* The WriteTo at the end of sendOneRcpt keeps the invariant.
LEMMA WriteToKeeps ==
  ASSUME IInv, NEW j \in Id, NEW q \in Rcpt, WriteTo(j, q)
  PROVE  IInv'
<1> USE Apart DEF IInv
<1>1. snd[j][q] = "write" /\ snd' = [snd EXCEPT ![j][q] = "idle"]
  BY DEF WriteTo
<1>2. UNCHANGED <<server, pc, newItem, queue, mem, from, to, age, crashes,
                  accepted, delivered, notices, dropped, discarded>>
  BY DEF WriteTo, seen
<1>3. Runs(j) /\ Accounts(j) /\ Counts(j) /\ pc[j] = "wait" /\ j \in queue /\ j \in files
  BY <1>1 DEF Running, Runs, Accounted, Counted, Idle
<1>4. /\ faults' \in 0..MaxFaults /\ files' = files
      /\ disk' = disk \/ disk' = [disk EXCEPT ![j] = mem[j]]
  <2>1. CASE Fault /\ UNCHANGED <<files, disk>>
    BY QueueAssumption, <2>1 DEF Fault, TypeOK
  <2>2. CASE /\ files' = FilesWith(j) /\ disk' = [disk EXCEPT ![j] = mem[j]]
             /\ UNCHANGED faults
    BY <1>3, <2>2 DEF TypeOK, FilesWith
  <2> QED BY <2>1, <2>2 DEF WriteTo
<1>5. TypeOK'
  BY <1>1, <1>2, <1>4 DEF TypeOK
<1>6. /\ \A i \in Id : i # j => disk'[i] = disk[i] /\ snd'[i] = snd[i]
      /\ \A r \in Rcpt : r # q => snd'[j][r] = snd[j][r]
      /\ snd'[j][q] = "idle"
      /\ disk'[j] = disk[j] \/ disk'[j] = mem[j]
  BY <1>1, <1>4 DEF TypeOK
<1>7. Runs(j)'
  BY Zenon, <1>2, <1>3, <1>4, <1>6 DEF Runs
<1>8. Accounts(j)'
  BY <1>2, <1>3, <1>4, <1>6 DEF Accounts, Settled
<1>9. Counts(j)'
  BY <1>2, <1>3, <1>4, <1>6 DEF Counts
<1> QED BY <1>1, <1>2, <1>4, <1>5, <1>6, <1>7, <1>8, <1>9, SenderKeeps

\* Deleting the file, or failing to, keeps the invariant.
LEMMA RemoveFileKeeps ==
  ASSUME IInv, NEW j \in Id, RemoveFile(j)
  PROVE  IInv'
<1> USE Apart DEF IInv, seen
<1>1. /\ files' \subseteq files /\ files \subseteq files' \cup {j} /\ faults' \in 0..MaxFaults
  <2>1. CASE Fault /\ UNCHANGED files BY QueueAssumption, <2>1 DEF Fault, TypeOK
  <2>2. CASE files' = files \ {j} /\ UNCHANGED faults BY <2>2 DEF TypeOK
  <2> QED BY <2>1, <2>2 DEF RemoveFile
<1>2. /\ pc[j] = "remove" /\ j \in Thread /\ pc'[j] = "delete"
      /\ \A t \in Thread : t # j => pc'[t] = pc[t]
      /\ UNCHANGED <<server, newItem, queue, mem, snd, disk, from, to, age, crashes,
                     accepted, delivered, notices, dropped, discarded>>
  BY DEF RemoveFile, TypeOK, Thread
<1>3. TypeOK'
  BY SMTT(30), <1>1, <1>2 DEF TypeOK, RemoveFile, LoopPc
<1>4. server # "down" /\ from[j] # "unset" /\ Runs(j)
  BY <1>2 DEF Running, Fresh, FreshId
<1>5. \A i \in Id : Untouched(i)' = Untouched(i)
  BY <1>2 DEF Untouched
<1>6. \A t \in Thread : Builds(t) /\ (newItem[t] # NoId => newItem[t] # j /\ newItem[t] \in Id)
  <2> TAKE t \in Thread
  <2>1. Builds(t) /\ newItem[t] \in Id \cup {NoId} BY Types DEF Building
  <2> QED BY <2>1, <1>2 DEF Builds
<1>7. Fresh'
  <2> SUFFICES ASSUME NEW i \in Id, from[i] = "unset" PROVE FreshId(i)'
    BY <1>2 DEF Fresh, FreshId
  <2>1. FreshId(i) /\ i # j /\ i \in Thread BY SMTT(30), <1>4 DEF Fresh, Thread
  <2> QED BY <2>1, <1>1, <1>2, <1>5 DEF FreshId
<1>8. Building'
  <2>1. ASSUME NEW t \in Thread PROVE Builds(t)'
    <3>1. Builds(t) BY <1>6
    <3>2. CASE t = j BY <3>1, <3>2, <1>2 DEF Builds
    <3>3. CASE t # j BY <3>1, <3>3, <1>1, <1>2, <1>5, <1>6 DEF Builds, Thread
    <3> QED BY <3>2, <3>3
  <2> QED BY <2>1, <1>2 DEF Building
<1>9. Running'
  <2>1. ASSUME NEW i \in Id PROVE Runs(i)'
    <3>1. Runs(i) /\ i \in Thread BY DEF Running, Thread
    <3>2. CASE i = j BY SMTT(30), <3>1, <3>2, <1>1, <1>2 DEF Runs
    <3>3. CASE i # j BY <3>1, <3>3, <1>1, <1>2 DEF Runs
    <3> QED BY <3>2, <3>3
  <2> QED BY Zenon, <2>1, <1>2, <1>4 DEF Running
<1>10. Accounted'
  <2> SUFFICES ASSUME NEW i \in Id PROVE Accounts(i)'
    BY DEF Accounted
  <2>1. Accounts(i) /\ i \in Thread BY DEF Accounted, Thread
  <2>2. CASE i = j BY Zenon, <2>1, <2>2, <1>2 DEF Accounts, Settled
  <2>3. CASE i # j BY <2>1, <2>3, <1>1, <1>2 DEF Accounts, Settled
  <2> QED BY <2>2, <2>3
<1>11. Counted'
  <2> SUFFICES ASSUME NEW i \in Id PROVE Counts(i)'
    BY DEF Counted
  <2>1. Counts(i) /\ i \in Thread BY DEF Counted, Thread
  <2> QED BY <2>1, <1>2, <1>4 DEF Counts
<1>12. Bouncing'
  <2> SUFFICES ASSUME NEW i \in Id PROVE Bounces(i)'
    BY DEF Bouncing
  <2>1. Bounces(i) /\ i \in Thread BY DEF Bouncing, Thread
  <2> QED BY <2>1, <1>2 DEF Bounces
<1> QED BY <1>3, <1>7, <1>8, <1>9, <1>10, <1>11, <1>12
=============================================================================
