-------------------------- MODULE QueuePutProofs --------------------------
(***************************************************************************)
(* The inductive invariant of Queue, for any number of connections, items  *)
(* and recipients, any limits, and any number of crashes and file errors;  *)
(* and the proof that the steps of Put preserve it.                        *)
(***************************************************************************)
EXTENDS Queue, TLAPS

Untouched(i) ==
  /\ disk[i] = AllPending /\ mem[i] = AllPending
  /\ notices[i] = 0
  /\ \A r \in Rcpt : delivered[i][r] = 0

\* An id that newID has not handed out yet is nowhere.
FreshId(i) ==
  from[i] = "unset" =>
    /\ i \notin queue /\ i \notin files /\ i \notin accepted
    /\ pc[i] = "none"
    /\ Untouched(i)
    /\ \A t \in Thread : newItem[t] # i

Fresh == \A i \in Id : FreshId(i)

\* The item a Put is building belongs to that Put alone.
Builds(t) ==
  /\ t \in Conn => pc[t] \in PutPc
  /\ pc[t] \in {"put_write", "put_insert"} <=> newItem[t] # NoId
  /\ newItem[t] # NoId =>
       /\ Untouched(newItem[t])
       /\ from[newItem[t]] # "unset"
       /\ pc[newItem[t]] = "none"
       /\ newItem[t] \notin queue
       /\ newItem[t] \notin accepted
       /\ newItem[t] \in files <=> pc[t] = "put_insert"

Building ==
  /\ \A t \in Thread : Builds(t)
  /\ \A t, u \in Thread : newItem[t] = newItem[u] => t = u \/ newItem[t] = NoId

\* An item is in the map exactly while its SendLoop runs; its file is there
\* until Remove, and its senders run only while SendLoop waits for them.
Runs(i) ==
  /\ pc[i] # "idle"
  /\ i \in queue <=> pc[i] \notin {"none", "done"}
  /\ pc[i] \notin {"none", "done", "delete"} => i \in files
  /\ pc[i] # "wait" => snd[i] = Idle
  /\ \A r \in Rcpt : snd[i][r] = "deliver" => mem[i][r] = "PENDING"
  /\ i \in files /\ i \in queue =>
       \A r \in Rcpt : disk[i][r] # "PENDING" => mem[i][r] = disk[i][r]

Running ==
  /\ server = "down" => \A t \in Thread : pc[t] \in {"idle", "none"}
  /\ \A i \in Id : Runs(i)

\* SENT is only ever said of a delivered message, and SendLoop only gets to
\* Remove once every recipient is settled.
Accounts(i) ==
  /\ \A r \in Rcpt : mem[i][r] = "SENT" \/ disk[i][r] = "SENT" => delivered[i][r] > 0
  /\ pc[i] \in {"remove", "delete", "done"} => \A r \in to[i] : Settled(i, r)
  /\ i \in accepted => i \in files \/ \A r \in to[i] : Settled(i, r)

Accounted == \A i \in Id : Accounts(i)

\* What may still be delivered or reported in this run of the process has not
\* been before.
Counts(i) ==
  /\ notices[i] <= crashes + 1
  /\ server = "down" \/ (i \in queue /\ pc[i] \notin {"remove", "delete"})
       => notices[i] <= crashes
  /\ \A r \in Rcpt :
       /\ delivered[i][r] <= crashes + 1
       /\ server = "down" \/ (i \in queue /\ mem[i][r] = "PENDING")
            => delivered[i][r] <= crashes

Counted == \A i \in Id : Counts(i)

\* Only items of a real sender get to sendDSN.
Bounces(i) ==
  /\ pc[i] \in {"dsn", "put_write", "put_insert"} => from[i] = "sender"
  /\ notices[i] > 0 \/ i \in dropped => from[i] = "sender"

Bouncing == \A i \in Id : Bounces(i)

IInv == TypeOK /\ Fresh /\ Building /\ Running /\ Accounted /\ Counted /\ Bouncing
-----------------------------------------------------------------------------
\* Connections are not items, and NoId is no item.
LEMMA Apart == /\ \A t \in Conn : t \notin Id
               /\ NoId \notin Id
  BY QueueAssumption

\* TypeOK, one value at a time.
LEMMA Types ==
  ASSUME TypeOK
  PROVE  /\ \A t \in Thread : pc[t] \in LoopPc \cup PutPc /\ newItem[t] \in Id \cup {NoId}
         /\ \A i \in Id : notices[i] \in Nat /\ to[i] \subseteq Rcpt
                          /\ from[i] \in {"sender", Null, "unset"} /\ age[i] \in Nat
         /\ \A i \in Id, r \in Rcpt : mem[i][r] \in Status /\ disk[i][r] \in Status
                          /\ delivered[i][r] \in Nat /\ snd[i][r] \in {"idle", "deliver", "write"}
         /\ crashes \in Nat
  BY QueueAssumption DEF TypeOK, MaxAge, Thread
\* Putting the item into the map and starting its SendLoop keeps the invariant.
LEMMA PutInsertKeeps ==
  ASSUME IInv, NEW u \in Thread, PutInsert(u)
  PROVE  IInv'
<1> DEFINE n == newItem[u]
<1> USE Apart DEF IInv
<1>1. TypeOK'
  <2>1. n \in Id
    BY Types DEF PutInsert, Building, Builds
  <2>2. pc' \in [Thread -> LoopPc \cup PutPc] /\ newItem' \in [Thread -> Id \cup {NoId}]
    BY DEF PutInsert, TypeOK, LoopPc, PutPc
  <2>3. notices' \in [Id -> Nat]
    BY DEF PutInsert, TypeOK, Thread
  <2> QED BY <2>1, <2>2, <2>3 DEF TypeOK, PutInsert, stored
<1>2. /\ n \in Id /\ n # u /\ n # NoId /\ pc[u] = "put_insert" /\ n \in files /\ from[n] # "unset"
      /\ n \notin queue /\ n \notin accepted /\ pc[n] = "none" /\ Untouched(n) /\ n \in Thread
  BY Types DEF PutInsert, Building, Builds, Thread
<1>3. /\ \A t \in Thread : t # u /\ t # n => pc'[t] = pc[t]
      /\ pc'[n] = "loop"
      /\ u \in Conn => pc'[u] = "idle"
      /\ u \notin Conn => pc'[u] = "remove"
      /\ \A t \in Thread : t # u => newItem'[t] = newItem[t]
      /\ newItem'[u] = NoId
      /\ \A i \in Id : i # u => notices'[i] = notices[i]
      /\ u \in Id => notices'[u] = notices[u] + 1
  BY <1>2 DEF PutInsert, TypeOK
<1>4. /\ queue' = queue \cup {n} /\ accepted' = accepted \cup {n}
      /\ UNCHANGED <<server, mem, snd, files, disk, from, to, crashes, faults, delivered, dropped, discarded>>
  BY DEF PutInsert, stored
<1>5. Builds(u) /\ \A t \in Thread : Builds(t)
  BY DEF Building
<1> HIDE DEF n
<1>a. \A i \in Id : i # u => Untouched(i)' = Untouched(i)
  BY <1>3, <1>4 DEF Untouched
<1>b. \A t \in Thread : t # u /\ newItem[t] # NoId => newItem[t] # n /\ newItem[t] # u /\ newItem[t] \in Id
  <2> TAKE t \in Thread
  <2>1. Builds(t) /\ newItem[t] \in Id \cup {NoId} BY Types, <1>5
  <2> QED BY <2>1, <1>2 DEF Builds, Building, n
<1>c. server # "down"
  BY <1>2 DEF Running
<1>6. Fresh'
  <2> SUFFICES ASSUME NEW i \in Id, from[i] = "unset" PROVE FreshId(i)'
    BY <1>4 DEF Fresh, FreshId
  <2>1. FreshId(i) BY DEF Fresh
  <2>2. i # n /\ i # u /\ i \in Thread BY <1>2, <2>1 DEF FreshId, Thread
  <2> QED BY <2>1, <2>2, <1>2, <1>3, <1>4, <1>a DEF FreshId
<1>7. Building'
  <2>1. ASSUME NEW t \in Thread PROVE Builds(t)'
    <3>1. Builds(t) BY <1>5
    <3>2. CASE t = u BY <3>2, <1>3, <1>2 DEF Builds, PutPc, Thread
    <3>3. CASE t = n BY <3>1, <3>3, <1>3, <1>2 DEF Builds, Thread
    <3>4. CASE t # u /\ t # n BY <3>1, <3>4, <1>3, <1>4, <1>b, <1>a, <1>2 DEF Builds, Thread
    <3> QED BY <3>2, <3>3, <3>4
  <2>2. \A t, v \in Thread : newItem'[t] = newItem'[v] => t = v \/ newItem'[t] = NoId
    BY <1>3 DEF Building
  <2> QED BY <2>1, <2>2 DEF Building
<1>8. Running'
  <2>1. ASSUME NEW i \in Id PROVE Runs(i)'
    <3>1. Runs(i) /\ i \in Thread BY DEF Running, Thread
    <3>2. CASE i = u BY <3>1, <3>2, <1>2, <1>3, <1>4 DEF Runs, Thread
    <3>3. CASE i = n BY <3>1, <3>3, <1>3, <1>2, <1>4 DEF Runs, Untouched, AllPending
    <3>4. CASE i # u /\ i # n BY <3>1, <3>4, <1>3, <1>4 DEF Runs
    <3> QED BY <3>2, <3>3, <3>4
  <2> QED BY <2>1, <1>c, <1>4 DEF Running
<1>9. Accounted'
  <2> SUFFICES ASSUME NEW i \in Id PROVE Accounts(i)'
    BY DEF Accounted
  <2>1. Accounts(i) /\ i \in Thread /\ notices[i] \in Nat BY Types DEF Accounted, Thread
  <2>2. CASE i = u BY <2>1, <2>2, <1>2, <1>3, <1>4 DEF Accounts, Settled
  <2>3. CASE i = n BY <2>1, <2>3, <1>3, <1>2, <1>4 DEF Accounts
  <2>4. CASE i # u /\ i # n BY <2>1, <2>4, <1>3, <1>4 DEF Accounts, Settled
  <2> QED BY <2>2, <2>3, <2>4
<1>10. Counted'
  <2> SUFFICES ASSUME NEW i \in Id PROVE Counts(i)'
    BY DEF Counted
  <2>1. Counts(i) /\ Runs(i) /\ i \in Thread /\ notices[i] \in Nat /\ crashes \in Nat BY Types DEF Counted, Running, Thread
  <2>2. CASE i = u BY <2>1, <2>2, <1>2, <1>3, <1>4, <1>c DEF Counts, Runs, Thread
  <2>3. CASE i = n BY <2>1, <2>3, <1>3, <1>2, <1>4 DEF Counts, Untouched
  <2>4. CASE i # u /\ i # n BY <2>1, <2>4, <1>3, <1>4 DEF Counts
  <2> QED BY <2>2, <2>3, <2>4
<1>11. Bouncing'
  <2> SUFFICES ASSUME NEW i \in Id PROVE Bounces(i)'
    BY DEF Bouncing
  <2>1. Bounces(i) /\ i \in Thread BY DEF Bouncing, Thread
  <2> QED BY <2>1, <1>2, <1>3, <1>4 DEF Bounces
<1> QED BY <1>1, <1>6, <1>7, <1>8, <1>9, <1>10, <1>11

\* A Put that returns an error keeps the invariant, wherever it fails.
LEMMA PutErrorKeeps ==
  ASSUME IInv, NEW u \in Thread, PutError(u),
         (u \in Conn /\ server = "listening" /\ pc[u] = "idle") \/ (u \in Id /\ pc[u] = "dsn") \/ pc[u] = "put_write",
         faults' \in 0..MaxFaults,
         UNCHANGED <<server, queue, mem, snd, files, disk, from, to, age, crashes,
                     accepted, delivered, notices, discarded>>
  PROVE  IInv'
<1> USE Apart DEF IInv
<1>1. TypeOK'
  BY DEF TypeOK, LoopPc, PutPc, PutError, Thread
<1>2. /\ \A t \in Thread : t # u => pc'[t] = pc[t] /\ newItem'[t] = newItem[t]
      /\ newItem'[u] = NoId
      /\ u \in Conn => pc'[u] = "idle"
      /\ u \notin Conn => pc'[u] = "remove" /\ dropped' = dropped \cup {u} /\ u \in Id
      /\ u \in Conn => dropped' = dropped
  BY DEF PutError, TypeOK, Thread
<1>3. server # "down" /\ pc[u] \in {"idle", "dsn", "put_write"} /\ pc[u] # "none"
  BY DEF Running
<1>4. \A t \in Thread : Builds(t)
  BY DEF Building
<1>a. \A i \in Id : Untouched(i)' = Untouched(i)
  BY DEF Untouched
<1>b. \A t \in Thread : newItem[t] # NoId => newItem[t] # u /\ newItem[t] \in Id
  <2> TAKE t \in Thread
  <2>1. Builds(t) /\ newItem[t] \in Id \cup {NoId} BY Types, <1>4
  <2> QED BY <2>1, <1>3 DEF Builds
<1>6. Fresh'
  <2> SUFFICES ASSUME NEW i \in Id, from[i] = "unset" PROVE FreshId(i)'
    BY DEF Fresh, FreshId
  <2>1. FreshId(i) BY DEF Fresh
  <2>2. i # u /\ i \in Thread BY <1>3, <2>1 DEF FreshId, Thread
  <2> QED BY <2>1, <2>2, <1>2, <1>a DEF FreshId
<1>7. Building'
  <2>1. ASSUME NEW t \in Thread PROVE Builds(t)'
    <3>1. Builds(t) BY <1>4
    <3>2. CASE t = u BY <3>2, <1>2 DEF Builds, PutPc, Thread
    <3>3. CASE t # u BY <3>1, <3>3, <1>2, <1>a, <1>b DEF Builds, Thread
    <3> QED BY <3>2, <3>3
  <2>2. \A t, v \in Thread : newItem'[t] = newItem'[v] => t = v \/ newItem'[t] = NoId
    BY <1>2 DEF Building
  <2> QED BY <2>1, <2>2 DEF Building
<1>8. Running'
  <2>1. ASSUME NEW i \in Id PROVE Runs(i)'
    <3>1. Runs(i) /\ i \in Thread BY DEF Running, Thread
    <3>2. CASE i = u BY <3>1, <3>2, <1>2, <1>3 DEF Runs
    <3>3. CASE i # u BY <3>1, <3>3, <1>2 DEF Runs
    <3> QED BY <3>2, <3>3
  <2> QED BY <2>1, <1>3 DEF Running
<1>9. Accounted'
  <2> SUFFICES ASSUME NEW i \in Id PROVE Accounts(i)'
    BY DEF Accounted
  <2>1. Accounts(i) /\ i \in Thread BY DEF Accounted, Thread
  <2>2. CASE i = u BY <2>1, <2>2, <1>2 DEF Accounts, Settled
  <2>3. CASE i # u BY <2>1, <2>3, <1>2 DEF Accounts, Settled
  <2> QED BY <2>2, <2>3
<1>10. Counted'
  <2> SUFFICES ASSUME NEW i \in Id PROVE Counts(i)'
    BY DEF Counted
  <2>1. Counts(i) /\ i \in Thread BY DEF Counted, Thread
  <2>2. CASE i = u BY <2>1, <2>2, <1>2, <1>3 DEF Counts
  <2>3. CASE i # u BY <2>1, <2>3, <1>2 DEF Counts
  <2> QED BY <2>2, <2>3
<1>11. Bouncing'
  <2> SUFFICES ASSUME NEW i \in Id PROVE Bounces(i)'
    BY DEF Bouncing
  <2>1. Bounces(i) /\ i \in Thread BY DEF Bouncing, Thread
  <2>2. CASE i = u BY <2>1, <2>2, <1>2, <1>3 DEF Bounces
  <2>3. CASE i # u BY <2>1, <2>3, <1>2 DEF Bounces
  <2> QED BY <2>2, <2>3
<1> QED BY <1>1, <1>6, <1>7, <1>8, <1>9, <1>10, <1>11

\* The length check and the new id keep the invariant.
LEMMA PutBeginKeeps ==
  ASSUME IInv, NEW u \in Thread, PutBegin(u)
  PROVE  IInv'
<1> USE Apart DEF IInv
<1>e. CASE PutError(u) /\ UNCHANGED from
  <2>1. faults' \in 0..MaxFaults BY DEF PutBegin, TypeOK
  <2> QED BY <1>e, <2>1, PutErrorKeeps DEF PutBegin, CallsPut
<1>s. ASSUME NEW n \in IF u \in Conn THEN Mail ELSE Notice, from[n] = "unset",
             NEW f \in IF u \in Conn THEN {"sender", Null} ELSE {Null},
             from' = [from EXCEPT ![n] = f],
             newItem' = [newItem EXCEPT ![u] = n],
             pc' = [pc EXCEPT ![u] = "put_write"],
             dropped' = dropped
      PROVE IInv'
  <2>0. UNCHANGED <<server, queue, mem, snd, files, disk, to, age, crashes, faults,
                    accepted, delivered, notices, dropped, discarded>>
    BY <1>s DEF PutBegin
  <2>1. n \in Id /\ n # NoId /\ f \in {"sender", Null} /\ f # "unset" /\ n \in Thread
    BY DEF Id, Null, Thread
  <2>2. TypeOK'
    BY <1>s, <2>0, <2>1 DEF TypeOK, PutPc
  <2>3. FreshId(n) /\ Bounces(n)
    BY <2>1 DEF Fresh, Bouncing
  <2>4. /\ \A t \in Thread : t # u => pc'[t] = pc[t] /\ newItem'[t] = newItem[t]
        /\ newItem'[u] = n /\ pc'[u] = "put_write"
        /\ \A i \in Id : i # n => from'[i] = from[i]
        /\ from'[n] = f
    BY <1>s, <2>1 DEF TypeOK
  <2>5. server # "down" /\ pc[u] \in {"idle", "dsn"} /\ (u \in Conn <=> pc[u] = "idle") /\ u # n
    BY <1>s, <2>3 DEF PutBegin, CallsPut, Running, FreshId
  <2>a. \A i \in Id : Untouched(i)' = Untouched(i)
    BY <2>0 DEF Untouched
  <2>b. \A t \in Thread : Builds(t) /\ newItem[t] # n /\
                          (newItem[t] # NoId => newItem[t] # u /\ newItem[t] \in Id)
    <3> TAKE t \in Thread
    <3>1. Builds(t) /\ newItem[t] \in Id \cup {NoId} /\ newItem[t] # n
      BY Types, <1>s, <2>1, <2>3 DEF Building, FreshId
    <3> QED BY <3>1, <2>5 DEF Builds
  <2>6. Fresh'
    <3> SUFFICES ASSUME NEW i \in Id, from'[i] = "unset" PROVE FreshId(i)'
      BY DEF Fresh, FreshId
    <3>1. FreshId(i) BY DEF Fresh
    <3>2. i # n /\ from[i] = "unset" BY <2>1, <2>4
    <3>3. i # u /\ i \in Thread BY <2>5, <3>1, <3>2 DEF FreshId, Thread
    <3> QED BY <3>1, <3>2, <3>3, <2>0, <2>4, <2>a DEF FreshId
  <2>7. Building'
    <3>1. ASSUME NEW t \in Thread PROVE Builds(t)'
      <4>1. Builds(t) /\ newItem[t] # n BY <2>b
      <4>2. CASE t = u
        <5>1. u # n /\ pc'[n] = "none" /\ Untouched(n)'
          BY <2>5, <2>4, <2>3, <2>1, <2>a, <1>s DEF FreshId
        <5> QED BY <4>2, <5>1, <2>0, <2>1, <2>4, <2>3, <1>s DEF Builds, PutPc, FreshId
      <4>3. CASE t # u BY <4>1, <4>3, <2>0, <2>4, <2>a, <2>b DEF Builds, Thread
      <4> QED BY <4>2, <4>3
    <3>2. \A t, v \in Thread : newItem'[t] = newItem'[v] => t = v \/ newItem'[t] = NoId
      BY <2>4, <2>b DEF Building
    <3> QED BY <3>1, <3>2 DEF Building
  <2>8. Running'
    <3>1. ASSUME NEW i \in Id PROVE Runs(i)'
      <4>1. Runs(i) /\ i \in Thread BY DEF Running, Thread
      <4>2. CASE i = u BY <4>1, <4>2, <2>0, <2>4, <2>5 DEF Runs
      <4>3. CASE i # u BY <4>1, <4>3, <2>0, <2>4 DEF Runs
      <4> QED BY <4>2, <4>3
    <3> QED BY <3>1, <2>0, <2>5 DEF Running
  <2>9. Accounted'
    <3> SUFFICES ASSUME NEW i \in Id PROVE Accounts(i)'
      BY DEF Accounted
    <3>1. Accounts(i) /\ i \in Thread BY DEF Accounted, Thread
    <3> QED BY <3>1, <2>0, <2>4 DEF Accounts, Settled
  <2>10. Counted'
    <3> SUFFICES ASSUME NEW i \in Id PROVE Counts(i)'
      BY DEF Counted
    <3>1. Counts(i) /\ i \in Thread BY DEF Counted, Thread
    <3>2. CASE i = u BY <3>1, <3>2, <2>0, <2>4, <2>5 DEF Counts
    <3>3. CASE i # u BY <3>1, <3>3, <2>0, <2>4 DEF Counts
    <3> QED BY <3>2, <3>3
  <2>11. Bouncing'
    <3> SUFFICES ASSUME NEW i \in Id PROVE Bounces(i)'
      BY DEF Bouncing
    <3>1. Bounces(i) /\ i \in Thread BY DEF Bouncing, Thread
    <3>2. CASE i = u BY <3>1, <3>2, <2>0, <2>4, <2>5 DEF Bounces
    <3>3. CASE i = n BY <3>3, <2>0, <2>4, <2>5, <2>3, <2>1, <1>s DEF Bounces, FreshId
    <3>4. CASE i # u /\ i # n BY <3>1, <3>4, <2>0, <2>4 DEF Bounces
    <3> QED BY <3>2, <3>3, <3>4
  <2> QED BY <2>2, <2>6, <2>7, <2>8, <2>9, <2>10, <2>11
<1> QED BY <1>e, <1>s DEF PutBegin

\* Alias resolution and the first WriteTo keep the invariant.
LEMMA PutWriteKeeps ==
  ASSUME IInv, NEW u \in Thread, PutWrite(u)
  PROVE  IInv'
<1> DEFINE n == newItem[u]
<1> USE Apart DEF IInv
<1>e. CASE Fault /\ PutError(u) /\ UNCHANGED <<mem, files, disk, to>>
  <2>1. faults' \in 0..MaxFaults BY QueueAssumption, <1>e DEF Fault, TypeOK
  <2>2. pc[u] = "put_write" BY DEF PutWrite
  <2> QED BY <1>e, <2>1, <2>2, PutErrorKeeps DEF PutWrite
<1>s. ASSUME NEW R \in IF u \in Conn THEN MailTo ELSE NoticeTo,
             to' = [to EXCEPT ![n] = R],
             files' = FilesWith(n),
             pc' = [pc EXCEPT ![u] = "put_insert"],
             UNCHANGED <<newItem, mem, disk, faults, dropped>>
      PROVE IInv'
  <2>0. UNCHANGED <<server, newItem, queue, mem, snd, disk, from, age, crashes, faults,
                    accepted, delivered, notices, dropped, discarded>>
    BY <1>s DEF PutWrite
  <2>1. /\ n \in Id /\ n \in Thread /\ n # NoId /\ n # u
        /\ n \notin queue /\ n \notin accepted /\ pc[n] = "none" /\ Untouched(n) /\ from[n] # "unset"
    BY Types DEF PutWrite, Building, Builds, Thread
  <2>2. R \subseteq Rcpt
    BY QueueAssumption
  <2>3. TypeOK'
    BY <1>s, <2>0, <2>1, <2>2 DEF TypeOK, PutPc, FilesWith
  <2>4. /\ \A t \in Thread : t # u => pc'[t] = pc[t]
        /\ pc'[u] = "put_insert" /\ pc[u] = "put_write" /\ files' = files \cup {n}
        /\ \A i \in Id : i # n => to'[i] = to[i]
    BY <1>s, <2>1 DEF TypeOK, PutWrite, FilesWith
  <2>5. server # "down"
    BY <2>4 DEF Running
  <2>6. \A t, v \in Thread : newItem[t] = newItem[v] => t = v \/ newItem[t] = NoId
    BY DEF Building
  <2>7. \A t \in Thread : newItem'[t] = newItem[t] /\ (t # u => newItem[t] # n)
    BY <2>0, <2>1, <2>6
  <2> HIDE DEF n
  <2>a. \A i \in Id : Untouched(i)' = Untouched(i)
    BY <2>0 DEF Untouched
  <2>b. \A t \in Thread : Builds(t) /\ (newItem[t] # NoId => newItem[t] # u /\ newItem[t] \in Id)
    <3> TAKE t \in Thread
    <3>1. Builds(t) /\ newItem[t] \in Id \cup {NoId} BY Types DEF Building
    <3> QED BY <3>1, <2>4 DEF Builds
  <2>c. Fresh'
    <3> SUFFICES ASSUME NEW i \in Id, from'[i] = "unset" PROVE FreshId(i)'
      BY DEF Fresh, FreshId
    <3>1. FreshId(i) BY DEF Fresh
    <3>2. i # n /\ from[i] = "unset" BY <2>0, <2>1
    <3>3. i # u /\ i \in Thread BY <2>4, <3>1, <3>2 DEF FreshId, Thread
    <3> QED BY <3>1, <3>2, <3>3, <2>0, <2>4, <2>a DEF FreshId
  <2>d. Building'
    <3>1. ASSUME NEW t \in Thread PROVE Builds(t)'
      <4>1. Builds(t) BY <2>b
      <4>2. CASE t = u BY SMTT(30), <4>1, <4>2, <2>0, <2>1, <2>4, <2>7, <2>a DEF Builds, PutPc, n
      <4>3. CASE t # u BY <4>1, <4>3, <2>0, <2>1, <2>4, <2>7, <2>a, <2>b DEF Builds, Thread
      <4> QED BY <4>2, <4>3
    <3> QED BY <3>1, <2>6, <2>7 DEF Building
  <2>8. Running'
    <3>1. ASSUME NEW i \in Id PROVE Runs(i)'
      <4>1. Runs(i) /\ i \in Thread BY DEF Running, Thread
      <4>2. CASE i = u BY <4>1, <4>2, <2>0, <2>1, <2>4 DEF Runs
      <4>3. CASE i = n BY <4>1, <4>3, <2>0, <2>1, <2>4 DEF Runs
      <4>4. CASE i # u /\ i # n BY <4>1, <4>4, <2>0, <2>4 DEF Runs
      <4> QED BY <4>2, <4>3, <4>4
    <3> QED BY Zenon, <3>1, <2>0, <2>5 DEF Running
  <2>9. Accounted'
    <3> SUFFICES ASSUME NEW i \in Id PROVE Accounts(i)'
      BY DEF Accounted
    <3>1. Accounts(i) /\ i \in Thread BY DEF Accounted, Thread
    <3>2. CASE i = n BY <3>1, <3>2, <2>0, <2>1, <2>4 DEF Accounts
    <3>3. CASE i # n BY <3>1, <3>3, <2>0, <2>4 DEF Accounts, Settled
    <3> QED BY <3>2, <3>3
  <2>10. Counted'
    <3> SUFFICES ASSUME NEW i \in Id PROVE Counts(i)'
      BY DEF Counted
    <3>1. Counts(i) /\ i \in Thread BY DEF Counted, Thread
    <3>2. CASE i = u BY <3>1, <3>2, <2>0, <2>4 DEF Counts
    <3>3. CASE i # u BY <3>1, <3>3, <2>0, <2>4 DEF Counts
    <3> QED BY <3>2, <3>3
  <2>11. Bouncing'
    <3> SUFFICES ASSUME NEW i \in Id PROVE Bounces(i)'
      BY DEF Bouncing
    <3>1. Bounces(i) /\ i \in Thread BY DEF Bouncing, Thread
    <3> QED BY <3>1, <2>0, <2>4 DEF Bounces
  <2> QED BY <2>3, <2>c, <2>d, <2>8, <2>9, <2>10, <2>11
<1> QED BY <1>e, <1>s DEF PutWrite
=============================================================================
