--------------------------- MODULE STSCacheProofs ---------------------------
(***************************************************************************)
(* Proofs about the cache of MTA-STS policies, for any number of domains,  *)
(* concurrent calls and faults, and any length of time.                    *)
(***************************************************************************)
EXTENDS STSCache, TLAPS

CallPcs == {"idle", "stat", "read", "fetch", "store", "rename", "done"}
RefPcs == {"sleep", "next", "fetch", "store", "rename"}
DomainOrNo == PolicyDomain \cup {NoPolicy}
PolicyOrNo == Publishable \cup {NoPolicy}
CachedFile == [pol : Publishable, mtime : Int]
FileOrNo == CachedFile \cup {NoPolicy}
CallRec == [pc : CallPcs, dom : DomainOrNo, pol : PolicyOrNo, expires : Int]
RefRec == [pc : RefPcs, todo : SUBSET PolicyDomain, dom : DomainOrNo, pol : PolicyOrNo,
           expires : Int]

CacheTypes ==
  /\ now \in Int
  /\ remote \in [PolicyDomain -> PolicyOrNo]
  /\ file \in [PolicyDomain -> FileOrNo]
  /\ call \in [Call -> CallRec]
  /\ ref \in RefRec
  /\ offered \in [Call -> SUBSET PolicyOrNo]
  /\ solid \in SUBSET Call

(* A policy that is about to be stored, and when it will expire. *)
Sound(p) == p \in Publishable /\ Check(p)

(* What the variables of a call of PolicyCache.Fetch say at each point:    *)
(* what it holds was offered to it, and while there is a policy to give it *)
(* does not leave the path through the file.                               *)
CallOk(c) ==
  /\ Open(c) => call[c].dom \in PolicyDomain /\ remote[call[c].dom] \in offered[c]
  /\ call[c].pc = "stat" /\ Alive(call[c].dom) => file[call[c].dom].pol \in offered[c]
  /\ call[c].pc = "read" =>
       file[call[c].dom] # NoPolicy /\ file[call[c].dom].pol \in offered[c]
  /\ call[c].pc \in {"store", "rename"} => Sound(call[c].pol) /\ call[c].pol \in offered[c]
  /\ call[c].pc = "rename" => call[c].expires = now + call[c].pol.maxAge
  /\ call[c].pc = "done" /\ call[c].pol # NoPolicy => call[c].pol \in offered[c]
  /\ c \in solid => \/ call[c].pc \in {"stat", "read"} /\ Alive(call[c].dom)
                    \/ call[c].pc = "done" /\ call[c].pol # NoPolicy

(* And those of the refresh. *)
RefOk ==
  /\ ref.pc \in {"fetch", "store", "rename"} => ref.dom \in PolicyDomain
  /\ ref.pc \in {"store", "rename"} => Sound(ref.pol)
  /\ ref.pc = "rename" => ref.expires = now + ref.pol.maxAge

CacheInv ==
  /\ CacheTypes /\ SoundFiles /\ RefOk
  /\ \A c \in Call : CallOk(c)

(* The first state of the cache, on whatever policies its directory holds. *)
LEMMA CacheInitHolds == CacheInit => CacheInv
<1> SUFFICES ASSUME CacheInit PROVE CacheInv OBVIOUS
<1>1. Idle \in CallRec /\ Idle.pc = "idle"
  BY DEF Idle, CallRec, CallPcs, DomainOrNo, PolicyOrNo
<1>2. ref \in RefRec /\ ref.pc = "sleep"
  BY DEF CacheInit, Asleep, RefRec, RefPcs, DomainOrNo, PolicyOrNo
<1>3. \A d \in PolicyDomain : file[d] = NoPolicy \/
        \E p \in Publishable : Check(p) /\ file[d] = [pol |-> p, mtime |-> p.maxAge]
  BY DEF CacheInit
<1>4. file \in [PolicyDomain -> FileOrNo]
  <2>1. \A p \in Publishable : [pol |-> p, mtime |-> p.maxAge] \in CachedFile
    BY STSCacheAssumption DEF CachedFile
  <2>2. file = [d \in PolicyDomain |-> file[d]]
    BY DEF CacheInit
  <2> QED BY <1>3, <2>1, <2>2 DEF FileOrNo
<1>5. SoundFiles
  <2> SUFFICES ASSUME NEW d \in PolicyDomain, file[d] # NoPolicy
               PROVE  Check(file[d].pol) /\ file[d].mtime <= now + file[d].pol.maxAge
    BY DEF SoundFiles
  <2>1. PICK p \in Publishable : Check(p) /\ file[d] = [pol |-> p, mtime |-> p.maxAge]
    BY <1>3
  <2> QED BY <2>1, STSCacheAssumption DEF CacheInit
<1>6. CacheTypes
  BY <1>1, <1>2, <1>4 DEF CacheInit, CacheTypes, PolicyOrNo
<1>7. RefOk
  BY <1>2 DEF RefOk
<1>8. \A c \in Call : CallOk(c)
  BY <1>1 DEF CacheInit, CallOk, Open
<1> QED BY <1>5, <1>6, <1>7, <1>8 DEF CacheInv

(* A call that takes no step keeps its part of the invariant while nothing *)
(* but another call or the refresh goes on.                                *)
LEMMA CallStays ==
  ASSUME CacheInv, NEW b \in Call, now' = now, remote' = remote, file' = file,
         call'[b] = call[b], offered'[b] = offered[b], b \in solid' => b \in solid
  PROVE  CallOk(b)'
BY DEF CacheInv, CallOk, Open, Alive

(* The file store writes: it is a policy that has not expired. *)
LEMMA FilePut ==
  ASSUME CacheInv, NEW d \in PolicyDomain, NEW p, Sound(p),
         now' = now, file' = [file EXCEPT ![d] = [pol |-> p, mtime |-> now + p.maxAge]]
  PROVE  /\ file' \in [PolicyDomain -> FileOrNo]
         /\ file'[d].pol = p /\ Alive(d)'
         /\ \A e \in PolicyDomain \ {d} : file'[e] = file[e]
         /\ SoundFiles'
<1> DEFINE f == [pol |-> p, mtime |-> now + p.maxAge]
<1>1. p.maxAge \in Int /\ now \in Int /\ p.maxAge > 0 /\ Check(p) /\ p \in Publishable
  BY STSCacheAssumption DEF Sound, Check, CacheInv, CacheTypes
<1>2. f \in CachedFile /\ f.pol = p /\ f.mtime = now + p.maxAge
  BY <1>1 DEF CachedFile
<1>3. f # NoPolicy
  BY <1>2, STSCacheAssumption DEF CachedFile
<1>4. file' = [file EXCEPT ![d] = f]
  OBVIOUS
<1> HIDE DEF f
<1>5. file'[d] = f /\ \A e \in PolicyDomain \ {d} : file'[e] = file[e]
  BY <1>4 DEF CacheInv, CacheTypes
<1>6. file' \in [PolicyDomain -> FileOrNo]
  BY <1>2, <1>4 DEF CacheInv, CacheTypes, FileOrNo
<1>7. Alive(d)'
  BY <1>1, <1>2, <1>3, <1>5 DEF Alive
<1>8. SoundFiles'
  <2> SUFFICES ASSUME NEW e \in PolicyDomain, file'[e] # NoPolicy
               PROVE  Check(file'[e].pol) /\ file'[e].mtime <= now + file'[e].pol.maxAge
    BY DEF SoundFiles, Check
  <2>1. CASE e = d
    BY <1>1, <1>2, <1>5, <2>1
  <2>2. CASE e # d
    BY <1>5, <2>2 DEF CacheInv, SoundFiles
  <2> QED BY <2>1, <2>2
<1> QED BY <1>2, <1>5, <1>6, <1>7, <1>8

(* store, whether the write succeeds or not: every other call keeps its    *)
(* part of the invariant, and what it is offered only grows.               *)
LEMMA RenameKeeps ==
  ASSUME CacheInv, NEW d \in PolicyDomain, NEW p, Sound(p), Rename(d, p, now + p.maxAge),
         now' = now, remote' = remote, solid' = solid
  PROVE  /\ file' \in [PolicyDomain -> FileOrNo] /\ SoundFiles'
         /\ offered' \in [Call -> SUBSET PolicyOrNo]
         /\ \A b \in Call : offered[b] \subseteq offered'[b]
         /\ \A b \in Call : call'[b] = call[b] => CallOk(b)'
<1>1. CASE file' = file /\ offered' = offered
  <2>1. SoundFiles'
    BY <1>1 DEF CacheInv, SoundFiles, Check
  <2>2. \A b \in Call : call'[b] = call[b] => CallOk(b)'
    BY <1>1, CallStays
  <2> QED BY <1>1, <2>1, <2>2 DEF CacheInv, CacheTypes
<1>2. CASE /\ file' = [file EXCEPT ![d] = [pol |-> p, mtime |-> now + p.maxAge]]
           /\ Offer(d, p)
  <2>1. /\ file' \in [PolicyDomain -> FileOrNo] /\ SoundFiles'
        /\ file'[d].pol = p /\ Alive(d)'
        /\ \A e \in PolicyDomain \ {d} : file'[e] = file[e]
    BY <1>2, FilePut
  <2>2. p \in PolicyOrNo
    BY DEF Sound, PolicyOrNo
  <2>3. offered' = [c \in Call |->
          IF Open(c) /\ call[c].dom = d THEN offered[c] \cup {p} ELSE offered[c]]
    BY <1>2 DEF Offer
  <2>4. offered' \in [Call -> SUBSET PolicyOrNo]
    BY <2>2, <2>3 DEF CacheInv, CacheTypes
  <2>5. \A b \in Call : offered[b] \subseteq offered'[b]
    BY <2>3
  <2>6. ASSUME NEW b \in Call, call'[b] = call[b] PROVE CallOk(b)'
    <3>1. CallOk(b)
      BY DEF CacheInv
    <3>2. CASE Open(b) /\ call[b].dom = d
      <4>1. p \in offered'[b]
        BY <2>3, <3>2
      <4>2. file'[d] # NoPolicy
        BY <2>1 DEF Alive
      <4> QED BY <2>1, <2>5, <2>6, <3>1, <3>2, <4>1, <4>2 DEF CallOk, Open
    <3>3. CASE Open(b) /\ call[b].dom # d
      <4>1. call[b].dom \in PolicyDomain /\ file'[call[b].dom] = file[call[b].dom]
        BY <2>1, <3>1, <3>3 DEF CallOk
      <4> QED BY <2>5, <2>6, <3>1, <3>3, <4>1 DEF CallOk, Open, Alive
    <3>4. CASE ~Open(b)
      BY <2>5, <2>6, <3>1, <3>4 DEF CallOk, Open
    <3> QED BY <3>2, <3>3, <3>4
  <2> QED BY <2>1, <2>4, <2>5, <2>6
<1> QED BY <1>1, <1>2 DEF Rename

(* A step of one call that writes no file. *)
LEMMA LocalStep ==
  ASSUME CacheInv, NEW c \in Call, now' = now, remote' = remote, file' = file, ref' = ref,
         call' \in [Call -> CallRec], \A b \in Call \ {c} : call'[b] = call[b],
         offered' \in [Call -> SUBSET PolicyOrNo],
         \A b \in Call \ {c} : offered'[b] = offered[b],
         solid' \subseteq solid \cup {c}, CallOk(c)'
  PROVE  CacheInv'
<1>1. CacheTypes'
  BY DEF CacheInv, CacheTypes
<1>2. SoundFiles' /\ RefOk'
  BY DEF CacheInv, SoundFiles, RefOk, Sound, Check
<1>3. ASSUME NEW b \in Call \ {c} PROVE CallOk(b)'
  BY CallStays
<1> QED BY <1>1, <1>2, <1>3 DEF CacheInv

(* The types of the records a call may become. *)
LEMMA StepType ==
  ASSUME CacheTypes, NEW c \in Call, NEW old, NEW new \in CallPcs, Step(c, old, new)
  PROVE  /\ call' \in [Call -> CallRec] /\ \A b \in Call \ {c} : call'[b] = call[b]
         /\ call'[c].pc = new /\ call'[c].dom = call[c].dom
         /\ call'[c].pol = call[c].pol /\ call'[c].expires = call[c].expires
<1>1. call' = [call EXCEPT ![c].pc = new]
  BY DEF Step
<1>2. call' \in [Call -> CallRec]
  BY <1>1 DEF CacheTypes, CallRec
<1> QED BY <1>1, <1>2 DEF CacheTypes, CallRec

(* Fetch returns p for the domain it was asked about. *)
LEMMA ReturnsType ==
  ASSUME CacheTypes, NEW c \in Call, NEW p \in PolicyOrNo, FetchReturns(c, p)
  PROVE  /\ call' \in [Call -> CallRec] /\ \A b \in Call \ {c} : call'[b] = call[b]
         /\ call'[c].pc = "done" /\ call'[c].dom = call[c].dom /\ call'[c].pol = p
<1> DEFINE r == [Idle EXCEPT !.pc = "done", !.dom = call[c].dom, !.pol = p]
<1>1. call[c].dom \in DomainOrNo
  BY DEF CacheTypes, CallRec
<1>2. Idle \in CallRec
  BY DEF Idle, CallRec, CallPcs, DomainOrNo, PolicyOrNo
<1>3. r \in CallRec /\ r.pc = "done" /\ r.dom = call[c].dom /\ r.pol = p
  BY <1>1, <1>2 DEF CallRec, CallPcs
<1>4. call' = [call EXCEPT ![c] = r]
  BY DEF FetchReturns
<1> HIDE DEF r
<1> QED BY <1>3, <1>4 DEF CacheTypes

(* A call begins: what the domain publishes, and what the cache holds, is  *)
(* what it may return.                                                     *)
LEMMA BeginKeeps ==
  ASSUME CacheInv, NEW c \in Call, NEW d \in PolicyDomain, Begin(c, d)
  PROVE  CacheInv'
<1> DEFINE r == [Idle EXCEPT !.pc = "stat", !.dom = d]
<1>1. Idle \in CallRec
  BY DEF Idle, CallRec, CallPcs, DomainOrNo, PolicyOrNo
<1>2. r \in CallRec /\ r.pc = "stat" /\ r.dom = d
  BY <1>1 DEF CallRec, CallPcs, DomainOrNo
<1>3. call' = [call EXCEPT ![c] = r]
  BY DEF Begin
<1> HIDE DEF r
<1>4. /\ call' \in [Call -> CallRec] /\ \A b \in Call \ {c} : call'[b] = call[b]
      /\ call'[c].pc = "stat" /\ call'[c].dom = d
  BY <1>2, <1>3 DEF CacheInv, CacheTypes
<1> DEFINE given == {remote[d]} \cup (IF Alive(d) THEN {file[d].pol} ELSE {})
<1>5. given \in SUBSET PolicyOrNo
  <2>1. remote[d] \in PolicyOrNo
    BY DEF CacheInv, CacheTypes
  <2>2. Alive(d) => file[d].pol \in PolicyOrNo
    BY DEF CacheInv, CacheTypes, Alive, FileOrNo, CachedFile, PolicyOrNo
  <2> QED BY <2>1, <2>2
<1>6. offered' = [offered EXCEPT ![c] = given]
  BY DEF Begin
<1>7. remote[d] \in given /\ (Alive(d) => file[d].pol \in given)
  OBVIOUS
<1> HIDE DEF given
<1>8. /\ offered' \in [Call -> SUBSET PolicyOrNo] /\ offered'[c] = given
      /\ \A b \in Call \ {c} : offered'[b] = offered[b]
  BY <1>5, <1>6 DEF CacheInv, CacheTypes
<1>9. /\ now' = now /\ remote' = remote /\ file' = file /\ ref' = ref
      /\ solid' = IF Alive(d) THEN solid \cup {c} ELSE solid \ {c}
  BY DEF Begin
<1>10. CallOk(c)'
  BY <1>4, <1>7, <1>8, <1>9 DEF CallOk, Open, Alive
<1> QED BY <1>4, <1>8, <1>9, <1>10, LocalStep

(* load finds the file valid or not, at the moment of its Stat. *)
LEMMA StatKeeps ==
  ASSUME CacheInv, NEW c \in Call, Stat(c)
  PROVE  CacheInv'
<1>1. CallOk(c) /\ call[c].pc = "stat" /\ call[c].dom \in PolicyDomain
  BY DEF CacheInv, Stat, CallOk, Open
<1>2. /\ now' = now /\ remote' = remote /\ file' = file /\ ref' = ref
      /\ offered' = offered /\ solid' = solid
  BY DEF Stat, history
<1>3. Valid(call[c].dom) <=> Alive(call[c].dom)
  <2>1. file[call[c].dom] # NoPolicy => file[call[c].dom].mtime \in Int /\ now \in Int
    BY <1>1 DEF CacheInv, CacheTypes, FileOrNo, CachedFile
  <2> QED BY <2>1 DEF Valid, Alive, Expired
<1>4. CASE Valid(call[c].dom)
  <2>1. Step(c, "stat", "read") /\ "read" \in CallPcs
    BY <1>4 DEF Stat, CallPcs
  <2>2. /\ call' \in [Call -> CallRec] /\ \A b \in Call \ {c} : call'[b] = call[b]
        /\ call'[c].pc = "read" /\ call'[c].dom = call[c].dom
    BY <2>1, StepType DEF CacheInv
  <2>3. CallOk(c)'
    BY <1>1, <1>2, <1>3, <1>4, <2>2 DEF CallOk, Open, Alive
  <2> QED BY <1>2, <2>2, <2>3, LocalStep DEF CacheInv, CacheTypes
<1>5. CASE ~Valid(call[c].dom)
  <2>1. Step(c, "stat", "fetch") /\ "fetch" \in CallPcs
    BY <1>5 DEF Stat, CallPcs
  <2>2. /\ call' \in [Call -> CallRec] /\ \A b \in Call \ {c} : call'[b] = call[b]
        /\ call'[c].pc = "fetch" /\ call'[c].dom = call[c].dom
    BY <2>1, StepType DEF CacheInv
  <2>3. CallOk(c)'
    BY <1>1, <1>2, <1>3, <1>5, <2>2 DEF CallOk, Open, Alive
  <2> QED BY <1>2, <2>2, <2>3, LocalStep DEF CacheInv, CacheTypes
<1> QED BY <1>4, <1>5

(* load reads what the file holds now, which is a checked policy. *)
LEMMA ReadKeeps ==
  ASSUME CacheInv, NEW c \in Call, Read(c)
  PROVE  CacheInv'
<1> DEFINE p == file[call[c].dom].pol
<1>1. CallOk(c) /\ call[c].pc = "read" /\ call[c].dom \in PolicyDomain
  BY DEF CacheInv, Read, CallOk, Open
<1>2. now' = now /\ remote' = remote /\ file' = file /\ ref' = ref /\ offered' = offered
  BY DEF Read
<1>3. file[call[c].dom] # NoPolicy /\ p \in offered[c]
  BY <1>1 DEF CallOk
<1>4. p \in Publishable /\ Check(p)
  BY <1>1, <1>3 DEF CacheInv, CacheTypes, SoundFiles, FileOrNo, CachedFile
<1>5. p \in PolicyOrNo /\ p # NoPolicy
  BY <1>4, STSCacheAssumption DEF PolicyOrNo
<1>6. CASE FetchReturns(c, p) /\ solid' = solid
  <2>1. /\ call' \in [Call -> CallRec] /\ \A b \in Call \ {c} : call'[b] = call[b]
        /\ call'[c].pc = "done" /\ call'[c].pol = p
    BY <1>5, <1>6, ReturnsType DEF CacheInv
  <2>2. CallOk(c)'
    BY <1>2, <1>3, <1>5, <2>1 DEF CallOk, Open
  <2> QED BY <1>2, <1>6, <2>1, <2>2, LocalStep DEF CacheInv, CacheTypes
<1>7. CASE Step(c, "read", "fetch") /\ solid' = solid \ {c}
  <2>1. "fetch" \in CallPcs
    BY DEF CallPcs
  <2>2. /\ call' \in [Call -> CallRec] /\ \A b \in Call \ {c} : call'[b] = call[b]
        /\ call'[c].pc = "fetch" /\ call'[c].dom = call[c].dom
    BY <1>7, <2>1, StepType DEF CacheInv
  <2>3. CallOk(c)'
    BY <1>1, <1>2, <1>7, <2>2 DEF CallOk, Open
  <2> QED BY <1>2, <1>7, <2>2, <2>3, LocalStep DEF CacheInv, CacheTypes
<1> QED BY <1>4, <1>6, <1>7 DEF Read

(* What a fetch gives is a checked policy that the domain publishes now. *)
LEMMA FetchedSound ==
  ASSUME CacheTypes, NEW d \in PolicyDomain, Fetched(d) # NoPolicy
  PROVE  Sound(Fetched(d)) /\ Fetched(d) = remote[d] /\ Fetched(d) \in PolicyOrNo
BY DEF CacheTypes, Fetched, Sound, PolicyOrNo

(* The call keeps the policy it fetched. *)
LEMMA FetchedType ==
  ASSUME CacheTypes, NEW c \in Call, NEW p \in PolicyOrNo, NEW pc \in CallPcs,
         call' = [call EXCEPT ![c].pc = pc, ![c].pol = p]
  PROVE  /\ call' \in [Call -> CallRec] /\ \A b \in Call \ {c} : call'[b] = call[b]
         /\ call'[c].pc = pc /\ call'[c].dom = call[c].dom /\ call'[c].pol = p
<1>1. call' \in [Call -> CallRec]
  BY DEF CacheTypes, CallRec
<1> QED BY <1>1 DEF CacheTypes, CallRec

(* A call that found no valid file fetches the policy. *)
LEMMA FetchRemoteKeeps ==
  ASSUME CacheInv, NEW c \in Call, FetchRemote(c)
  PROVE  CacheInv'
<1>1. CallOk(c) /\ call[c].pc = "fetch" /\ call[c].dom \in PolicyDomain
  BY DEF CacheInv, FetchRemote, CallOk, Open
<1>2. /\ now' = now /\ remote' = remote /\ file' = file /\ ref' = ref
      /\ offered' = offered /\ solid' = solid
  BY DEF FetchRemote, history
<1>3. c \notin solid /\ remote[call[c].dom] \in offered[c]
  BY <1>1 DEF CallOk, Open
<1>4. CASE FetchReturns(c, NoPolicy)
  <2>1. NoPolicy \in PolicyOrNo
    BY DEF PolicyOrNo
  <2>2. /\ call' \in [Call -> CallRec] /\ \A b \in Call \ {c} : call'[b] = call[b]
        /\ call'[c].pc = "done" /\ call'[c].pol = NoPolicy
    BY <1>4, <2>1, ReturnsType DEF CacheInv
  <2>3. CallOk(c)'
    BY <1>2, <1>3, <2>2 DEF CallOk, Open
  <2> QED BY <1>2, <2>2, <2>3, LocalStep DEF CacheInv, CacheTypes
<1>5. CASE /\ Fetched(call[c].dom) # NoPolicy
           /\ call' = [call EXCEPT ![c].pc = "store", ![c].pol = Fetched(call[c].dom)]
  <2> DEFINE p == Fetched(call[c].dom)
  <2>1. Sound(p) /\ p = remote[call[c].dom] /\ p \in PolicyOrNo /\ "store" \in CallPcs
    BY <1>1, <1>5, FetchedSound DEF CacheInv, CallPcs
  <2>2. /\ call' \in [Call -> CallRec] /\ \A b \in Call \ {c} : call'[b] = call[b]
        /\ call'[c].pc = "store" /\ call'[c].dom = call[c].dom /\ call'[c].pol = p
    BY <1>5, <2>1, FetchedType DEF CacheInv
  <2> HIDE DEF p
  <2>3. CallOk(c)'
    BY <1>1, <1>2, <1>3, <2>1, <2>2 DEF CallOk, Open, Sound, Check
  <2> QED BY <1>2, <2>2, <2>3, LocalStep DEF CacheInv, CacheTypes
<1> QED BY <1>4, <1>5 DEF FetchRemote

(* The call computes when its policy expires. *)
LEMMA ExpiresType ==
  ASSUME CacheTypes, NEW c \in Call, NEW t \in Int, NEW pc \in CallPcs,
         call' = [call EXCEPT ![c].pc = pc, ![c].expires = t]
  PROVE  /\ call' \in [Call -> CallRec] /\ \A b \in Call \ {c} : call'[b] = call[b]
         /\ call'[c].pc = pc /\ call'[c].dom = call[c].dom
         /\ call'[c].pol = call[c].pol /\ call'[c].expires = t
<1>1. call' \in [Call -> CallRec]
  BY DEF CacheTypes, CallRec
<1> QED BY <1>1 DEF CacheTypes, CallRec

(* store begins. *)
LEMMA StoreKeeps ==
  ASSUME CacheInv, NEW c \in Call, Store(c)
  PROVE  CacheInv'
<1>1. /\ CallOk(c) /\ call[c].pc = "store" /\ call[c].dom \in PolicyDomain
      /\ Sound(call[c].pol)
  BY DEF CacheInv, Store, CallOk, Open
<1>2. /\ now' = now /\ remote' = remote /\ file' = file /\ ref' = ref
      /\ offered' = offered /\ solid' = solid
  BY DEF Store, history
<1>3. Expires(call[c].pol) \in Int /\ "rename" \in CallPcs
  BY <1>1, STSCacheAssumption DEF Expires, Sound, CacheInv, CacheTypes, CallPcs
<1>4. /\ call' \in [Call -> CallRec] /\ \A b \in Call \ {c} : call'[b] = call[b]
      /\ call'[c].pc = "rename" /\ call'[c].dom = call[c].dom
      /\ call'[c].pol = call[c].pol /\ call'[c].expires = Expires(call[c].pol)
  BY <1>3, ExpiresType DEF Store, CacheInv
<1>5. CallOk(c)'
  BY <1>1, <1>2, <1>4 DEF CallOk, Open, Expires
<1> QED BY <1>2, <1>4, <1>5, LocalStep DEF CacheInv, CacheTypes

(* store puts the file in place, or fails, and the policy is returned. *)
LEMMA FetchStoredKeeps ==
  ASSUME CacheInv, NEW c \in Call, FetchStored(c)
  PROVE  CacheInv'
<1> DEFINE p == call[c].pol
<1> DEFINE d == call[c].dom
<1>1. CallOk(c) /\ call[c].pc = "rename"
  BY DEF CacheInv, FetchStored
<1>2. /\ d \in PolicyDomain /\ Sound(p) /\ p \in offered[c] /\ c \notin solid
      /\ call[c].expires = now + p.maxAge
  BY <1>1 DEF CallOk, Open
<1>3. now' = now /\ remote' = remote /\ ref' = ref /\ solid' = solid
  BY DEF FetchStored
<1>4. Rename(d, p, now + p.maxAge) /\ FetchReturns(c, p) /\ p \in PolicyOrNo
  BY <1>2 DEF FetchStored, Sound, PolicyOrNo
<1>5. /\ call' \in [Call -> CallRec] /\ \A b \in Call \ {c} : call'[b] = call[b]
      /\ call'[c].pc = "done" /\ call'[c].pol = p
  BY <1>4, ReturnsType DEF CacheInv
<1>6. /\ file' \in [PolicyDomain -> FileOrNo] /\ SoundFiles'
      /\ offered' \in [Call -> SUBSET PolicyOrNo]
      /\ \A b \in Call : offered[b] \subseteq offered'[b]
      /\ \A b \in Call : call'[b] = call[b] => CallOk(b)'
  BY <1>2, <1>3, <1>4, RenameKeeps
<1>7. CallOk(c)'
  BY <1>2, <1>3, <1>5, <1>6 DEF CallOk, Open
<1>8. CacheTypes' /\ RefOk'
  BY <1>3, <1>5, <1>6 DEF CacheInv, CacheTypes, RefOk, Sound, Check
<1> QED BY <1>5, <1>6, <1>7, <1>8 DEF CacheInv

(* A step of the refresh that writes no file. *)
LEMMA RefStep ==
  ASSUME CacheInv, UNCHANGED <<now, remote, file, call, history>>, ref' \in RefRec, RefOk'
  PROVE  CacheInv'
<1>1. \A b \in Call : CallOk(b)'
  BY CallStays DEF history
<1> QED BY <1>1 DEF CacheInv, CacheTypes, SoundFiles, Check, history

(* The refresh goes on to the next file. *)
LEMMA SkipType ==
  ASSUME ref \in RefRec, Skip
  PROVE  ref' \in RefRec /\ ref'.pc = "next"
<1>1. NoPolicy \in DomainOrNo /\ NoPolicy \in PolicyOrNo /\ "next" \in RefPcs /\ 0 \in Int
  BY DEF DomainOrNo, PolicyOrNo, RefPcs
<1> QED BY <1>1 DEF Skip, RefRec

(* refresh, over the files that were there when it began. *)
LEMMA RefreshKeeps ==
  ASSUME CacheInv, ReadDir \/ NextEntry \/ RefreshFetch \/ RefreshStore
  PROVE  CacheInv'
<1>1. ref \in RefRec /\ RefOk
  BY DEF CacheInv, CacheTypes
<1>2. UNCHANGED <<now, remote, file, call, history>>
  BY DEF ReadDir, NextEntry, RefreshFetch, RefreshStore
<1>3. CASE ReadDir
  <2>1. {d \in PolicyDomain : file[d] # NoPolicy} \in SUBSET PolicyDomain /\ "next" \in RefPcs
    BY DEF RefPcs
  <2>2. ref' \in RefRec /\ ref'.pc = "next"
    BY <1>1, <1>3, <2>1 DEF ReadDir, RefRec
  <2> QED BY <1>2, <2>2, RefStep DEF RefOk
<1>4. CASE NextEntry
  <2>1. CASE ref' = [ref EXCEPT !.pc = "sleep"]
    <3>1. "sleep" \in RefPcs
      BY DEF RefPcs
    <3>2. ref' \in RefRec /\ ref'.pc = "sleep"
      BY <1>1, <2>1, <3>1 DEF RefRec
    <3> QED BY <1>2, <3>2, RefStep DEF RefOk
  <2>2. ASSUME NEW d \in ref.todo, ref' = [ref EXCEPT !.pc = "fetch", !.dom = d, !.todo = @ \ {d}]
        PROVE  CacheInv'
    <3>1. ref.todo \in SUBSET PolicyDomain
      BY <1>1 DEF RefRec
    <3>2. d \in PolicyDomain /\ d \in DomainOrNo /\ "fetch" \in RefPcs
      BY <3>1, <2>2 DEF DomainOrNo, RefPcs
    <3>3. ref' \in RefRec /\ ref'.pc = "fetch" /\ ref'.dom = d
      BY <1>1, <2>2, <3>1, <3>2 DEF RefRec
    <3> QED BY <1>2, <3>2, <3>3, RefStep DEF RefOk
  <2> QED BY <1>4, <2>1, <2>2 DEF NextEntry
<1>5. CASE RefreshFetch
  <2>1. ref.pc = "fetch" /\ ref.dom \in PolicyDomain
    BY <1>1, <1>5 DEF RefreshFetch, RefOk
  <2>2. CASE Skip
    <3>1. ref' \in RefRec /\ ref'.pc = "next"
      BY <1>1, <2>2, SkipType
    <3> QED BY <1>2, <3>1, RefStep DEF RefOk
  <2>3. CASE /\ Fetched(ref.dom) # NoPolicy
             /\ ref' = [ref EXCEPT !.pc = "store", !.pol = Fetched(ref.dom)]
    <3> DEFINE p == Fetched(ref.dom)
    <3>1. Sound(p) /\ p \in PolicyOrNo /\ "store" \in RefPcs
      BY <2>1, <2>3, FetchedSound DEF CacheInv, RefPcs
    <3>2. ref' = [ref EXCEPT !.pc = "store", !.pol = p]
      BY <2>3
    <3> HIDE DEF p
    <3>3. ref' \in RefRec /\ ref'.pc = "store" /\ ref'.pol = p /\ ref'.dom = ref.dom
      BY <1>1, <3>1, <3>2 DEF RefRec
    <3>4. RefOk'
      BY <2>1, <3>1, <3>3 DEF RefOk, Sound, Check
    <3> QED BY <1>2, <3>3, <3>4, RefStep
  <2> QED BY <1>5, <2>2, <2>3 DEF RefreshFetch
<1>6. CASE RefreshStore
  <2>1. ref.pc = "store" /\ Sound(ref.pol) /\ ref.dom \in PolicyDomain
    BY <1>1, <1>6 DEF RefreshStore, RefOk
  <2>2. Expires(ref.pol) \in Int /\ "rename" \in RefPcs
    BY <2>1, STSCacheAssumption DEF Expires, Sound, CacheInv, CacheTypes, RefPcs
  <2>3. ref' \in RefRec /\ ref'.pc = "rename" /\ ref'.pol = ref.pol /\ ref'.dom = ref.dom
        /\ ref'.expires = Expires(ref.pol)
    BY <1>1, <1>6, <2>2 DEF RefreshStore, RefRec
  <2>4. RefOk'
    BY <1>2, <2>1, <2>3 DEF RefOk, Sound, Check, Expires
  <2> QED BY <1>2, <2>3, <2>4, RefStep
<1> QED BY <1>3, <1>4, <1>5, <1>6

(* refresh stores a policy, or fails to. *)
LEMMA RefreshStoredKeeps ==
  ASSUME CacheInv, RefreshStored
  PROVE  CacheInv'
<1>1. /\ ref.dom \in PolicyDomain /\ Sound(ref.pol) /\ ref.expires = now + ref.pol.maxAge
      /\ ref \in RefRec
  BY DEF CacheInv, CacheTypes, RefreshStored, RefOk
<1>2. now' = now /\ remote' = remote /\ call' = call /\ solid' = solid
  BY DEF RefreshStored
<1>3. Rename(ref.dom, ref.pol, now + ref.pol.maxAge)
  BY <1>1 DEF RefreshStored
<1>4. /\ file' \in [PolicyDomain -> FileOrNo] /\ SoundFiles'
      /\ offered' \in [Call -> SUBSET PolicyOrNo]
      /\ \A b \in Call : CallOk(b)'
  BY <1>1, <1>2, <1>3, RenameKeeps
<1>5. ref' \in RefRec /\ ref'.pc = "next"
  BY <1>1, SkipType DEF RefreshStored, Skip
<1> QED BY <1>2, <1>4, <1>5 DEF CacheInv, CacheTypes, RefOk

(* Time goes on: files may expire, but no policy is on its way to the disk. *)
LEMMA TickKeeps ==
  ASSUME CacheInv, Tick
  PROVE  CacheInv'
<1>1. /\ now \in Int /\ now' = now + 1 /\ remote' = remote /\ file' = file /\ call' = call
      /\ ref' = ref /\ offered' = offered /\ ref.pc # "rename"
      /\ \A c \in Call : call[c].pc # "rename"
      /\ solid' = {c \in solid : file[call[c].dom].mtime >= now'}
  BY DEF Tick, CacheInv, CacheTypes
<1>2. \A d \in PolicyDomain : file[d] # NoPolicy =>
        file[d].mtime \in Int /\ file[d].pol.maxAge \in Int
  BY STSCacheAssumption DEF CacheInv, CacheTypes, FileOrNo, CachedFile
<1>3. SoundFiles'
  BY <1>1, <1>2 DEF CacheInv, SoundFiles, Check
<1>4. CacheTypes' /\ RefOk'
  BY <1>1 DEF CacheInv, CacheTypes, RefOk, Sound, Check
<1>5. ASSUME NEW b \in Call PROVE CallOk(b)'
  <2>1. CallOk(b)
    BY DEF CacheInv
  <2>2. Open(b) => (Alive(call[b].dom)' => Alive(call[b].dom))
    BY <1>1, <1>2, <2>1 DEF Alive, CallOk
  <2>3. Open(b) /\ b \in solid' => Alive(call[b].dom)'
    BY <1>1, <1>2, <2>1 DEF Alive, CallOk, Open
  <2> QED BY <1>1, <2>1, <2>2, <2>3 DEF CallOk, Open, Sound, Check
<1> QED BY <1>3, <1>4, <1>5 DEF CacheInv

(* A domain publishes something else, which open calls are now offered. *)
LEMMA PublishKeeps ==
  ASSUME CacheInv, NEW d \in PolicyDomain, NEW p \in PolicyOrNo, Publish(d, p)
  PROVE  CacheInv'
<1>1. /\ now' = now /\ file' = file /\ call' = call /\ ref' = ref /\ solid' = solid
      /\ remote' = [remote EXCEPT ![d] = p]
      /\ offered' = [c \in Call |->
           IF Open(c) /\ call[c].dom = d THEN offered[c] \cup {p} ELSE offered[c]]
  BY DEF Publish, Offer
<1>2. CacheTypes'
  BY <1>1 DEF CacheInv, CacheTypes
<1>3. SoundFiles' /\ RefOk'
  BY <1>1 DEF CacheInv, SoundFiles, RefOk, Sound, Check
<1>4. ASSUME NEW b \in Call PROVE CallOk(b)'
  <2>1. CallOk(b)
    BY DEF CacheInv
  <2>2. offered[b] \subseteq offered'[b]
    BY <1>1
  <2>3. Open(b) => remote'[call[b].dom] \in offered'[b]
    BY <1>1, <2>1 DEF CallOk, CacheInv, CacheTypes
  <2> QED BY <1>1, <2>1, <2>2, <2>3 DEF CallOk, Open, Alive, Sound, Check
<1> QED BY <1>2, <1>3, <1>4 DEF CacheInv

(* The process stops and starts again on the same files. *)
LEMMA CrashKeeps ==
  ASSUME CacheInv, Crash
  PROVE  CacheInv'
<1>1. Idle \in CallRec /\ Idle.pc = "idle"
  BY DEF Idle, CallRec, CallPcs, DomainOrNo, PolicyOrNo
<1>2. /\ now' = now /\ remote' = remote /\ file' = file /\ call' = [c \in Call |-> Idle]
      /\ offered' = [c \in Call |-> {}] /\ solid' = {}
  BY DEF Crash
<1>3. ref' \in RefRec /\ ref'.pc = "sleep"
  BY DEF Crash, Asleep, RefRec, RefPcs, DomainOrNo, PolicyOrNo
<1>4. CacheTypes' /\ SoundFiles' /\ RefOk'
  BY <1>1, <1>2, <1>3 DEF CacheInv, CacheTypes, SoundFiles, RefOk, Check
<1>5. \A b \in Call : CallOk(b)'
  BY <1>1, <1>2 DEF CallOk, Open
<1> QED BY <1>4, <1>5 DEF CacheInv

(* The invariant holds in every state. *)
THEOREM CacheInductive == CacheSpec => []CacheInv
<1>1. CacheInv /\ [CacheNext]_cacheVars => CacheInv'
  <2> SUFFICES ASSUME CacheInv, [CacheNext]_cacheVars PROVE CacheInv' OBVIOUS
  <2>1. CASE UNCHANGED cacheVars
    BY <2>1, RefStep DEF cacheVars, history, CacheInv, CacheTypes, RefOk, Sound, Check
  <2>2. ASSUME NEW d \in PolicyDomain, NEW p \in Publishable \cup {NoPolicy}, Publish(d, p)
        PROVE  CacheInv'
    BY <2>2, PublishKeeps DEF PolicyOrNo
  <2>3. ASSUME NEW c \in Call, CallStep(c) PROVE CacheInv'
    BY <2>3, StatKeeps, ReadKeeps, FetchRemoteKeeps, StoreKeeps, FetchStoredKeeps DEF CallStep
  <2>4. CASE Refresh
    BY <2>4, RefreshKeeps, RefreshStoredKeeps DEF Refresh
  <2> QED BY <2>1, <2>2, <2>3, <2>4, TickKeeps, CrashKeeps, BeginKeeps DEF CacheNext
<1> QED BY <1>1, CacheInitHolds, PTL DEF CacheSpec

(* PolicyCache.Fetch returns nothing that has expired or was withdrawn     *)
(* before the call began.                                                  *)
THEOREM FetchIsFresh == CacheSpec => []NothingStale
<1>1. CacheInv => NothingStale
  BY DEF CacheInv, CallOk, NothingStale
<1> QED BY <1>1, CacheInductive, PTL

(* An unexpired policy in the cache is returned whatever the domain and    *)
(* the network do.                                                         *)
THEOREM CacheOutlivesOutages == CacheSpec => []OutageSurvived
<1>1. CacheInv => OutageSurvived
  BY DEF CacheInv, CallOk, OutageSurvived
<1> QED BY <1>1, CacheInductive, PTL

(* Every file of the cache is a checked policy with an honest expiry, with *)
(* any number of writers and crashes.                                      *)
THEOREM FilesAreSound == CacheSpec => []SoundFiles
<1>1. CacheInv => SoundFiles
  BY DEF CacheInv
<1> QED BY <1>1, CacheInductive, PTL
=============================================================================
