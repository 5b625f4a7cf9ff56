------------------------------ MODULE STSCache ------------------------------
(***************************************************************************)
(* The cache of MTA-STS policies (internal/sts/sts.go).                    *)
(*                                                                         *)
(* Couriers ask PolicyCache.Fetch for the policy of a domain; a background *)
(* loop fetches the policies of all cached domains anew.  There is no lock *)
(* and nothing in memory: both work on one file per domain, whose          *)
(* modification time is the moment the policy expires.  Domains publish,   *)
(* break and withdraw their policies, the network and the disk may fail,   *)
(* and the process may stop and start at any time.                         *)
(***************************************************************************)
EXTENDS Integers, FiniteSets

CONSTANTS
  PolicyDomain,
  Call,           \* the calls of PolicyCache.Fetch
  Publishable,         \* what a domain may publish, valid or not
  MaxMaxAge,      \* the highest max_age of a valid policy
  MaxTime,        \* how far the clock goes
  MaxChanges,     \* how often domains change what they publish
  MaxFaults,      \* how often the network, the disk or the process fails
  NoPolicy            \* no file, no policy, an error

Mode == {"enforce", "testing", "none"}

ASSUME STSCacheAssumption ==
  /\ {MaxMaxAge, MaxTime, MaxChanges, MaxFaults} \subseteq Nat
  /\ NoPolicy \notin Publishable \cup [pol : Publishable, mtime : Int]
  /\ \A p \in Publishable : p.maxAge \in Int

VARIABLES
  now,          \* the clock
  remote,       \* what each domain publishes
  file,         \* the directory of the cache
  call,         \* the calls of Fetch, and what each has in its variables
  ref,          \* the goroutine of PeriodicallyRefresh
  changes, faults,
  (* What happened; no guard reads it. *)
  offered,      \* what a call could have been given, since it began
  solid         \* the calls during all of which there was a policy to give

cacheVars == <<now, remote, file, call, ref, changes, faults, offered, solid>>
history == <<offered, solid>>
bounds == <<changes, faults>>

(* Policy.Check; the version is part of the mode. *)
Check(p) ==
  /\ p.maxAge > 0 /\ p.maxAge <= MaxMaxAge
  /\ p.mode \in Mode
  /\ p.mx # {}

(* time.Since(fi.ModTime()) > 0 *)
Expired_Never(f) == FALSE
Expired(f) == now > f.mtime

Valid(d) == file[d] # NoPolicy /\ ~Expired(file[d])

(* There is a policy of d that has not outlived its max_age. *)
Alive(d) == file[d] # NoPolicy /\ now <= file[d].mtime

Idle == [pc |-> "idle", dom |-> NoPolicy, pol |-> NoPolicy, expires |-> 0]

Asleep == [pc |-> "sleep", todo |-> {}, dom |-> NoPolicy, pol |-> NoPolicy, expires |-> 0]

(* NewCache, on a directory that may hold policies from before. *)
CacheInit ==
  /\ now = 0
  /\ remote \in [PolicyDomain -> Publishable \cup {NoPolicy}]
  /\ file \in [PolicyDomain -> {NoPolicy} \cup
       {[pol |-> p, mtime |-> p.maxAge] : p \in {q \in Publishable : Check(q)}}]
  /\ call = [c \in Call |-> Idle]
  /\ ref = Asleep
  /\ changes = 0 /\ faults = 0
  /\ offered = [c \in Call |-> {}]
  /\ solid = {}

(***************************************************************************)
(* Time and domains.  The unit of time is a max_age of one, and writing a  *)
(* file takes less.                                                        *)
(***************************************************************************)
Tick ==
  /\ now < MaxTime
  /\ \A c \in Call : call[c].pc # "rename"
  /\ ref.pc # "rename"
  /\ now' = now + 1
  /\ solid' = {c \in solid : file[call[c].dom].mtime >= now'}
  /\ UNCHANGED <<remote, file, call, ref, bounds, offered>>

Open(c) == call[c].pc \notin {"idle", "done"}

Offer(d, p) ==
  offered' = [c \in Call |->
    IF Open(c) /\ call[c].dom = d THEN offered[c] \cup {p} ELSE offered[c]]

(* The domain publishes p, or takes its record or its file away. *)
Publish(d, p) ==
  /\ changes < MaxChanges
  /\ p # remote[d]
  /\ changes' = changes + 1
  /\ remote' = [remote EXCEPT ![d] = p]
  /\ Offer(d, p)
  /\ UNCHANGED <<now, file, call, ref, faults, solid>>

Fault == faults < MaxFaults /\ faults' = faults + 1

(***************************************************************************)
(* Fetch, the function: hasSTSRecord, httpGet, parsePolicy and Check.  It  *)
(* gives NoPolicy for an error.                                            *)
(***************************************************************************)
Fetched_Unchecked(d) == remote[d]
Fetched(d) ==
  IF remote[d] # NoPolicy /\ Check(remote[d]) THEN remote[d] ELSE NoPolicy

(***************************************************************************)
(* PolicyCache.Fetch: load is a Stat and a read, store computes the time   *)
(* the policy expires and then writes the file, with WriteFile, which puts *)
(* it in place in one step or fails.                                       *)
(***************************************************************************)
Step(c, old, new) ==
  /\ call[c].pc = old
  /\ call' = [call EXCEPT ![c].pc = new]

FetchReturns(c, p) ==
  call' = [call EXCEPT ![c] = [Idle EXCEPT !.pc = "done", !.dom = call[c].dom,
                                           !.pol = p]]

Begin(c, d) ==
  /\ call[c].pc \in {"idle", "done"}
  /\ call' = [call EXCEPT ![c] = [Idle EXCEPT !.pc = "stat", !.dom = d]]
  /\ offered' = [offered EXCEPT ![c] =
       {remote[d]} \cup (IF Alive(d) THEN {file[d].pol} ELSE {})]
  /\ solid' = IF Alive(d) THEN solid \cup {c} ELSE solid \ {c}
  /\ UNCHANGED <<now, remote, file, ref, bounds>>

Stat_Ahead(c) ==
  /\ Step(c, "stat", "fetch")
  /\ UNCHANGED <<now, remote, file, ref, bounds, history>>
Stat(c) ==
  /\ call[c].pc = "stat"
  /\ Step(c, "stat", IF Valid(call[c].dom) THEN "read" ELSE "fetch")
  /\ UNCHANGED <<now, remote, file, ref, bounds, history>>

Read(c) ==
  /\ call[c].pc = "read"
  /\ \/ /\ IF Check(file[call[c].dom].pol)
           THEN FetchReturns(c, file[call[c].dom].pol)
           ELSE Step(c, "read", "fetch")
        /\ UNCHANGED <<faults, solid>>
     \/ /\ Fault /\ Step(c, "read", "fetch")
        /\ solid' = solid \ {c}
  /\ UNCHANGED <<now, remote, file, ref, changes, offered>>

FetchRemote(c) ==
  /\ call[c].pc = "fetch"
  /\ \/ /\ IF Fetched(call[c].dom) = NoPolicy
           THEN FetchReturns(c, NoPolicy)
           ELSE call' = [call EXCEPT ![c].pc = "store",
                                     ![c].pol = Fetched(call[c].dom)]
        /\ UNCHANGED faults
     \/ Fault /\ FetchReturns(c, NoPolicy)
  /\ UNCHANGED <<now, remote, file, ref, changes, history>>

Expires(p) == now + p.maxAge

Store(c) ==
  /\ call[c].pc = "store"
  /\ call' = [call EXCEPT ![c].pc = "rename", ![c].expires = Expires(call[c].pol)]
  /\ UNCHANGED <<now, remote, file, ref, bounds, history>>

Rename(d, p, expires) ==
  \/ /\ file' = [file EXCEPT ![d] = [pol |-> p, mtime |-> expires]]
     /\ Offer(d, p)
     /\ UNCHANGED faults
  \/ Fault /\ UNCHANGED <<file, offered>>

(* The policy is returned, stored or not. *)
FetchStored(c) ==
  /\ call[c].pc = "rename"
  /\ Rename(call[c].dom, call[c].pol, call[c].expires)
  /\ FetchReturns(c, call[c].pol)
  /\ UNCHANGED <<now, remote, ref, changes, solid>>

(***************************************************************************)
(* refresh: for the files there were when it began, in the order of their  *)
(* names, which is any; an error of one is skipped.                        *)
(***************************************************************************)
ReadDir ==
  /\ ref.pc = "sleep"
  /\ ref' = [ref EXCEPT !.pc = "next", !.todo = {d \in PolicyDomain : file[d] # NoPolicy}]
  /\ UNCHANGED <<now, remote, file, call, bounds, history>>

NextEntry ==
  /\ ref.pc = "next"
  /\ \/ /\ ref.todo = {}
        /\ ref' = [ref EXCEPT !.pc = "sleep"]
     \/ \E d \in ref.todo :
          ref' = [ref EXCEPT !.pc = "fetch", !.dom = d, !.todo = @ \ {d}]
  /\ UNCHANGED <<now, remote, file, call, bounds, history>>

Skip_Rest == ref' = [ref EXCEPT !.pc = "sleep", !.dom = NoPolicy, !.pol = NoPolicy,
                                !.expires = 0, !.todo = {}]
Skip == ref' = [ref EXCEPT !.pc = "next", !.dom = NoPolicy, !.pol = NoPolicy, !.expires = 0]

RefreshFetch ==
  /\ ref.pc = "fetch"
  /\ \/ /\ IF Fetched(ref.dom) = NoPolicy
           THEN Skip
           ELSE ref' = [ref EXCEPT !.pc = "store", !.pol = Fetched(ref.dom)]
        /\ UNCHANGED faults
     \/ Fault /\ Skip
  /\ UNCHANGED <<now, remote, file, call, changes, history>>

RefreshStore ==
  /\ ref.pc = "store"
  /\ ref' = [ref EXCEPT !.pc = "rename", !.expires = Expires(ref.pol)]
  /\ UNCHANGED <<now, remote, file, call, bounds, history>>

RefreshStored ==
  /\ ref.pc = "rename"
  /\ Rename(ref.dom, ref.pol, ref.expires)
  /\ ref' = [ref EXCEPT !.pc = "next", !.dom = NoPolicy, !.pol = NoPolicy, !.expires = 0]
  /\ UNCHANGED <<now, remote, call, changes, solid>>

(* The process stops and starts again; the files stay as they are. *)
Crash ==
  /\ Fault
  /\ call' = [c \in Call |-> Idle]
  /\ ref' = Asleep
  /\ offered' = [c \in Call |-> {}]
  /\ solid' = {}
  /\ UNCHANGED <<now, remote, file, changes>>

CallStep(c) == Stat(c) \/ Read(c) \/ FetchRemote(c) \/ Store(c) \/ FetchStored(c)

Refresh == ReadDir \/ NextEntry \/ RefreshFetch \/ RefreshStore \/ RefreshStored

CacheNext ==
  \/ Tick \/ Crash \/ Refresh
  \/ \E d \in PolicyDomain, p \in Publishable \cup {NoPolicy} : Publish(d, p)
  \/ \E c \in Call : CallStep(c) \/ \E d \in PolicyDomain : Begin(c, d)

(***************************************************************************)
(* The calls and the refresh have timeouts on the network and so always go *)
(* on; the loop of PeriodicallyRefresh never ends.                         *)
(***************************************************************************)
CacheSpec ==
  /\ CacheInit /\ [][CacheNext]_cacheVars
  /\ WF_cacheVars(Refresh)
  /\ \A c \in Call : WF_cacheVars(CallStep(c))

(***************************************************************************)
(* Properties                                                              *)
(***************************************************************************)

(* What PolicyCache.Fetch returns was, at some moment of the call, in the  *)
(* cache and not expired, or published by the domain: a refresh between    *)
(* the Stat and the read of load does no harm, and no policy outlives its  *)
(* max_age.                                                                *)
NothingStale ==
  \A c \in Call :
    call[c].pc = "done" /\ call[c].pol # NoPolicy => call[c].pol \in offered[c]

(* A domain with an unexpired policy in the cache from the beginning to    *)
(* the end of a call gets a policy, even if it publishes none any more or  *)
(* is out of reach: without it mail would go out unprotected.              *)
OutageSurvived ==
  \A c \in Call : call[c].pc = "done" /\ c \in solid => call[c].pol # NoPolicy

(* Whatever fails and whoever writes, a file holds a checked policy with a *)
(* lifetime that began no later than now, so load never refuses a file for *)
(* its contents and none lives longer than the domain said.                *)
SoundFiles ==
  \A d \in PolicyDomain : file[d] # NoPolicy =>
    /\ Check(file[d].pol)
    /\ file[d].mtime <= now + file[d].pol.maxAge

(* Once the domains stop changing and the faults end, the refresh brings   *)
(* every cached domain to the policy it publishes and keeps it there, also *)
(* after a slow call has put an older policy back, and whatever the other  *)
(* domains in the directory do.                                            *)
CacheCatchesUp ==
  \A d \in PolicyDomain :
    <>[](file[d] # NoPolicy /\ Fetched(d) # NoPolicy => file[d].pol = Fetched(d))
=============================================================================
