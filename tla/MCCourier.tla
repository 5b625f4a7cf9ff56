----------------------------- MODULE MCCourier -----------------------------
(* Instances of Courier and of STSCache for TLC: two calls and one domain;  *)
(* the database alone, with two domains and with files that fail; or the    *)
(* cache of policies alone.                                                 *)
EXTENDS Courier, STSCache, TLC

CONSTANTS d1, d2, a1, a2, c1, h1, h2, h3

VARIABLE scene

(* More records than MaxMXs, and the empty list of a domain without mail. *)
MCRecords == {<<>>, <<h1, h2, h3>>}

MCServers == {<<h2>>}

MCPolicy == {[mode |-> "enforce", mx |-> {h2}], [mode |-> "testing", mx |-> {h2}]}

OneDomain == writeFaults = 0 /\ readFaults = 0 /\ info[d2] = None
             /\ \A a \in Attempt : att[a].dom # d2

Short == [mode |-> "enforce", mx |-> {h1}, maxAge |-> 1]
Long == [mode |-> "testing", mx |-> {h1}, maxAge |-> 2]
Endless == [mode |-> "enforce", mx |-> {h1}, maxAge |-> 3]

MCPublishable == {Short, Long, Endless}

(* The first domain does everything; the second is out of reach, or well.  *)
Steady == remote[d2] \in {Long, NoPolicy} /\ (file[d2] # NoPolicy => file[d2].pol = Long)

EmptyCache == \A d \in PolicyDomain : file[d] = NoPolicy /\ remote[d] = NoPolicy

MCNext ==
    /\ \/ scene = "calls" /\ CourierNext /\ OneDomain' /\ UNCHANGED cacheVars
       \/ scene = "database" /\ Next /\ UNCHANGED <<courierVars, cacheVars>>
       \/ scene = "policies" /\ CacheNext /\ remote'[d2] = remote[d2] /\ UNCHANGED allVars
    /\ UNCHANGED scene

MCInit == /\ scene \in {"calls", "database", "policies"}
          /\ CourierInit /\ CacheInit
          /\ scene # "policies" => EmptyCache
          /\ Steady

MCSpec ==
    /\ MCInit /\ [][MCNext]_<<allVars, cacheVars, scene>>
    /\ \A a \in Attempt : WF_allVars(scene = "calls" /\ AttemptStep(a))
    /\ WF_cacheVars(scene = "policies" /\ Refresh)
    /\ \A c \in Call : WF_cacheVars(scene = "policies" /\ CallStep(c))
=============================================================================
