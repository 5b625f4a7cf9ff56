------------------------------- MODULE Aliases -------------------------------
(***************************************************************************)
(* The aliases resolver (internal/aliases/aliases.go) and the two places   *)
(* that use it: RCPT asks whether an address exists, and Queue.Put, some   *)
(* time later, resolves it.                                                *)
(*                                                                         *)
(* Transactions run at the same time.  Each lookup of one takes the mutex  *)
(* for the moment it reads the map, runs the hook without it, and appends  *)
(* the recipients of the hook to the slice it found in the map; meanwhile  *)
(* the files change and Reload replaces the map.                           *)
(*                                                                         *)
(* A user is a name, with or without characters to drop in it, and a       *)
(* suffix or none.                                                         *)
(***************************************************************************)
EXTENDS Integers, Sequences, FiniteSets, SequencesExt

CONSTANTS
  Caller,        \* the transactions
  Local,         \* the local domains
  Asked,         \* the addresses clients give in RCPT
  Users,         \* the addresses of the user database, without drops or suffix
  Files,         \* the contents the aliases files may have
  Hook,          \* what the hook prints for the addresses it knows
  Limit,         \* recursionLimit
  MaxReloads,    \* how often the map is replaced
  MaxHookFaults, \* how many runs of the hook fail
  None

ASSUME AliasesAssumption ==
  /\ {Limit, MaxReloads, MaxHookFaults} \subseteq Nat
  /\ \A u \in Users : ~u.user.drops /\ u.user.suffix = None

VARIABLES
  files,        \* what the aliases files hold
  maps,         \* the maps there have been; the last one is Resolver.aliases
  shared,       \* the memory behind the slices of each map
  tx,           \* the transactions
  hookFaults,
  (* What happened; no guard reads it. *)
  read,         \* the contents of the files at the start and at each Reload
  from          \* how many there were when RCPT began, and when Put did

aliasesVars == <<files, maps, shared, tx, hookFaults, read, from>>

EMAIL(addr) == [type |-> "email", addr |-> addr]

IsLocal(addr) == addr.dom \in Local

Star(dom) == [user |-> [name |-> "*", drops |-> FALSE, suffix |-> None], dom |-> dom]

RemoveDropCharacters(addr) == [addr EXCEPT !.user.drops = FALSE]

RemoveDropsAndSuffix(addr) ==
  [addr EXCEPT !.user.drops = FALSE, !.user.suffix = None]

Key(addr) == RemoveDropCharacters(addr)

InMap(m, key) == IF key \in DOMAIN m THEN m[key] ELSE <<>>

(* runResolveHook, when it does not fail. *)
FromHook(addr) == IF addr \in DOMAIN Hook THEN Hook[addr] ELSE <<>>

(* The recipient r of an alias for addr: a "*" user stands for the user    *)
(* that was looked for.                                                    *)
Substituted(r, addr) ==
  IF r.type # "pipe" /\ r.addr.user.name = "*"
  THEN [r EXCEPT !.addr.user = addr.user]
  ELSE r

(***************************************************************************)
(* A transaction is a call of Exists, for RCPT, and a call of Resolve, for *)
(* Put.  todo are the calls of resolve that are still to be made, the one  *)
(* under way first; stage is the lookup it is at; held is the slice that   *)
(* the lookup got, in part the memory of the map.                          *)
(***************************************************************************)
NewTx ==
  [pc |-> "idle", op |-> "exists", addr |-> None, todo |-> <<>>, stage |-> "exact",
   held |-> None, out |-> {}, err |-> None]

AliasesInit ==
  /\ files \in Files
  /\ maps = <<files>>
  /\ shared = <<[k \in DOMAIN files |-> <<>>]>>
  /\ tx = [c \in Caller |-> NewTx]
  /\ hookFaults = 0
  /\ read = <<files>>
  /\ from = [c \in Caller |-> [rcpt |-> 0, put |-> 0]]

At(c, pc) == tx[c].pc = pc

Looking(c) == Head(tx[c].todo).addr

(* The address the lookup of this stage is for. *)
LookupAddr(c) ==
  IF tx[c].stage = "exact" THEN Looking(c)
  ELSE IF tx[c].stage = "clean" THEN RemoveDropsAndSuffix(Looking(c))
  ELSE Star(Looking(c).dom)

(* RCPT for a local address: localUserExists calls Exists. *)
RCPTLocal(c, addr) ==
  /\ At(c, "idle") /\ IsLocal(addr)
  /\ tx' = [tx EXCEPT ![c] = [NewTx EXCEPT !.pc = "lookup", !.addr = addr,
                                !.todo = <<[addr |-> addr, depth |-> 0]>>]]
  /\ from' = [from EXCEPT ![c].rcpt = Len(read)]
  /\ UNCHANGED <<files, maps, shared, hookFaults, read>>

(* Queue.Put calls Resolve. *)
Put(c) ==
  /\ At(c, "accepted")
  /\ tx' = [tx EXCEPT ![c].pc = "walk", ![c].op = "resolve",
                      ![c].todo = <<[addr |-> tx[c].addr, depth |-> 0]>>]
  /\ from' = [from EXCEPT ![c].put = Len(read)]
  /\ UNCHANGED <<files, maps, shared, hookFaults, read>>

(* The first half of lookup: v.aliases[clean]. *)
ReadMap(c) ==
  /\ At(c, "lookup")
  /\ tx' = [tx EXCEPT ![c].pc = "hook",
       ![c].held = [map |-> Len(maps), key |-> Key(LookupAddr(c)), tail |-> <<>>]]
  /\ UNCHANGED <<files, maps, shared, hookFaults, read, from>>

(***************************************************************************)
(* What a caller reads in the slice it holds: the entry of the map, then   *)
(* the recipients of its hook, which are in the memory behind the entry if *)
(* there was room for them.  parseRHS appends recipients one at a time, so *)
(* the capacity of an entry is the next power of two.                      *)
(***************************************************************************)
Capacity(n) == CHOOSE c \in {1, 2, 4, 8} : c >= n /\ c < 2 * n

InPlace(rcpts, hr) ==
  rcpts # <<>> /\ hr # <<>> /\ Len(rcpts) + Len(hr) <= Capacity(Len(rcpts))

Recipients(c) ==
  LET h == tx[c].held
      rcpts == InMap(maps[h.map], h.key)
  IN  rcpts \o (IF InPlace(rcpts, h.tail) THEN shared[h.map][h.key] ELSE h.tail)

(* What the lookup found, to the caller that just made it. *)
Found(c, hr) ==
  InMap(maps[tx[c].held.map], tx[c].held.key) \o hr

(* Resolve ends with an error, which fails all of the recipients. *)
Fail(c, err) ==
  tx' = [tx EXCEPT ![c] = [NewTx EXCEPT !.pc = "done", !.op = "resolve",
                             !.addr = tx[c].addr, !.err = err]]

(* resolve returns the address itself: on to the next call, if any. *)
ReturnSelf(c, addr) ==
  tx' = [tx EXCEPT ![c].pc = "walk", ![c].todo = Tail(@), ![c].held = None,
                   ![c].stage = "exact", ![c].out = @ \cup {EMAIL(addr)}]

Answer_DomainOnly(c, found) ==
  tx' = [tx EXCEPT ![c] = [NewTx EXCEPT
           !.pc = IF found \/ IsLocal(tx[c].addr) THEN "accepted" ELSE "rejected",
           !.addr = tx[c].addr]]
(* The end of Exists: the answer, and if it is no, the user database. *)
Answer(c, found) ==
  tx' = [tx EXCEPT ![c] = [NewTx EXCEPT
           !.pc = IF found \/ RemoveDropsAndSuffix(tx[c].addr) \in Users
                  THEN "accepted" ELSE "rejected",
           !.addr = tx[c].addr]]

NextStage(c, stage) ==
  tx' = [tx EXCEPT ![c].pc = "lookup", ![c].stage = stage, ![c].held = None]

(* Exists, after the lookup of a stage; errors of the hook are ignored. *)
ExistsGot(c, found) ==
  /\ tx[c].op = "exists"
  /\ IF found # <<>> THEN Answer(c, TRUE)
     ELSE IF tx[c].stage = "exact" THEN NextStage(c, "clean")
     ELSE IF tx[c].stage = "clean" THEN NextStage(c, "catchAll")
     ELSE Answer(c, FALSE)

(* resolve, after the lookup of a stage; between the second and the third  *)
(* it asks the user database for the user as it was given.                 *)
ResolveGot(c, found) ==
  /\ tx[c].op = "resolve"
  /\ IF found # <<>>
     THEN tx' = [tx EXCEPT ![c].pc = "walk",
                           ![c].held.tail = FromHook(LookupAddr(c))]
     ELSE IF tx[c].stage = "exact" THEN NextStage(c, "clean")
     ELSE IF tx[c].stage = "clean" /\ Looking(c) \notin Users
     THEN NextStage(c, "catchAll")
     ELSE ReturnSelf(c, RemoveDropsAndSuffix(Looking(c)))

(* The second half of lookup: the hook, then append(rcpts, hr...). *)
RunHook(c) ==
  /\ At(c, "hook")
  /\ LET h == tx[c].held
         hr == FromHook(LookupAddr(c))
     IN  \/ /\ shared' = IF InPlace(InMap(maps[h.map], h.key), hr)
                         THEN [shared EXCEPT ![h.map][h.key] = hr]
                         ELSE shared
            /\ ExistsGot(c, Found(c, hr)) \/ ResolveGot(c, Found(c, hr))
            /\ UNCHANGED hookFaults
         \/ /\ hookFaults < MaxHookFaults
            /\ hookFaults' = hookFaults + 1
            /\ ExistsGot(c, <<>>) \/ (tx[c].op = "resolve" /\ Fail(c, "hook"))
            /\ UNCHANGED shared
  /\ UNCHANGED <<files, maps, read, from>>

Calls_Flat(c, rs) ==
  LET emails == SelectSeq(rs, LAMBDA r : r.type = "email")
  IN  [i \in DOMAIN emails |->
        [addr |-> Substituted(emails[i], Looking(c)).addr,
         depth |-> Head(tx[c].todo).depth]]
(* The recursive calls of resolve for the recipients of an alias. *)
Calls(c, rs) ==
  LET emails == SelectSeq(rs, LAMBDA r : r.type = "email")
  IN  [i \in DOMAIN emails |->
        [addr |-> Substituted(emails[i], Looking(c)).addr,
         depth |-> Head(tx[c].todo).depth + 1]]

Finals(c, rs) ==
  {Substituted(r, Looking(c)) : r \in {x \in ToSet(rs) : x.type # "email"}}

(* A call of resolve begins, or goes through the recipients it found. *)
TooDeep(depth) == depth >= Limit

Walk(c) ==
  /\ At(c, "walk")
  /\ IF tx[c].todo = <<>>
     THEN tx' = [tx EXCEPT ![c].pc = "done"]
     ELSE IF tx[c].held # None
     THEN tx' = [tx EXCEPT ![c].todo = Calls(c, Recipients(c)) \o Tail(@),
                           ![c].out = @ \cup Finals(c, Recipients(c)),
                           ![c].held = None, ![c].stage = "exact"]
     ELSE IF TooDeep(Head(tx[c].todo).depth)
     THEN Fail(c, "limit")
     ELSE IF IsLocal(Looking(c))
     THEN tx' = [tx EXCEPT ![c].pc = "lookup"]
     ELSE ReturnSelf(c, Looking(c))
  /\ UNCHANGED <<files, maps, shared, hookFaults, read, from>>

(* The administrator edits the files, and Reload reads them: it parses all *)
(* of them, without the mutex, and puts a new map in place.                *)
Reloaded_Merge(m) ==
  [k \in DOMAIN m \cup DOMAIN Last(maps) |->
     IF k \in DOMAIN m THEN m[k] ELSE Last(maps)[k]]
Reloaded(m) == m

Edit ==
  /\ Len(maps) <= MaxReloads
  /\ \E m \in Files : m # files /\ files' = m
  /\ UNCHANGED <<maps, shared, tx, hookFaults, read, from>>

Reload ==
  /\ Len(maps) <= MaxReloads
  /\ maps' = Append(maps, Reloaded(files))
  /\ shared' = Append(shared, [k \in DOMAIN files |-> <<>>])
  /\ read' = Append(read, files)
  /\ UNCHANGED <<files, tx, hookFaults, from>>

Step(c) == ReadMap(c) \/ RunHook(c) \/ Walk(c)

AliasesNext ==
  \/ Edit \/ Reload
  \/ \E c \in Caller : Step(c) \/ Put(c) \/ \E a \in Asked : RCPTLocal(c, a)

(* The hook is stopped after five seconds, and nothing else waits. *)
AliasesSpec == AliasesInit /\ [][AliasesNext]_aliasesVars /\ \A c \in Caller : WF_aliasesVars(Step(c))

(***************************************************************************)
(* What an address stands for, given the contents m of the files and the   *)
(* hook, level by level: the addresses reached after n aliases, and the    *)
(* recipients that are not resolved any further.                           *)
(***************************************************************************)
Entry(m, addr) == InMap(m, Key(addr)) \o FromHook(addr)

AliasOf(m, addr) ==
  LET found == SelectSeq(
        <<Entry(m, addr), Entry(m, RemoveDropsAndSuffix(addr)),
          IF addr \in Users THEN <<>> ELSE Entry(m, Star(addr.dom))>>,
        LAMBDA e : e # <<>>)
  IN  IF IsLocal(addr) /\ found # <<>>
      THEN {Substituted(r, addr) : r \in ToSet(Head(found))}
      ELSE {}

Leaves(m, addr) ==
  IF AliasOf(m, addr) = {}
  THEN {EMAIL(IF IsLocal(addr) THEN RemoveDropsAndSuffix(addr) ELSE addr)}
  ELSE {r \in AliasOf(m, addr) : r.type # "email"}

Levels(m, addr) ==
  LET level[n \in 0..Limit] ==
        IF n = 0 THEN {addr}
        ELSE UNION {{r.addr : r \in {x \in AliasOf(m, a) : x.type = "email"}} :
                      a \in level[n - 1]}
  IN  level

Expected(m, addr) ==
  UNION {Leaves(m, a) : a \in UNION {Levels(m, addr)[n] : n \in 0..Limit - 1}}

(***************************************************************************)
(* Properties                                                              *)
(***************************************************************************)

Busy(c) == At(c, "lookup") \/ At(c, "hook") \/ At(c, "walk")

(* docs/aliases.md and docs/hooks.md: with the files as they were last     *)
(* loaded, Resolve gives just the recipients that the aliases, the hook    *)
(* and the catch-all lead to, and if there are Limit levels of them, the   *)
(* entire resolution fails; whatever other transactions do meanwhile.      *)
ResolvesAsWritten ==
  \A c \in Caller :
    At(c, "done") /\ from[c].put = Len(read) =>
      LET addr == tx[c].addr
          deep == Levels(Last(read), addr)[Limit] # {}
      IN  /\ tx[c].err = None => ~deep /\ tx[c].out = Expected(Last(read), addr)
          /\ tx[c].err = "limit" => deep

(* An address that RCPT accepted has somewhere to go: if the files are not *)
(* loaded again in between, the later Resolve finds an alias, a catch-all  *)
(* or a mailbox for it, though Exists and resolve make their lookups and   *)
(* clean the address separately, and Exists ignores errors of the hook.    *)
AcceptedIsKnown ==
  \A c \in Caller :
    At(c, "done") /\ tx[c].err = None /\ from[c].rcpt = Len(read) =>
      \/ tx[c].out # {EMAIL(RemoveDropsAndSuffix(tx[c].addr))}
      \/ RemoveDropsAndSuffix(tx[c].addr) \in Users

(* Every call of Exists and Resolve ends, also when aliases lead back to   *)
(* themselves, and however the map changes under it.                       *)
EveryCallEnds == \A c \in Caller : Busy(c) ~> ~Busy(c)
=============================================================================
