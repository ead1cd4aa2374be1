---------------------------- MODULE ResolveCache ----------------------------
(***************************************************************************)
(* config.Resolve (internal/config): the VPN server's host names become    *)
(* addresses, and resolve-cache.json keeps them for the time when the kill *)
(* switch is on and the names do not resolve.                              *)
(*                                                                         *)
(* The service and every `vpnguard enable` run Resolve without a common    *)
(* lock, one host per step: a lookup takes seconds.  os.WriteFile truncates*)
(* the file and then writes it, two steps.                                 *)
(*                                                                         *)
(* Abstractions.  The addresses of a host are one value, an answer.  Ports *)
(* and protocols, which Resolve passes through, are left out, and so are   *)
(* literal addresses, which it neither looks up nor caches.                *)
(***************************************************************************)
EXTENDS Naturals, Sequences

CONSTANTS Procs,     \* processes that call Resolve
          Hosts,     \* host names in .ovpn files
          Remotes,   \* the lists of hosts of the .ovpn files
          Answers,   \* what DNS may answer
          None       \* no value

ASSUME RemotesAssumption == Remotes \subseteq Seq(Hosts)
ASSUME NoneAssumption == None \notin Answers \cup [Hosts -> Answers \cup {None}]

VARIABLES
  file,      \* resolve-cache.json: a cache, or None when it cannot be parsed
  pc,        \* pc[p]: "idle", "lookup", "truncate" or "write"
  todo,      \* todo[p]: remotes not yet looked up
  cache,     \* cache[p]: the map in memory
  changed,   \* changed[p]
  ret,       \* ret[p]: "none", "ok" or "failed"
  fresh,     \* history: fresh[p][h] is what DNS answered for h in this call
  latest,    \* history: the last answer for h of a call that returned "ok"
  disturbed  \* history: two calls overlapped, or one died while it wrote

locals == <<pc, todo, cache, changed>>
history == <<fresh, latest, disturbed>>
vars == <<file, locals, ret, history>>

Empty == [h \in Hosts |-> None]
Cache == [Hosts -> Answers \cup {None}]

Init ==
  /\ file = Empty
  /\ pc = [p \in Procs |-> "idle"]
  /\ todo = [p \in Procs |-> <<>>]
  /\ cache = [p \in Procs |-> Empty]
  /\ changed = [p \in Procs |-> FALSE]
  /\ ret = [p \in Procs |-> "none"]
  /\ fresh = [p \in Procs |-> Empty]
  /\ latest = Empty
  /\ disturbed = FALSE

\* loadCache: a file that cannot be parsed counts as an empty cache.
LoadCache == IF file = None THEN Empty ELSE file

Overlaps(p) == \E q \in Procs \ {p} : pc[q] # "idle"

StartResolve_NeedsFile(p) ==
  /\ pc[p] = "idle"
  /\ \E r \in Remotes :
       /\ todo' = [todo EXCEPT ![p] = r]
       /\ pc' = [pc EXCEPT ![p] = IF file = None THEN "idle" ELSE "lookup"]
  /\ cache' = [cache EXCEPT ![p] = LoadCache]
  /\ changed' = [changed EXCEPT ![p] = FALSE]
  /\ ret' = [ret EXCEPT ![p] = IF file = None THEN "failed" ELSE "none"]
  /\ fresh' = [fresh EXCEPT ![p] = Empty]
  /\ disturbed' = (disturbed \/ Overlaps(p))
  /\ UNCHANGED <<file, latest>>

StartResolve(p) ==
  /\ pc[p] = "idle"
  /\ \E r \in Remotes : todo' = [todo EXCEPT ![p] = r]
  /\ cache' = [cache EXCEPT ![p] = LoadCache]
  /\ changed' = [changed EXCEPT ![p] = FALSE]
  /\ ret' = [ret EXCEPT ![p] = "none"]
  /\ fresh' = [fresh EXCEPT ![p] = Empty]
  /\ disturbed' = (disturbed \/ Overlaps(p))
  /\ pc' = [pc EXCEPT ![p] = "lookup"]
  /\ UNCHANGED <<file, latest>>

LookupAnswers_OnlyNewHosts(p) ==
  /\ pc[p] = "lookup" /\ todo[p] # <<>>
  /\ LET h == Head(todo[p])
     IN  \E a \in Answers :
           /\ cache' = [cache EXCEPT ![p][h] = a]
           /\ changed' = [changed EXCEPT ![p] = @ \/ cache[p][h] = None]
           /\ fresh' = [fresh EXCEPT ![p][h] = a]
  /\ todo' = [todo EXCEPT ![p] = Tail(@)]
  /\ UNCHANGED <<file, pc, ret, latest, disturbed>>

LookupAnswers(p) ==
  /\ pc[p] = "lookup" /\ todo[p] # <<>>
  /\ LET h == Head(todo[p])
     IN  \E a \in Answers :
           /\ cache' = [cache EXCEPT ![p][h] = a]
           /\ fresh' = [fresh EXCEPT ![p][h] = a]
  /\ changed' = [changed EXCEPT ![p] = TRUE]
  /\ todo' = [todo EXCEPT ![p] = Tail(@)]
  /\ UNCHANGED <<file, pc, ret, latest, disturbed>>

\* The cached addresses serve; without them Resolve returns an error at once,
\* and saves nothing of what it has looked up.
LookupFails(p) ==
  /\ pc[p] = "lookup" /\ todo[p] # <<>>
  /\ IF cache[p][Head(todo[p])] # None
     THEN todo' = [todo EXCEPT ![p] = Tail(@)] /\ UNCHANGED <<pc, ret>>
     ELSE /\ todo' = [todo EXCEPT ![p] = <<>>]
          /\ pc' = [pc EXCEPT ![p] = "idle"]
          /\ ret' = [ret EXCEPT ![p] = "failed"]
  /\ UNCHANGED <<file, cache, changed, history>>

Latest(p) == [h \in Hosts |-> IF fresh[p][h] # None THEN fresh[p][h] ELSE latest[h]]

Returns(p) ==
  /\ pc' = [pc EXCEPT ![p] = "idle"]
  /\ ret' = [ret EXCEPT ![p] = "ok"]
  /\ latest' = Latest(p)

LookupsDone(p) ==
  /\ pc[p] = "lookup" /\ todo[p] = <<>>
  /\ IF changed[p]
     THEN pc' = [pc EXCEPT ![p] = "truncate"] /\ UNCHANGED <<ret, latest>>
     ELSE Returns(p)
  /\ UNCHANGED <<file, todo, cache, changed, fresh, disturbed>>

Truncate(p) ==
  /\ pc[p] = "truncate"
  /\ file' = None
  /\ pc' = [pc EXCEPT ![p] = "write"]
  /\ UNCHANGED <<todo, cache, changed, ret, history>>

\* On top of what somebody else has written meanwhile, the tail of a longer
\* text may be left.
Write(p) ==
  /\ pc[p] = "write"
  /\ file' \in {cache[p]} \cup (IF file = None THEN {} ELSE {None})
  /\ Returns(p)
  /\ UNCHANGED <<todo, cache, changed, fresh, disturbed>>

\* saveCache ignores the errors of MkdirAll and WriteFile; a full disk is a
\* crash here.
Crash(p) ==
  /\ pc[p] # "idle"
  /\ disturbed' = (disturbed \/ pc[p] = "write")
  /\ pc' = [pc EXCEPT ![p] = "idle"]
  /\ todo' = [todo EXCEPT ![p] = <<>>]
  /\ ret' = [ret EXCEPT ![p] = "none"]
  /\ UNCHANGED <<file, cache, changed, fresh, latest>>

Next ==
  \E p \in Procs :
    \/ StartResolve(p)
    \/ LookupAnswers(p) \/ LookupFails(p) \/ LookupsDone(p)
    \/ Truncate(p) \/ Write(p)
    \/ Crash(p)

Spec == Init /\ [][Next]_vars

-----------------------------------------------------------------------------
(***************************************************************************)
(* Properties.                                                             *)
(***************************************************************************)
AtRest == \A p \in Procs : pc[p] = "idle"

\* Every variable has its type; a call that has returned has no host left.
TypeOK ==
  /\ file \in Cache \cup {None}
  /\ pc \in [Procs -> {"idle", "lookup", "truncate", "write"}]
  /\ todo \in [Procs -> Seq(Hosts)]
  /\ \A p \in Procs : pc[p] # "lookup" => todo[p] = <<>>
  /\ cache \in [Procs -> Cache] /\ changed \in [Procs -> BOOLEAN]
  /\ ret \in [Procs -> {"none", "ok", "failed"}]
  /\ fresh \in [Procs -> Cache] /\ latest \in Cache /\ disturbed \in BOOLEAN

\* "Without the cache we could never rebuild the permit rules": while the calls
\* of all processes come one after the other and none dies between truncating
\* and writing, every host of a Resolve that has succeeded is in the file with
\* the last answer such a Resolve had for it - over Resolves of other hosts,
\* failed ones and ones that died looking up.
CacheServesLatest ==
  AtRest /\ ~disturbed =>
    \A h \in Hosts : latest[h] # None => file # None /\ file[h] = latest[h]

\* The cache is a help and never an obstacle: whatever has become of the file,
\* Resolve fails only when DNS had no answer for one of the hosts.
FailsOnlyWithoutDns ==
  [][\A p \in Procs :
       (ret[p] # "failed" /\ ret'[p] = "failed")
         => todo[p] # <<>> /\ fresh[p][Head(todo[p])] = None]_vars
=============================================================================
